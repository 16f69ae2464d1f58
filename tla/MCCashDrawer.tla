------------------------------ MODULE MCCashDrawer ------------------------------
(***************************************************************************)
(* Small instances of CashDrawer: sales paid with cash, with another       *)
(* method and with both.                                                   *)
(***************************************************************************)
EXTENDS CashDrawer, TLC

CONSTANTS s1, s2

MixedCash == s1 :> 2 @@ s2 :> 0
MixedOther == s1 :> 1 @@ s2 :> 1
TwoCash == s1 :> 2 @@ s2 :> 1
TwoOther == s1 :> 0 @@ s2 :> 1
NoOther == s1 :> 0 @@ s2 :> 0
=============================================================================
