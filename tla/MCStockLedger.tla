----------------------------- MODULE MCStockLedger -----------------------------
(***************************************************************************)
(* Small instances of StockLedger.  The product has a lot at the front and *)
(* none at the back.  A receipt at the back, a transfer to the front, an   *)
(* issue at the front with its retries, and two reversals of the issue     *)
(* under different keys: where a policy allows negative stock, the receipt *)
(* and the transfer race for the first row at the back, the transfer and   *)
(* the issue for the one at the front.                                     *)
(***************************************************************************)
EXTENDS StockLedger, TLC

CONSTANTS front, back, kIn, kOut, kRev, kRev2, kMove, in1, out1, out2, out3, rev1, rev2, move1

At(f, b) == front :> f @@ back :> b
Do(delta) == [delta |-> delta, of |-> None]
Undo(k) == [delta |-> At(0, 0), of |-> k]

AllKeys ==
    in1 :> kIn @@ out1 :> kOut @@ out2 :> kOut @@ out3 :> kOut @@ move1 :> kMove
        @@ rev1 :> kRev @@ rev2 :> kRev2
AllCommands ==
    in1 :> Do(At(0, 1)) @@ out1 :> Do(At(-1, 0)) @@ out2 :> Do(At(-1, 0))
        @@ out3 :> Do(At(-1, 0))
        @@ move1 :> Do(At(1, -1)) @@ rev1 :> Undo(kOut) @@ rev2 :> Undo(kOut)

KeyOfRequest == [r \in Requests |-> AllKeys[r]]
CommandOfRequest == [r \in Requests |-> AllCommands[r]]
=============================================================================
