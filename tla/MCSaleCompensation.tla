-------------------------- MODULE MCSaleCompensation --------------------------
(***************************************************************************)
(* Small instances of SaleCompensation.  Two carts are enough to tell the  *)
(* cases apart: one with two lines, paid by two payments in cash and one   *)
(* by pix (partial returns and refunds), one paid partly by a method that  *)
(* cannot be refunded (never cancellable).  A client may use either key    *)
(* for a return, for a cancellation or for both.                           *)
(***************************************************************************)
EXTENDS SaleCompensation, TLC

Payment(cash, pix, other) ==
    [m \in Methods |-> CASE m = "cash" -> cash [] m = "pix" -> pix
                         [] m = "card_external" -> <<>> [] m = "other" -> other]

MixedCart == [qty |-> (1 :> 2 @@ 2 :> 1), pay |-> Payment(<<1, 1>>, <<1>>, <<>>)]
CardCart == [qty |-> (1 :> 1 @@ 2 :> 0), pay |-> Payment(<<>>, <<1>>, <<1>>)]

TwoCarts == {MixedCart, CardCart}
SmallReturns == [Lines -> 0 .. 2]

Permuted == Permutations(CancelKeys) \cup Permutations(RefundKeys)
=============================================================================
