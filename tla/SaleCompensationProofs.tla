------------------------ MODULE SaleCompensationProofs ------------------------
(***************************************************************************)
(* Proofs about SaleCompensation, for any number of sales, sessions, lines *)
(* and keys.                                                               *)
(***************************************************************************)
EXTENDS SaleCompensation, Sums

-----------------------------------------------------------------------------
(* Sums of payments, and what the loop of a cancellation leaves of them.   *)

\* The sum of the first i payments.
SumTo(amounts, i) == SumFunctionOnSet(amounts, 1 .. i)

LEMMA SumToSteps ==
    ASSUME NEW amounts \in Seq(Nat), NEW i \in 0 .. Len(amounts)
    PROVE  /\ SumTo(amounts, i) \in Nat
           /\ i = 0 => SumTo(amounts, i) = 0
           /\ i > 0 => SumTo(amounts, i) = SumTo(amounts, i - 1) + amounts[i]
<1>0. i \in Int /\ i - 1 \in Int /\ i >= 0 /\ 1 \in Int
          /\ \A x \in 1 .. Len(amounts) : amounts[x] \in Nat
    OBVIOUS
<1>1. IsFiniteSet(1 .. i) /\ \A x \in 1 .. i : amounts[x] \in Nat
  <2>1. IsFiniteSet(1 .. i)
      BY <1>0, FS_Interval
  <2>2. 1 .. i \subseteq 1 .. Len(amounts)
      OBVIOUS
  <2> QED
      BY <1>0, <2>1, <2>2
<1>2. SumTo(amounts, i) \in Nat
    BY <1>1, SumNatural DEF SumTo
<1>3. ASSUME i = 0
      PROVE  SumTo(amounts, i) = 0
  <2>1. 1 .. i = {}
      BY <1>3
  <2> QED
      BY <2>1, SumEmpty DEF SumTo
<1>4. ASSUME i > 0
      PROVE  SumTo(amounts, i) = SumTo(amounts, i - 1) + amounts[i]
  <2>1. i \in 1 .. i /\ (1 .. i) \ {i} = 1 .. (i - 1)
      BY <1>4
  <2>2. SumFunctionOnSet(amounts, 1 .. i) = amounts[i] + SumFunctionOnSet(amounts, (1 .. i) \ {i})
      BY <1>1, <2>1, SumTakes
  <2>3. SumFunctionOnSet(amounts, 1 .. (i - 1)) \in Nat /\ amounts[i] \in Nat
    <3>1. IsFiniteSet(1 .. (i - 1)) /\ \A x \in 1 .. (i - 1) : amounts[x] \in Nat
      <4>1. IsFiniteSet(1 .. (i - 1))
          BY <1>0, FS_Interval
      <4>2. 1 .. (i - 1) \subseteq 1 .. i
          BY <1>0
      <4> QED
          BY <1>1, <4>1, <4>2
    <3> QED
        BY <1>1, <2>1, <3>1, SumNatural
  <2>4. SumTo(amounts, i) = amounts[i] + SumTo(amounts, i - 1)
      BY <2>1, <2>2 DEF SumTo
  <2>5. SumTo(amounts, i - 1) \in Nat
      BY <2>3 DEF SumTo
  <2> QED
      BY <2>3, <2>4, <2>5
<1> QED
    BY <1>2, <1>3, <1>4

(***************************************************************************)
(* The loop's equation, and its only solution: as much is left as the      *)
(* payments so far do not cover.  A solution of the whole loop is          *)
(* exhibited, so no induction is needed to see that there is one; that     *)
(* there is no other is by a least index at which they differ.             *)
(***************************************************************************)
Loop(amounts, remaining, left) ==
    [i \in 0 .. Len(amounts) |->
        IF i = 0 THEN remaining ELSE left[i - 1] - Least(amounts[i], left[i - 1])]

Uncovered(amounts, remaining) ==
    [i \in 0 .. Len(amounts) |->
        IF SumTo(amounts, i) >= remaining THEN 0 ELSE remaining - SumTo(amounts, i)]

LEMMA UncoveredIsLoop ==
    ASSUME NEW amounts \in Seq(Nat), NEW remaining \in Nat
    PROVE  Uncovered(amounts, remaining) = Loop(amounts, remaining, Uncovered(amounts, remaining))
<1> DEFINE U == Uncovered(amounts, remaining)
<1> SUFFICES ASSUME NEW i \in 0 .. Len(amounts)
             PROVE  U[i] = IF i = 0 THEN remaining ELSE U[i - 1] - Least(amounts[i], U[i - 1])
    BY DEF Loop, Uncovered
<1>1. \A j \in 0 .. Len(amounts) :
          U[j] = IF SumTo(amounts, j) >= remaining THEN 0 ELSE remaining - SumTo(amounts, j)
    BY DEF Uncovered
<1>2. CASE i = 0
    BY <1>1, <1>2, SumToSteps
<1>3. CASE i > 0
  <2>1. i - 1 \in 0 .. Len(amounts) /\ amounts[i] \in Nat
      BY <1>3
  <2>2. SumTo(amounts, i) = SumTo(amounts, i - 1) + amounts[i] /\ SumTo(amounts, i - 1) \in Nat
      BY <1>3, <2>1, SumToSteps
  <2>3. U[i] = (IF SumTo(amounts, i) >= remaining THEN 0 ELSE remaining - SumTo(amounts, i))
            /\ U[i - 1] = (IF SumTo(amounts, i - 1) >= remaining THEN 0
                                ELSE remaining - SumTo(amounts, i - 1))
      BY <1>1, <2>1
  <2> HIDE DEF U
  <2> QED
      BY <1>3, <2>1, <2>2, <2>3 DEF Least
<1> QED
    BY <1>2, <1>3

LEMMA OneLoop ==
    ASSUME NEW amounts \in Seq(Nat), NEW remaining \in Nat, NEW f, NEW g,
           f = Loop(amounts, remaining, f), g = Loop(amounts, remaining, g)
    PROVE  \A i \in 0 .. Len(amounts) : f[i] = g[i]
<1> DEFINE n == Len(amounts)
           Differ == {j \in 0 .. n : f[j] # g[j]}
           Bad == {0 .. j : j \in Differ}
<1>0. n \in Nat
    OBVIOUS
<1> SUFFICES ASSUME Differ # {}
             PROVE  FALSE
    OBVIOUS
<1>1. IsFiniteSet(0 .. n) /\ Bad \in SUBSET SUBSET (0 .. n) /\ Bad # {}
  <2>1. IsFiniteSet(0 .. n)
      BY <1>0, FS_Interval
  <2>2. \A j \in 0 .. n : 0 .. j \subseteq 0 .. n
      BY <1>0
  <2> QED
      BY <2>1, <2>2
<1>2. PICK T \in Bad : \A U \in Bad : U \subseteq T => U = T
  <2> DEFINE N == 0 .. n
  <2>1. IsFiniteSet(N) /\ Bad \in SUBSET SUBSET N /\ Bad # {}
      BY <1>1
  <2> HIDE DEF Bad, N
  <2> QED
      BY <2>1, LeastSubset
<1>3. PICK i \in Differ : T = 0 .. i
    OBVIOUS
<1>4. f[0] = remaining /\ g[0] = remaining
    BY <1>0 DEF Loop
<1>5. i \in 1 .. n
    BY <1>0, <1>4
<1>6. f[i] = f[i - 1] - Least(amounts[i], f[i - 1]) /\ g[i] = g[i - 1] - Least(amounts[i], g[i - 1])
    BY <1>5 DEF Loop
<1>7. f[i - 1] # g[i - 1]
    BY <1>6
<1>8. i - 1 \in Differ
    BY <1>0, <1>5, <1>7
<1>9. 0 .. (i - 1) \in Bad
    BY <1>8
<1>10. 0 .. (i - 1) \subseteq T /\ i \in T /\ i \notin 0 .. (i - 1)
    BY <1>3, <1>5
<1> QED
    BY <1>2, <1>9, <1>10

LEMMA LoopLeaves ==
    ASSUME NEW amounts \in Seq(Nat), NEW remaining \in Nat
    PROVE  LeftAfter(amounts, remaining)[Len(amounts)] =
               Uncovered(amounts, remaining)[Len(amounts)]
<1> DEFINE L == LeftAfter(amounts, remaining)
<1>1. L = CHOOSE left : left = Loop(amounts, remaining, left)
    BY DEF LeftAfter, Loop
<1>2. L = Loop(amounts, remaining, L)
    BY <1>1, UncoveredIsLoop
<1>3. Len(amounts) \in 0 .. Len(amounts)
    OBVIOUS
<1>4. Uncovered(amounts, remaining) = Loop(amounts, remaining, Uncovered(amounts, remaining))
    BY UncoveredIsLoop
<1> HIDE DEF L
<1>5. \A i \in 0 .. Len(amounts) : L[i] = Uncovered(amounts, remaining)[i]
    BY <1>2, <1>4, OneLoop
<1>6. L[Len(amounts)] = Uncovered(amounts, remaining)[Len(amounts)]
    BY <1>3, <1>5
<1> QED
    BY <1>6 DEF L

(***************************************************************************)
(* What one method paid is an amount, and so is the net total.             *)
(***************************************************************************)
LEMMA PaymentsType ==
    ASSUME NEW amounts \in Seq(Nat)
    PROVE  SumFunctionOnSet(amounts, DOMAIN amounts) \in Nat
<1>1. DOMAIN amounts = 1 .. Len(amounts) /\ Len(amounts) \in 0 .. Len(amounts)
    OBVIOUS
<1> QED
    BY <1>1, SumToSteps DEF SumTo

LEMMA PaidType ==
    ASSUME NEW s \in Sales
    PROVE  /\ TypeOK => Net(s) \in Nat /\ \A m \in Methods : Paid(s, m) \in Nat
           /\ TypeOK' => Net(s)' \in Nat
<1>1. "cash" \in Methods /\ "pix" \in Methods /\ "card_external" \in Methods /\ "other" \in Methods
    BY DEF Methods, RefundMethods
<1>2. TypeOK => \A m \in Methods : Paid(s, m) \in Nat
    BY PaymentsType DEF TypeOK, Paid
<1>3. TypeOK' => \A m \in Methods : Paid(s, m)' \in Nat
    BY PaymentsType DEF TypeOK, Paid
<1>4. TypeOK => Net(s) \in Nat
    BY <1>1, <1>2 DEF Net
<1>5. TypeOK' => Net(s)' \in Nat
  <2>1. Net(s)' = Paid(s, "cash")' + Paid(s, "pix")' + Paid(s, "card_external")' + Paid(s, "other")'
      BY DEF Net
  <2> QED
      BY <1>1, <1>3, <2>1
<1> QED
    BY <1>2, <1>4, <1>5

(***************************************************************************)
(* The loop refunds exactly what remains of a method, when at least        *)
(* nothing remains (remaining_by_method is checked before it).             *)
(***************************************************************************)
LEMMA LoopRefundsRemaining ==
    ASSUME TypeOK, NEW s \in Sales, NEW m \in RefundMethods, Remaining(s, m) >= 0
    PROVE  AutoRefunds(s, m) = Remaining(s, m) /\ Remaining(s, m) \in Nat
<1> DEFINE amounts == cart[s].pay[m]
           n == Len(amounts)
<1>1. amounts \in Seq(Nat) /\ n \in 0 .. n /\ DOMAIN amounts = 1 .. n
    BY DEF TypeOK, Methods
<1>2. SumTo(amounts, n) = Paid(s, m) /\ Paid(s, m) \in Nat /\ refunded[s][m] \in Nat
    BY <1>1, PaidType DEF SumTo, Paid, TypeOK, Methods
<1>3. Remaining(s, m) \in Nat /\ SumTo(amounts, n) >= Remaining(s, m)
    BY <1>2 DEF Remaining
<1>4. Uncovered(amounts, Remaining(s, m))[n] = 0
    BY <1>1, <1>3 DEF Uncovered
<1>5. LeftAfter(amounts, Remaining(s, m))[n] = 0
  <2> HIDE DEF amounts
  <2> QED
      BY <1>1, <1>3, <1>4, LoopLeaves
<1> QED
    BY <1>3, <1>5 DEF AutoRefunds

-----------------------------------------------------------------------------
(* Types.                                                                  *)

(***************************************************************************)
(* The position of a receipt among a command's receipts is a number, so    *)
(* the operations a command stores are stock operations.                   *)
(***************************************************************************)
LEMMA ReceiptsType ==
    ASSUME NEW k \in ReturnKeys \cup CancelKeys, NEW q \in Quantities
    PROVE  Receipts(k, q) \subseteq StockOperation
<1> SUFFICES ASSUME NEW l \in Moved(q)
             PROVE  Receipt(k, q, l) \in StockOperation
    BY DEF Receipts
<1>1. l \in Lines /\ q[l] \in Nat
    BY DEF Moved, Quantities
<1>2. {i \in Moved(q) : i <= l} \subseteq Lines
    BY DEF Moved
<1>3. IsFiniteSet({i \in Moved(q) : i <= l})
    BY <1>2, LinesAssumption, FS_Subset
<1>4. Cardinality({i \in Moved(q) : i <= l}) \in Nat
    BY <1>3, FS_CardinalityType
<1> QED
    BY <1>1, <1>4 DEF Receipt, StockOperation

(***************************************************************************)
(* What a command newly takes back is a quantity per line.                 *)
(***************************************************************************)
LEMMA FreshType ==
    ASSUME NEW k, NEW q \in Quantities
    PROVE  Fresh(k, q) \in Quantities
BY DEF Fresh, Quantities, Moved

LEMMA SoldType ==
    ASSUME TypeOK, NEW s \in Sales
    PROVE  Sold(s) \in Quantities /\ IssuedTracked(s) \in Quantities
BY DEF TypeOK, Sold, IssuedTracked, Quantities

(***************************************************************************)
(* The receipts of one command keep the stock tables well typed.           *)
(***************************************************************************)
LEMMA RestockType ==
    ASSUME TypeOK, NEW s \in Sales, NEW k \in ReturnKeys \cup CancelKeys,
           NEW q \in Quantities, Restock(s, k, q)
    PROVE  restocked' \in [Sales -> Quantities] /\ stockOps' \subseteq StockOperation
<1>1. stockOps' \subseteq StockOperation
    BY ReceiptsType DEF Restock, TypeOK
<1>2. Fresh(k, q) \in Quantities
    BY FreshType
<1>3. [l \in Lines |-> restocked[s][l] + Fresh(k, q)[l]] \in Quantities
    BY <1>2 DEF Quantities, TypeOK
<1>4. restocked' \in [Sales -> Quantities]
    BY <1>3 DEF Restock, TypeOK
<1> QED
    BY <1>1, <1>4

LEMMA NothingType == Nothing \in Quantities /\ NoCart \in [qty : Quantities, pay : [Methods -> Seq(Nat)]]
BY DEF Nothing, NoCart, Quantities

(***************************************************************************)
(* Every step keeps the types.  Remaining amounts are natural numbers      *)
(* because a cancellation is refused when a method gave back more than it  *)
(* took.                                                                   *)
(***************************************************************************)
LEMMA TypeStep ==
    ASSUME TypeOK, [Next]_vars
    PROVE  TypeOK'
<1>1. ASSUME NEW x \in Sessions, OpenSession(x) \/ CloseSession(x)
      PROVE  TypeOK'
    BY <1>1 DEF OpenSession, CloseSession, TypeOK, keys
<1>2. ASSUME NEW s \in Sales, NEW x \in Sessions, NEW c \in Carts, BeginSale(s, x, c)
      PROVE  TypeOK'
    BY <1>2, CartsAssumption DEF BeginSale, TypeOK, keys
<1>3. ASSUME NEW s \in Sales, CommitSale(s)
      PROVE  TypeOK'
    BY <1>3 DEF CommitSale, TypeOK, keys
<1>4. ASSUME NEW s \in Sales, AbortSale(s)
      PROVE  TypeOK'
    BY <1>4, NothingType DEF AbortSale, TypeOK, keys
<1>5. ASSUME NEW s \in Sales, NEW k \in ReturnKeys, NEW q \in ReturnRequests, CreateSaleReturn(k, s, q)
      PROVE  TypeOK'
  <2>1. q \in Quantities
      BY RequestsAssumption
  <2>2. restocked' \in [Sales -> Quantities] /\ stockOps' \subseteq StockOperation
      BY <1>5, <2>1, RestockType DEF CreateSaleReturn
  <2>3. [l \in Lines |-> returned[s][l] + q[l]] \in Quantities
      BY <2>1 DEF TypeOK, Quantities
  <2>4. returned' \in [Sales -> Quantities]
      BY <1>5, <2>3 DEF CreateSaleReturn, TypeOK
  <2> QED
      BY <1>5, <2>2, <2>4 DEF CreateSaleReturn, TypeOK
<1>6. ASSUME NEW s \in Sales, NEW k \in RefundKeys, NEW m \in RefundMethods,
             NEW ret \in ReturnKeys \cup {None}, NEW amount \in 1 .. Net(s),
             CreateSaleRefund(k, s, m, amount, ret)
      PROVE  TypeOK'
  <2>1. amount \in Nat
      BY <1>6, PaidType
  <2>2. refunded' \in [Sales -> [RefundMethods -> Nat]]
      BY <1>6, <2>1 DEF CreateSaleRefund, TypeOK
  <2> QED
      BY <1>6, <2>2 DEF CreateSaleRefund, TypeOK
<1>7. ASSUME NEW s \in Sales, NEW k \in CancelKeys, CancelSale(k, s)
      PROVE  TypeOK'
  <2>1. restocked' \in [Sales -> Quantities] /\ stockOps' \subseteq StockOperation
      BY <1>7, SoldType, RestockType DEF CancelSale
  <2>2. [m \in RefundMethods |-> refunded[s][m] + AutoRefunds(s, m)] \in [RefundMethods -> Nat]
    <3>1. \A m \in RefundMethods : AutoRefunds(s, m) \in Nat
        BY <1>7, LoopRefundsRemaining DEF CancelSale, Cancellable
    <3> QED
        BY <3>1 DEF TypeOK
  <2>3. refunded' \in [Sales -> [RefundMethods -> Nat]]
      BY <1>7, <2>2 DEF CancelSale, TypeOK
  <2> QED
      BY <1>7, <2>1, <2>3 DEF CancelSale, TypeOK
<1>8. ASSUME NEW s \in Sales, NEW l \in Lines, ReverseIssue(s, l)
      PROVE  TypeOK'
  <2>1. Sold(s)[l] \in Nat
      BY SoldType DEF Quantities
  <2>2. restocked' \in [Sales -> Quantities]
      BY <1>8, <2>1 DEF ReverseIssue, TypeOK, Quantities
  <2> QED
      BY <1>8, <2>2 DEF ReverseIssue, TypeOK, keys
<1>9. CASE UNCHANGED vars
    BY <1>9 DEF vars, keys, TypeOK
<1> QED
    BY <1>1, <1>2, <1>3, <1>4, <1>5, <1>6, <1>7, <1>8, <1>9 DEF Next

(***************************************************************************)
(* Type correctness of every reachable state.                              *)
(***************************************************************************)
THEOREM TypeCorrect == Spec => []TypeOK
<1>1. Init => TypeOK
    BY NothingType DEF Init, TypeOK, RefundMethods
<1>2. TypeOK /\ [Next]_vars => TypeOK'
    BY TypeStep
<1> QED
    BY <1>1, <1>2, PTL DEF Spec

-----------------------------------------------------------------------------
(* The compensation invariants of one sale, and why they are inductive: a  *)
(* sale that has not committed was never compensated, so what it takes its *)
(* cart from may still change; from its commit on only the guards of the   *)
(* compensating commands move its amounts.                                 *)

Untouched(t) ==
    Committed(t) \/ (returned[t] = Nothing /\ refunded[t] = [m \in RefundMethods |-> 0])

FullyCompensated(t) ==
    /\ \A m \in RefundMethods : refunded[t][m] = Paid(t, m)
    /\ RefundTotal(refunded[t]) = Net(t)
    /\ returned[t] = Nothing

Compensated(t) ==
    /\ Untouched(t)
    /\ RefundTotal(refunded[t]) <= Net(t)
    /\ \A l \in Lines : returned[t][l] <= Sold(t)[l]
    /\ status[t] = "cancelled" => FullyCompensated(t)

CompensationInv == TypeOK /\ \A t \in Sales : Compensated(t)

RowUnchanged(t) ==
    /\ status'[t] = status[t] /\ cart'[t] = cart[t]
    /\ returned'[t] = returned[t] /\ refunded'[t] = refunded[t]

(***************************************************************************)
(* A command that leaves a sale's rows alone keeps its invariants.         *)
(***************************************************************************)
LEMMA OtherSales ==
    ASSUME NEW t \in Sales, Compensated(t), RowUnchanged(t)
    PROVE  Compensated(t)'
BY DEF RowUnchanged, Compensated, Untouched, FullyCompensated, Committed, RefundTotal, Net, Paid, Sold

(***************************************************************************)
(* A sale without compensation satisfies them whatever its cart is.        *)
(***************************************************************************)
LEMMA UntouchedSale ==
    ASSUME TypeOK', NEW t \in Sales, returned'[t] = Nothing,
           refunded'[t] = [m \in RefundMethods |-> 0], status'[t] # "cancelled"
    PROVE  Compensated(t)'
<1>1. cart'[t].qty \in [Lines -> Nat]
    BY DEF TypeOK, Quantities
<1>2. RefundTotal(refunded[t])' = 0
    BY DEF RefundTotal, RefundMethods
<1>3. Net(t)' >= 0
  <2>1. Net(t)' \in Nat
      BY PaidType
  <2> QED
      BY <2>1
<1>4. \A l \in Lines : returned'[t][l] <= Sold(t)'[l]
    BY <1>1 DEF Nothing, Sold
<1> QED
    BY <1>2, <1>3, <1>4 DEF Compensated, Untouched

(***************************************************************************)
(* Refunding by one method adds the amount to the sale's refunds.          *)
(***************************************************************************)
LEMMA RefundTotalAdds ==
    ASSUME NEW r \in [RefundMethods -> Nat], NEW m \in RefundMethods, NEW amount \in Nat
    PROVE  RefundTotal([r EXCEPT ![m] = @ + amount]) = RefundTotal(r) + amount
BY DEF RefundTotal, RefundMethods

LEMMA RefundStep ==
    ASSUME CompensationInv, TypeOK', NEW s \in Sales, NEW k \in RefundKeys, NEW m \in RefundMethods,
           NEW ret \in ReturnKeys \cup {None}, NEW amount \in 1 .. Net(s),
           CreateSaleRefund(k, s, m, amount, ret)
    PROVE  Compensated(s)'
<1>1. Net(s) \in Nat /\ amount \in Nat
    BY PaidType DEF CompensationInv
<1>2. refunded'[s] = [refunded[s] EXCEPT ![m] = @ + amount] /\ refunded[s] \in [RefundMethods -> Nat]
    BY DEF CreateSaleRefund, CompensationInv, TypeOK
<1>3. RefundTotal(refunded[s])' = RefundTotal(refunded[s]) + amount
    BY <1>1, <1>2, RefundTotalAdds DEF RefundTotal
<1>4. amount <= Net(s) - RefundTotal(refunded[s]) /\ Net(s)' = Net(s)
    BY DEF CreateSaleRefund, Refundable, Net, Paid, RefundTotal
<1>5. RefundTotal(refunded[s]) \in Nat
    BY DEF CompensationInv, TypeOK, RefundTotal, RefundMethods
<1>6. RefundTotal(refunded[s])' <= Net(s)'
    BY <1>1, <1>3, <1>4, <1>5
<1>7. status'[s] = "confirmed" /\ returned' = returned /\ cart' = cart
    BY DEF CreateSaleRefund
<1> QED
    BY <1>6, <1>7 DEF Compensated, Untouched, Committed, Sold, CompensationInv

LEMMA ReturnStep ==
    ASSUME CompensationInv, TypeOK', NEW s \in Sales, NEW k \in ReturnKeys, NEW q \in ReturnRequests,
           CreateSaleReturn(k, s, q)
    PROVE  Compensated(s)'
<1>1. returned'[s] = [l \in Lines |-> returned[s][l] + q[l]]
    BY DEF CreateSaleReturn, CompensationInv, TypeOK
<1>2. \A l \in Lines : returned[s][l] \in Nat /\ q[l] \in Nat /\ Sold(s)[l] \in Nat
    BY RequestsAssumption DEF CompensationInv, TypeOK, Sold, Quantities
<1>3. \A l \in Lines : q[l] <= Sold(s)[l] - returned[s][l]
    BY DEF CreateSaleReturn, Returnable
<1>4. \A l \in Lines : returned'[s][l] <= Sold(s)'[l]
    BY <1>1, <1>2, <1>3 DEF CreateSaleReturn, Sold
<1>5. status'[s] = "confirmed" /\ refunded' = refunded /\ cart' = cart
    BY DEF CreateSaleReturn
<1> QED
    BY <1>4, <1>5 DEF Compensated, Untouched, Committed, RefundTotal, Net, Paid, CompensationInv

LEMMA CancelStep ==
    ASSUME CompensationInv, TypeOK', NEW s \in Sales, NEW k \in CancelKeys, CancelSale(k, s)
    PROVE  Compensated(s)'
<1>1. refunded'[s] = [m \in RefundMethods |-> refunded[s][m] + AutoRefunds(s, m)]
    BY DEF CancelSale, CompensationInv, TypeOK
<1>2. \A m \in RefundMethods : refunded[s][m] \in Nat /\ Paid(s, m) \in Nat
    BY PaidType DEF CompensationInv, TypeOK, Methods
<1>3. \A m \in RefundMethods : AutoRefunds(s, m) = Remaining(s, m)
    BY LoopRefundsRemaining DEF CancelSale, Cancellable, CompensationInv
<1>4. \A m \in RefundMethods : refunded'[s][m] = Paid(s, m)
    BY <1>1, <1>2, <1>3 DEF Remaining
<1>5. cart[s].pay["other"] = <<>> /\ returned[s] = Nothing /\ cart' = cart /\ returned' = returned
    BY DEF CancelSale, Cancellable
<1>6. Paid(s, "other") = 0
  <2>1. DOMAIN cart[s].pay["other"] = {}
      BY <1>5
  <2> QED
      BY <2>1, SumEmpty DEF Paid
<1>7. \A m \in RefundMethods : Paid(s, m)' = Paid(s, m)
    BY <1>5 DEF Paid
<1>8. Net(s)' = Net(s) /\ Net(s) \in Nat
    BY <1>5, PaidType DEF Net, Paid, CompensationInv
<1>9. RefundTotal(refunded[s])' = Net(s)
    BY <1>2, <1>4, <1>6 DEF RefundTotal, Net, RefundMethods
<1>10. status'[s] = "cancelled"
    BY DEF CancelSale, CompensationInv, TypeOK
<1>11. \A l \in Lines : returned'[s][l] <= Sold(s)'[l]
    BY <1>5 DEF Sold, CompensationInv, Compensated
<1> QED
    BY <1>4, <1>5, <1>7, <1>8, <1>9, <1>10, <1>11
    DEF Compensated, Untouched, Committed, FullyCompensated

(***************************************************************************)
(* The compensation invariants are inductive.                              *)
(***************************************************************************)
LEMMA CompensationStep ==
    ASSUME CompensationInv, [Next]_vars
    PROVE  CompensationInv'
<1>0. TypeOK'
    BY TypeStep DEF CompensationInv
<1>a. SUFFICES ASSUME NEW t \in Sales
              PROVE  Compensated(t)'
    BY <1>0 DEF CompensationInv
<1>b. Compensated(t) /\ TypeOK
    BY DEF CompensationInv
<1>1. ASSUME NEW x \in Sessions, OpenSession(x) \/ CloseSession(x)
      PROVE  Compensated(t)'
    BY <1>1, <1>b, OtherSales DEF OpenSession, CloseSession, RowUnchanged
<1>2. ASSUME NEW s \in Sales, NEW x \in Sessions, NEW c \in Carts, BeginSale(s, x, c)
      PROVE  Compensated(t)'
  <2>1. CASE t = s
      BY <2>1, <1>2, <1>0, <1>b, UntouchedSale DEF BeginSale, Compensated, Untouched, Committed, TypeOK
  <2>2. CASE t # s
      BY <2>2, <1>2, <1>b, OtherSales DEF BeginSale, RowUnchanged, TypeOK
  <2> QED
      BY <2>1, <2>2
<1>3. ASSUME NEW s \in Sales, CommitSale(s)
      PROVE  Compensated(t)'
  <2>1. CASE t = s
      BY <2>1, <1>3, <1>0, <1>b, UntouchedSale DEF CommitSale, Compensated, Untouched, Committed, TypeOK
  <2>2. CASE t # s
      BY <2>2, <1>3, <1>b, OtherSales DEF CommitSale, RowUnchanged, TypeOK
  <2> QED
      BY <2>1, <2>2
<1>4. ASSUME NEW s \in Sales, AbortSale(s)
      PROVE  Compensated(t)'
  <2>1. CASE t = s
      BY <2>1, <1>4, <1>0, <1>b, UntouchedSale DEF AbortSale, Compensated, Untouched, Committed, TypeOK
  <2>2. CASE t # s
      BY <2>2, <1>4, <1>b, OtherSales DEF AbortSale, RowUnchanged, TypeOK
  <2> QED
      BY <2>1, <2>2
<1>5. ASSUME NEW s \in Sales, NEW k \in ReturnKeys, NEW q \in ReturnRequests, CreateSaleReturn(k, s, q)
      PROVE  Compensated(t)'
  <2>1. CASE t = s
      BY <2>1, <1>5, <1>0, ReturnStep
  <2>2. CASE t # s
      BY <2>2, <1>5, <1>b, OtherSales DEF CreateSaleReturn, RowUnchanged, TypeOK
  <2> QED
      BY <2>1, <2>2
<1>6. ASSUME NEW s \in Sales, NEW k \in RefundKeys, NEW m \in RefundMethods,
             NEW ret \in ReturnKeys \cup {None}, NEW amount \in 1 .. Net(s),
             CreateSaleRefund(k, s, m, amount, ret)
      PROVE  Compensated(t)'
  <2>1. CASE t = s
      BY <2>1, <1>6, <1>0, RefundStep
  <2>2. CASE t # s
      BY <2>2, <1>6, <1>b, OtherSales DEF CreateSaleRefund, RowUnchanged, TypeOK
  <2> QED
      BY <2>1, <2>2
<1>7. ASSUME NEW s \in Sales, NEW k \in CancelKeys, CancelSale(k, s)
      PROVE  Compensated(t)'
  <2>1. CASE t = s
      BY <2>1, <1>7, <1>0, CancelStep
  <2>2. CASE t # s
      BY <2>2, <1>7, <1>b, OtherSales DEF CancelSale, RowUnchanged, TypeOK
  <2> QED
      BY <2>1, <2>2
<1>8. ASSUME NEW s \in Sales, NEW l \in Lines, ReverseIssue(s, l)
      PROVE  Compensated(t)'
    BY <1>8, <1>b, OtherSales DEF ReverseIssue, RowUnchanged
<1>9. CASE UNCHANGED vars
    BY <1>9, <1>b, OtherSales DEF vars, RowUnchanged
<1> QED
    BY <1>1, <1>2, <1>3, <1>4, <1>5, <1>6, <1>7, <1>8, <1>9 DEF Next

(***************************************************************************)
(* They hold initially and in every reachable state.                       *)
(***************************************************************************)
LEMMA CompensationInit == Init => CompensationInv
<1> SUFFICES ASSUME Init
             PROVE  CompensationInv
    OBVIOUS
<1>1. TypeOK
    BY NothingType DEF Init, TypeOK, RefundMethods
<1>2. ASSUME NEW t \in Sales
      PROVE  Compensated(t)
  <2>1. Net(t) \in Nat
      BY <1>1, PaidType
  <2> QED
      BY <2>1 DEF Init, Compensated, Untouched, RefundTotal, Sold, NoCart, Nothing, RefundMethods
<1> QED
    BY <1>1, <1>2 DEF CompensationInv

LEMMA CompensationInvariant == Spec => []CompensationInv
<1>1. CompensationInv /\ [Next]_vars => CompensationInv'
    BY CompensationStep
<1> QED
    BY <1>1, CompensationInit, PTL DEF Spec

(***************************************************************************)
(* Refunds stay within the net total, returns within the sold quantities,  *)
(* and a cancelled sale is compensated exactly, for any number of sales,   *)
(* sessions, lines and keys and any amounts.                               *)
(***************************************************************************)
THEOREM CompensationCorrect ==
    Spec => [](RefundWithinNet /\ ReturnWithinSold /\ CancelledIsCompensated)
<1>1. CompensationInv => RefundWithinNet /\ ReturnWithinSold /\ CancelledIsCompensated
    BY DEF CompensationInv, Compensated, FullyCompensated, RefundWithinNet, ReturnWithinSold,
           CancelledIsCompensated
<1> QED
    BY <1>1, CompensationInvariant, PTL

-----------------------------------------------------------------------------
(* One key for each effect.                                                *)

OneKey(s) ==
    /\ status[s] = "cancelled" <=> \E k \in CancelKeys : cancelOf[k] = s
    /\ \A j, k \in CancelKeys : cancelOf[j] = s /\ cancelOf[k] = s => j = k
    /\ returned[s] # Nothing <=> \E k \in ReturnKeys : returnOf[k] = s

\* Adding a quantity that moves something leaves something.
LEMMA MovedIsSomething ==
    ASSUME NEW a \in Quantities, NEW q \in Quantities, Moved(q) # {}
    PROVE  [l \in Lines |-> a[l] + q[l]] # Nothing
<1>1. PICK l \in Lines : q[l] > 0
    BY DEF Moved
<1>2. a[l] \in Nat /\ q[l] \in Nat
    BY DEF Quantities
<1>3. [i \in Lines |-> a[i] + q[i]][l] # Nothing[l]
    BY <1>1, <1>2 DEF Nothing
<1> QED
    BY <1>3

LEMMA OneKeyStep ==
    ASSUME CompensationInv, EffectsHaveOneKey, [Next]_vars
    PROVE  EffectsHaveOneKey'
<1>a. SUFFICES ASSUME NEW t \in Sales
               PROVE  OneKey(t)'
    BY DEF EffectsHaveOneKey, OneKey
<1>b. OneKey(t) /\ TypeOK
    BY DEF EffectsHaveOneKey, OneKey, CompensationInv
<1>1. ASSUME UNCHANGED keys, returned' = returned,
             status'[t] = "cancelled" <=> status[t] = "cancelled"
      PROVE  OneKey(t)'
    BY <1>1, <1>b DEF OneKey, keys
<1>2. ASSUME NEW s \in Sales, NEW x \in Sessions, NEW c \in Carts, BeginSale(s, x, c)
      PROVE  OneKey(t)'
    BY <1>1, <1>2, <1>b DEF BeginSale, TypeOK
<1>3. ASSUME NEW s \in Sales, CommitSale(s) \/ AbortSale(s)
      PROVE  OneKey(t)'
    BY <1>1, <1>3, <1>b DEF CommitSale, AbortSale, TypeOK
<1>4. ASSUME NEW s \in Sales, NEW k \in ReturnKeys, NEW q \in ReturnRequests,
             CreateSaleReturn(k, s, q)
      PROVE  OneKey(t)'
  <2>1. /\ status' = status /\ cancelOf' = cancelOf /\ returnOf[k] = None
        /\ \A j \in ReturnKeys : returnOf'[j] = IF j = k THEN s ELSE returnOf[j]
        /\ returned'[s] = [l \in Lines |-> returned[s][l] + q[l]]
        /\ t # s => returned'[t] = returned[t]
      BY <1>4, <1>b DEF CreateSaleReturn, FirstUse, TypeOK
  <2>2. returned'[s] # Nothing
      BY <1>4, <1>b, <2>1, MovedIsSomething, RequestsAssumption DEF CreateSaleReturn, TypeOK
  <2>3. returned'[t] # Nothing <=> \E j \in ReturnKeys : returnOf'[j] = t
      BY <1>b, <2>1, <2>2, NoneAssumption DEF OneKey
  <2> QED
      BY <1>b, <2>1, <2>3 DEF OneKey
<1>5. ASSUME NEW s \in Sales, NEW k \in RefundKeys, NEW m \in RefundMethods,
             NEW ret \in ReturnKeys \cup {None}, NEW amount \in 1 .. Net(s),
             CreateSaleRefund(k, s, m, amount, ret)
      PROVE  OneKey(t)'
    BY <1>5, <1>b DEF CreateSaleRefund, OneKey
<1>6. ASSUME NEW s \in Sales, NEW k \in CancelKeys, CancelSale(k, s)
      PROVE  OneKey(t)'
  <2>1. /\ returned' = returned /\ returnOf' = returnOf /\ cancelOf[k] = None
        /\ \A j \in CancelKeys : cancelOf'[j] = IF j = k THEN s ELSE cancelOf[j]
        /\ status[s] = "confirmed" /\ status'[s] = "cancelled"
        /\ t # s => status'[t] = status[t]
      BY <1>6, <1>b DEF CancelSale, Cancellable, FirstUse, TypeOK
  <2>2. \A j \in CancelKeys : cancelOf[j] # s
      BY <2>1 DEF EffectsHaveOneKey
  <2> QED
      BY <1>b, <2>1, <2>2, NoneAssumption DEF OneKey
<1>7. ASSUME NEW x \in Sessions, OpenSession(x) \/ CloseSession(x)
      PROVE  OneKey(t)'
    BY <1>1, <1>7 DEF OpenSession, CloseSession
<1>8. ASSUME NEW s \in Sales, NEW l \in Lines, ReverseIssue(s, l)
      PROVE  OneKey(t)'
    BY <1>1, <1>8 DEF ReverseIssue
<1>9. CASE UNCHANGED vars
    BY <1>1, <1>9 DEF vars, keys
<1> QED
    BY <1>2, <1>3, <1>4, <1>5, <1>6, <1>7, <1>8, <1>9 DEF Next

(***************************************************************************)
(* Whichever requests compete for a sale, it is cancelled by exactly one   *)
(* of them, and goods count as returned exactly if a return was accepted   *)
(* (the key lookups of create_sale_return and cancel_sale).                *)
(***************************************************************************)
THEOREM OneKeyPerEffect == Spec => []EffectsHaveOneKey
<1>1. Init => EffectsHaveOneKey
    BY NoneAssumption DEF Init, EffectsHaveOneKey
<1>2. CompensationInv /\ EffectsHaveOneKey /\ [Next]_vars => EffectsHaveOneKey'
    BY OneKeyStep
<1> QED
    BY <1>1, <1>2, CompensationInvariant, PTL DEF Spec

-----------------------------------------------------------------------------
(* What a step may never do.                                               *)

(***************************************************************************)
(* Facts are compensated, never rewritten.  Refunds only grow because a    *)
(* cancellation is refused when a method has given back more than it took. *)
(***************************************************************************)
LEMMA FactsStep ==
    ASSUME TypeOK, [Next]_vars
    PROVE  AppendsFacts
<1> DEFINE Appends(t) ==
        Committed(t) =>
            /\ cart'[t] = cart[t] /\ origin'[t] = origin[t]
            /\ \A m \in RefundMethods : refunded'[t][m] >= refunded[t][m]
            /\ \A l \in Lines : returned'[t][l] >= returned[t][l]
            /\ status[t] = "cancelled" =>
                /\ status'[t] = "cancelled"
                /\ refunded'[t] = refunded[t]
                /\ returned'[t] = returned[t]
<1> SUFFICES ASSUME NEW t \in Sales, Committed(t)
             PROVE  Appends(t)
    BY DEF AppendsFacts, Committed
<1>0. /\ \A m \in RefundMethods : refunded[t][m] \in Nat
      /\ \A l \in Lines : returned[t][l] \in Nat
    BY DEF TypeOK, Methods, Quantities
<1>1. ASSUME RowUnchanged(t), origin'[t] = origin[t]
      PROVE  Appends(t)
    BY <1>0, <1>1 DEF RowUnchanged
<1>2. ASSUME NEW x \in Sessions, OpenSession(x) \/ CloseSession(x)
      PROVE  Appends(t)
    BY <1>1, <1>2 DEF OpenSession, CloseSession, RowUnchanged
<1>3. ASSUME NEW s \in Sales, NEW x \in Sessions, NEW c \in Carts, BeginSale(s, x, c)
      PROVE  Appends(t)
    BY <1>1, <1>3 DEF BeginSale, RowUnchanged, Committed, TypeOK
<1>4. ASSUME NEW s \in Sales, CommitSale(s) \/ AbortSale(s)
      PROVE  Appends(t)
    BY <1>1, <1>4 DEF CommitSale, AbortSale, RowUnchanged, Committed, TypeOK
<1>5. ASSUME NEW s \in Sales, NEW k \in ReturnKeys, NEW q \in ReturnRequests, CreateSaleReturn(k, s, q)
      PROVE  Appends(t)
  <2>1. CASE t = s
    <3>1. status[t] = "confirmed" /\ cart' = cart /\ origin' = origin /\ refunded' = refunded
        BY <1>5, <2>1 DEF CreateSaleReturn
    <3>2. \A l \in Lines : returned'[t][l] = returned[t][l] + q[l] /\ q[l] \in Nat
        BY <1>5, <2>1, RequestsAssumption DEF CreateSaleReturn, TypeOK, Quantities
    <3> QED
        BY <1>0, <3>1, <3>2
  <2>2. CASE t # s
      BY <1>1, <1>5, <2>2 DEF CreateSaleReturn, RowUnchanged, TypeOK
  <2> QED
      BY <2>1, <2>2
<1>6. ASSUME NEW s \in Sales, NEW k \in RefundKeys, NEW m \in RefundMethods,
             NEW ret \in ReturnKeys \cup {None}, NEW amount \in 1 .. Net(s),
             CreateSaleRefund(k, s, m, amount, ret)
      PROVE  Appends(t)
  <2>1. CASE t = s
    <3>1. status[t] = "confirmed" /\ cart' = cart /\ origin' = origin /\ returned' = returned
        BY <1>6, <2>1 DEF CreateSaleRefund
    <3>2. amount \in Nat
        BY <1>6, PaidType
    <3>3. refunded'[t] = [refunded[t] EXCEPT ![m] = @ + amount] /\ refunded[t] \in [RefundMethods -> Nat]
        BY <1>6, <2>1 DEF CreateSaleRefund, TypeOK
    <3>4. \A n \in RefundMethods : refunded'[t][n] >= refunded[t][n]
        BY <1>0, <3>2, <3>3
    <3> QED
        BY <1>0, <3>1, <3>4
  <2>2. CASE t # s
      BY <1>1, <1>6, <2>2 DEF CreateSaleRefund, RowUnchanged, TypeOK
  <2> QED
      BY <2>1, <2>2
<1>7. ASSUME NEW s \in Sales, NEW k \in CancelKeys, CancelSale(k, s)
      PROVE  Appends(t)
  <2>1. CASE t = s
    <3>1. status[t] = "confirmed" /\ cart' = cart /\ origin' = origin /\ returned' = returned
        BY <1>7, <2>1 DEF CancelSale, Cancellable
    <3>2. \A m \in RefundMethods : AutoRefunds(t, m) \in Nat
        BY <1>7, <2>1, LoopRefundsRemaining DEF CancelSale, Cancellable
    <3>3. \A m \in RefundMethods : refunded'[t][m] = refunded[t][m] + AutoRefunds(t, m)
        BY <1>7, <2>1 DEF CancelSale, TypeOK
    <3> QED
        BY <1>0, <3>1, <3>2, <3>3
  <2>2. CASE t # s
      BY <1>1, <1>7, <2>2 DEF CancelSale, RowUnchanged, TypeOK
  <2> QED
      BY <2>1, <2>2
<1>8. ASSUME NEW s \in Sales, NEW l \in Lines, ReverseIssue(s, l)
      PROVE  Appends(t)
    BY <1>1, <1>8 DEF ReverseIssue, RowUnchanged
<1>9. CASE UNCHANGED vars
    BY <1>1, <1>9 DEF vars, RowUnchanged
<1> QED
    BY <1>2, <1>3, <1>4, <1>5, <1>6, <1>7, <1>8, <1>9 DEF Next

(***************************************************************************)
(* No command ever rewrites a committed sale's facts.                      *)
(***************************************************************************)
THEOREM FactsAreCompensated == Spec => FactsOnlyGrow
<1>1. TypeOK /\ [Next]_vars => [AppendsFacts]_vars
    BY FactsStep
<1> QED
    BY <1>1, TypeCorrect, PTL DEF Spec, FactsOnlyGrow

-----------------------------------------------------------------------------
(* Stock follows the compensation.                                         *)

(***************************************************************************)
(* A receipt stored under a key belongs to a command that ran with it.  So *)
(* a command whose key no other command ran with finds none of its         *)
(* receipts stored, and everything it takes back moves.  A command that    *)
(* shares its key may find some of them and move less, never more.         *)
(***************************************************************************)
KeyTaken(k) ==
    \/ k \in ReturnKeys /\ returnOf[k] # None
    \/ k \in CancelKeys /\ cancelOf[k] # None

ReceiptsHaveOwners == \A b \in stockOps : KeyTaken(b.key)

StockInv ==
    /\ CompensationInv
    /\ ReceiptsHaveOwners
    /\ StockFollowsCompensation
    /\ \A s \in Sales, l \in Lines : <<s, l>> \in reversed => Committed(s)

LEMMA CommandMoves ==
    ASSUME TypeOK, NEW s \in Sales, NEW k \in ReturnKeys \cup CancelKeys, NEW q \in Quantities,
           Restock(s, k, q), ReceiptsHaveOwners
    PROVE  /\ \A t \in Sales \ {s} : restocked'[t] = restocked[t]
           /\ \A l \in Lines : /\ restocked'[s][l] <= restocked[s][l] + q[l]
                               /\ ~KeyTaken(k) => restocked'[s][l] = restocked[s][l] + q[l]
<1>1. restocked'[s] = [l \in Lines |-> restocked[s][l] + Fresh(k, q)[l]]
          /\ \A t \in Sales \ {s} : restocked'[t] = restocked[t]
    BY DEF Restock, TypeOK
<1>2. ASSUME NEW l \in Lines
      PROVE  Fresh(k, q)[l] <= q[l] /\ (~KeyTaken(k) => Fresh(k, q)[l] = q[l])
  <2>1. q[l] \in Nat /\ (l \notin Moved(q) => q[l] = 0)
      BY DEF Moved, Quantities
  <2>2. ~KeyTaken(k) => ~\E b \in stockOps : SameKey(Receipt(k, q, l), b)
      BY DEF SameKey, Receipt, ReceiptsHaveOwners
  <2> QED
      BY <2>1, <2>2 DEF Fresh
<1>3. \A l \in Lines : restocked[s][l] \in Nat /\ q[l] \in Nat
    BY DEF TypeOK, Quantities
<1>4. Fresh(k, q) \in Quantities
    BY FreshType
<1> HIDE DEF KeyTaken
<1> QED
    BY <1>1, <1>2, <1>3, <1>4 DEF Quantities

LEMMA OwnersOfReceipts ==
    ASSUME NEW s, NEW k \in ReturnKeys \cup CancelKeys, NEW q,
           Restock(s, k, q), ReceiptsHaveOwners, KeyTaken(k)',
           \A j \in ReturnKeys \cup CancelKeys : KeyTaken(j) => KeyTaken(j)'
    PROVE  ReceiptsHaveOwners'
<1>1. \A b \in Receipts(k, q) : b.key = k
  <2>1. \A l : Receipt(k, q, l).key = k
      BY DEF Receipt
  <2> QED
      BY <2>1 DEF Receipts
<1>2. stockOps' = stockOps \cup Receipts(k, q)
    BY DEF Restock
<1>3. \A b \in stockOps : KeyTaken(b.key)'
  <2> SUFFICES ASSUME NEW b \in stockOps
               PROVE  KeyTaken(b.key)'
      OBVIOUS
  <2>1. KeyTaken(b.key) /\ b.key \in ReturnKeys \cup CancelKeys
      BY DEF ReceiptsHaveOwners, KeyTaken
  <2> QED
      BY <2>1
<1> QED
    BY <1>1, <1>2, <1>3 DEF ReceiptsHaveOwners

LEMMA KeysStayShared ==
    ASSUME NEW t \in Sales,
           \A k \in ReturnKeys : returnOf[k] # None => returnOf'[k] = returnOf[k],
           \A k \in CancelKeys : cancelOf[k] # None => cancelOf'[k] = cancelOf[k],
           SharesKey(t)
    PROVE  SharesKey(t)'
<1>1. ASSUME NEW k, UsedTwice(k)
      PROVE  UsedTwice(k)' /\ returnOf'[k] = returnOf[k] /\ cancelOf'[k] = cancelOf[k]
    BY <1>1 DEF UsedTwice
<1> QED
    BY <1>1 DEF SharesKey

LEMMA StockStep ==
    ASSUME StockInv, [Next]_vars
    PROVE  StockInv'
<1>0. CompensationInv' /\ TypeOK /\ TypeOK' /\ CompensationInv
    BY CompensationStep DEF StockInv, CompensationInv
<1> DEFINE Balanced(t, l) ==
               /\ restocked[t][l] <= Owed(t, l)
               /\ ~SharesKey(t) => restocked[t][l] = Owed(t, l)
           StockRest == ReceiptsHaveOwners /\ (\A t \in Sales, l \in Tracked : Balanced(t, l))
                            /\ \A t \in Sales, l \in Lines : <<t, l>> \in reversed => Committed(t)
<1>s. StockRest
    BY DEF StockInv, StockFollowsCompensation
<1>q. SUFFICES StockRest'
    BY <1>0 DEF StockInv, StockFollowsCompensation
<1>t. /\ Tracked \subseteq Lines
      /\ \A t \in Sales, l \in Lines : restocked[t][l] \in Nat /\ returned[t][l] \in Nat /\ Sold(t)[l] \in Nat
      /\ \A t \in Sales, l \in Lines : Sold(t)'[l] \in Nat /\ restocked'[t][l] \in Nat
    BY <1>0, LinesAssumption DEF TypeOK, Quantities, Sold
<1>1. ASSUME UNCHANGED <<status, cart, restocked, returned, reversed, returnOf, cancelOf, stockOps>>
      PROVE  StockRest'
    BY <1>1, <1>s DEF ReceiptsHaveOwners, KeyTaken, Sold, Committed, Owed, SharesKey, UsedTwice
<1>2. ASSUME NEW s \in Sales, UNCHANGED <<restocked, returned, reversed, keys, stockOps>>,
             ~Committed(s), status'[s] # "cancelled",
             \A t \in Sales \ {s} : status'[t] = status[t] /\ cart'[t] = cart[t]
      PROVE  StockRest'
  <2>1. ReceiptsHaveOwners' /\ \A t \in Sales : SharesKey(t)' = SharesKey(t)
      BY <1>2, <1>s DEF keys, ReceiptsHaveOwners, KeyTaken, SharesKey, UsedTwice
  <2>2. ASSUME NEW t \in Sales, NEW l \in Lines
        PROVE  Owed(t, l)' = Owed(t, l) /\ (<<t, l>> \in reversed' => Committed(t)')
    <3>1. CASE t = s
        BY <1>2, <1>s, <3>1 DEF Committed, Owed
    <3>2. CASE t # s
        BY <1>2, <1>s, <3>2 DEF Committed, Owed, Sold
    <3> QED
        BY <3>1, <3>2
  <2>3. \A t \in Sales, l \in Tracked : Balanced(t, l)'
      BY <1>2, <1>s, <1>t, <2>1, <2>2
  <2> QED
      BY <2>1, <2>2, <2>3
<1>3. ASSUME NEW s \in Sales, NEW x \in Sessions, NEW c \in Carts, BeginSale(s, x, c)
      PROVE  StockRest'
    BY <1>3, <1>2, <1>0 DEF BeginSale, Committed, TypeOK
<1>4. ASSUME NEW s \in Sales, CommitSale(s) \/ AbortSale(s)
      PROVE  StockRest'
  <2>1. ~Committed(s) /\ status'[s] # "cancelled"
            /\ \A t \in Sales \ {s} : status'[t] = status[t] /\ cart'[t] = cart[t]
      BY <1>4, <1>0 DEF CommitSale, AbortSale, Committed, TypeOK
  <2>2. UNCHANGED <<restocked, returned, reversed, keys, stockOps>>
      BY <1>4 DEF CommitSale, AbortSale
  <2> QED
      BY <2>1, <2>2, <1>2
<1>5. ASSUME NEW s \in Sales, NEW k \in ReturnKeys, NEW q \in ReturnRequests, CreateSaleReturn(k, s, q)
      PROVE  StockRest'
  <2>1. q \in Quantities /\ Restock(s, k, q) /\ returnOf[k] = None
      BY <1>5, RequestsAssumption DEF CreateSaleReturn, FirstUse
  <2>2. /\ returnOf' = [returnOf EXCEPT ![k] = s] /\ cancelOf' = cancelOf
        /\ status' = status /\ cart' = cart /\ reversed' = reversed /\ status[s] = "confirmed"
        /\ returned' = [returned EXCEPT ![s] = [l \in Lines |-> @[l] + q[l]]]
      BY <1>5 DEF CreateSaleReturn
  <2>3. /\ \A j \in ReturnKeys : returnOf[j] # None => returnOf'[j] = returnOf[j]
        /\ \A j \in CancelKeys : cancelOf[j] # None => cancelOf'[j] = cancelOf[j]
        /\ returnOf'[k] = s /\ s # None
      BY <1>0, <2>1, <2>2, NoneAssumption DEF TypeOK
  <2>4. ReceiptsHaveOwners'
    <3>1. KeyTaken(k)' /\ \A j \in ReturnKeys \cup CancelKeys : KeyTaken(j) => KeyTaken(j)'
        BY <2>3 DEF KeyTaken
    <3> QED
        BY <2>1, <3>1, <1>s, OwnersOfReceipts
  <2>5. ~SharesKey(s)' => ~KeyTaken(k)
      BY <2>1, <2>2, <2>3 DEF KeyTaken, SharesKey, UsedTwice
  <2>6. /\ \A t \in Sales \ {s} : restocked'[t] = restocked[t]
        /\ \A l \in Lines : /\ restocked'[s][l] <= restocked[s][l] + q[l]
                            /\ ~KeyTaken(k) => restocked'[s][l] = restocked[s][l] + q[l]
      BY <1>0, <1>s, <2>1, CommandMoves
  <2>7. ASSUME NEW t \in Sales, NEW l \in Tracked
        PROVE  Balanced(t, l)'
    <3>1. SharesKey(t) => SharesKey(t)'
        BY <2>3, KeysStayShared
    <3>2. CASE t = s
      <4>1. Owed(t, l)' = Owed(t, l) + q[l] /\ q[l] \in Nat /\ Owed(t, l) \in Nat
          BY <1>0, <1>t, <2>1, <2>2, <3>2 DEF Owed, Sold, TypeOK, Quantities
      <4>2. restocked'[s][l] <= restocked[s][l] + q[l]
                /\ (~KeyTaken(k) => restocked'[s][l] = restocked[s][l] + q[l])
          BY <1>t, <2>6
      <4>3. restocked[t][l] \in Nat /\ restocked'[t][l] \in Nat /\ Balanced(t, l)
          BY <1>s, <1>t
      <4> HIDE DEF KeyTaken, SharesKey, Owed
      <4> QED
          BY <2>5, <3>1, <3>2, <4>1, <4>2, <4>3
    <3>3. CASE t # s
      <4>1. Owed(t, l)' = Owed(t, l)
          BY <1>0, <2>2, <3>3 DEF Owed, Sold, TypeOK
      <4> QED
          BY <1>s, <2>6, <3>1, <3>3, <4>1
    <3> QED
        BY <3>2, <3>3
  <2> QED
      BY <1>s, <2>2, <2>4, <2>7 DEF Committed
<1>6. ASSUME NEW s \in Sales, NEW k \in RefundKeys, NEW m \in RefundMethods,
             NEW ret \in ReturnKeys \cup {None}, NEW amount \in 1 .. Net(s),
             CreateSaleRefund(k, s, m, amount, ret)
      PROVE  StockRest'
    BY <1>1, <1>6 DEF CreateSaleRefund
<1>7. ASSUME NEW s \in Sales, NEW k \in CancelKeys, CancelSale(k, s)
      PROVE  StockRest'
  <2> DEFINE q == IssuedTracked(s)
  <2>1. q \in Quantities /\ Restock(s, k, q) /\ cancelOf[k] = None
      BY <1>7, <1>0, SoldType DEF CancelSale, FirstUse
  <2>2. /\ cancelOf' = [cancelOf EXCEPT ![k] = s] /\ returnOf' = returnOf
        /\ status' = [status EXCEPT ![s] = "cancelled"] /\ cart' = cart /\ reversed' = reversed
        /\ returned' = returned /\ status[s] = "confirmed" /\ returned[s] = Nothing
      BY <1>7 DEF CancelSale, Cancellable
  <2>3. /\ \A j \in ReturnKeys : returnOf[j] # None => returnOf'[j] = returnOf[j]
        /\ \A j \in CancelKeys : cancelOf[j] # None => cancelOf'[j] = cancelOf[j]
        /\ cancelOf'[k] = s /\ s # None
      BY <1>0, <2>1, <2>2, NoneAssumption DEF TypeOK
  <2>4. ReceiptsHaveOwners'
    <3>1. KeyTaken(k)' /\ \A j \in ReturnKeys \cup CancelKeys : KeyTaken(j) => KeyTaken(j)'
        BY <2>3 DEF KeyTaken
    <3> HIDE DEF q
    <3> QED
        BY <2>1, <3>1, <1>s, OwnersOfReceipts
  <2>5. ~SharesKey(s)' => ~KeyTaken(k)
      BY <2>1, <2>2, <2>3 DEF KeyTaken, SharesKey, UsedTwice
  <2>6. /\ \A t \in Sales \ {s} : restocked'[t] = restocked[t]
        /\ \A l \in Lines : /\ restocked'[s][l] <= restocked[s][l] + q[l]
                            /\ ~KeyTaken(k) => restocked'[s][l] = restocked[s][l] + q[l]
    <3> HIDE DEF q
    <3> QED
        BY <1>0, <1>s, <2>1, CommandMoves
  <2>7. ASSUME NEW t \in Sales, NEW l \in Tracked
        PROVE  Balanced(t, l)'
    <3>1. SharesKey(t) => SharesKey(t)'
        BY <2>3, KeysStayShared
    <3>2. CASE t = s
      <4>0. q[l] = Sold(s)[l] /\ q[l] \in Nat /\ status'[s] = "cancelled" /\ returned[s][l] = 0
          BY <1>0, <1>t, <2>2 DEF IssuedTracked, TypeOK, Nothing
      <4>1. Owed(t, l)' = Owed(t, l) + q[l] /\ Owed(t, l) \in Nat
          BY <1>t, <2>2, <3>2, <4>0 DEF Owed, Sold
      <4>2. restocked'[s][l] <= restocked[s][l] + q[l]
                /\ (~KeyTaken(k) => restocked'[s][l] = restocked[s][l] + q[l])
          BY <1>t, <2>6
      <4>3. restocked[t][l] \in Nat /\ restocked'[t][l] \in Nat /\ Balanced(t, l)
          BY <1>s, <1>t
      <4> HIDE DEF KeyTaken, SharesKey, Owed, q
      <4> QED
          BY <2>5, <3>1, <3>2, <4>0, <4>1, <4>2, <4>3
    <3>3. CASE t # s
      <4>1. Owed(t, l)' = Owed(t, l)
          BY <1>0, <2>2, <3>3 DEF Owed, Sold, TypeOK
      <4> QED
          BY <1>s, <2>6, <3>1, <3>3, <4>1
    <3> QED
        BY <3>2, <3>3
  <2>8. \A t \in Sales : Committed(t) => Committed(t)'
      BY <1>0, <2>2 DEF Committed, TypeOK
  <2> QED
      BY <1>s, <2>2, <2>4, <2>7, <2>8
<1>8. ASSUME NEW s \in Sales, NEW i \in Lines, ReverseIssue(s, i)
      PROVE  StockRest'
  <2>1. ReceiptsHaveOwners' /\ \A t \in Sales : SharesKey(t)' = SharesKey(t)
      BY <1>8, <1>s DEF ReverseIssue, keys, ReceiptsHaveOwners, KeyTaken, SharesKey, UsedTwice
  <2>2. status' = status /\ cart' = cart /\ returned' = returned /\ reversed' = reversed \cup {<<s, i>>}
            /\ <<s, i>> \notin reversed /\ Committed(s)
      BY <1>8 DEF ReverseIssue, Committed
  <2>3. ASSUME NEW t \in Sales, NEW l \in Tracked
        PROVE  Balanced(t, l)'
    <3>1. CASE t = s /\ l = i
      <4>1. restocked'[t][l] = restocked[t][l] + Sold(t)[l]
          BY <1>8, <1>0, <1>t, <3>1 DEF ReverseIssue, TypeOK, Quantities
      <4>2. Owed(t, l)' = Owed(t, l) + Sold(t)[l] /\ Owed(t, l) \in Nat /\ Sold(t)[l] \in Nat
          BY <1>t, <2>2, <3>1 DEF Owed, Sold
      <4>3. restocked[t][l] \in Nat /\ Balanced(t, l) /\ SharesKey(t)' = SharesKey(t)
          BY <1>s, <1>t, <2>1
      <4> HIDE DEF SharesKey, Owed
      <4> QED
          BY <4>1, <4>2, <4>3
    <3>2. CASE ~(t = s /\ l = i)
      <4>1. restocked'[t][l] = restocked[t][l]
          BY <1>8, <1>0, <1>t, <3>2 DEF ReverseIssue, TypeOK, Quantities
      <4>2. <<t, l>> \in reversed' <=> <<t, l>> \in reversed
          BY <2>2, <3>2
      <4>3. Owed(t, l)' = Owed(t, l)
          BY <2>2, <4>2 DEF Owed, Sold
      <4> QED
          BY <1>s, <2>1, <4>1, <4>3
    <3> QED
        BY <3>1, <3>2
  <2>4. ASSUME NEW t \in Sales, NEW l \in Lines, <<t, l>> \in reversed'
        PROVE  Committed(t)'
      BY <1>s, <2>2, <2>4 DEF Committed
  <2> QED
      BY <2>1, <2>3, <2>4
<1>9. ASSUME NEW x \in Sessions, OpenSession(x) \/ CloseSession(x)
      PROVE  StockRest'
    BY <1>1, <1>9 DEF OpenSession, CloseSession, keys
<1>10. CASE UNCHANGED vars
    BY <1>1, <1>10 DEF vars, keys
<1> QED
    BY <1>3, <1>4, <1>5, <1>6, <1>7, <1>8, <1>9, <1>10 DEF Next

(***************************************************************************)
(* Stock never takes back more of a product than a sale's compensation     *)
(* owes it, whatever keys the clients use; and it takes back exactly that  *)
(* unless a client used one key for a return and for a cancellation.       *)
(***************************************************************************)
THEOREM StockCorrect == Spec => []StockFollowsCompensation
<1>1. Init => StockInv
  <2> SUFFICES ASSUME Init
               PROVE  StockInv
      OBVIOUS
  <2>1. CompensationInv
      BY CompensationInit
  <2>2. ReceiptsHaveOwners /\ \A s \in Sales, l \in Lines : <<s, l>> \in reversed => Committed(s)
      BY DEF Init, ReceiptsHaveOwners
  <2>3. StockFollowsCompensation
    <3>1. \A s \in Sales, l \in Tracked : restocked[s][l] = 0 /\ Owed(s, l) = 0
        BY LinesAssumption DEF Init, Owed, Nothing
    <3> QED
        BY <3>1 DEF StockFollowsCompensation
  <2> QED
      BY <2>1, <2>2, <2>3 DEF StockInv
<1>2. StockInv /\ [Next]_vars => StockInv'
    BY StockStep
<1>3. StockInv => StockFollowsCompensation
    BY DEF StockInv
<1> QED
    BY <1>1, <1>2, <1>3, PTL DEF Spec

-----------------------------------------------------------------------------
(* The services implement the contract.                                    *)

(***************************************************************************)
(* A step that leaves the committed sales' rows alone is a stutter of the  *)
(* contract.                                                               *)
(***************************************************************************)
LEMMA SilentStep ==
    ASSUME refunded' = refunded, returned' = returned,
           \A t \in Sales : \/ status'[t] = status[t] /\ cart'[t] = cart[t]
                            \/ ~Committed(t) /\ ~Committed(t)'
    PROVE  UNCHANGED Contract!contractVars
<1>1. UNCHANGED <<contractState, contractTotal, contractGoods>>
    BY DEF contractState, contractTotal, contractGoods, Committed, Net, Paid, Sold
<1>2. UNCHANGED <<contractPaidBack, contractTakenBack>>
    BY DEF contractPaidBack, contractTakenBack, Committed, RefundTotal, Sold
<1> QED
    BY <1>1, <1>2 DEF Contract!contractVars

(***************************************************************************)
(* Every step is a step or a stutter of the contract.                      *)
(***************************************************************************)
LEMMA ContractStep ==
    ASSUME CompensationInv, [Next]_vars
    PROVE  [Contract!Next]_(Contract!contractVars)
<1>0. TypeOK /\ TypeOK' /\ CompensationInv' /\ CompensationInv
    BY CompensationStep DEF CompensationInv
<1>t. \A t \in Sales : /\ Net(t) \in Nat /\ Net(t)' \in Nat
                       /\ \A l \in Lines : Sold(t)[l] \in Nat /\ Sold(t)'[l] \in Nat
  <2>1. \A t \in Sales : Net(t) \in Nat
      BY <1>0, PaidType
  <2>2. \A t \in Sales : Net(t)' \in Nat
      BY <1>0, PaidType
  <2>3. \A t \in Sales, l \in Lines : Sold(t)[l] \in Nat /\ Sold(t)'[l] \in Nat
      BY <1>0 DEF TypeOK, Sold, Quantities
  <2> QED
      BY <2>1, <2>2, <2>3
<1>1. ASSUME NEW x \in Sessions, OpenSession(x) \/ CloseSession(x)
      PROVE  UNCHANGED Contract!contractVars
    BY <1>1, SilentStep DEF OpenSession, CloseSession
<1>2. ASSUME NEW s \in Sales, NEW x \in Sessions, NEW c \in Carts, BeginSale(s, x, c)
      PROVE  UNCHANGED Contract!contractVars
    BY <1>0, <1>2, SilentStep DEF BeginSale, Committed, TypeOK
<1>3. ASSUME NEW s \in Sales, AbortSale(s)
      PROVE  UNCHANGED Contract!contractVars
    BY <1>0, <1>3, SilentStep DEF AbortSale, Committed, TypeOK
<1>4. ASSUME NEW s \in Sales, CommitSale(s)
      PROVE  Contract!Confirm(s)
  <2>1. status[s] = "pricing" /\ status' = [status EXCEPT ![s] = "confirmed"] /\ cart' = cart
            /\ refunded' = refunded /\ returned' = returned
      BY <1>4 DEF CommitSale
  <2>2. contractState[s] = "none" /\ contractState' = [contractState EXCEPT ![s] = "confirmed"]
      BY <1>0, <2>1 DEF contractState, Committed, TypeOK
  <2>3. contractTotal' = [contractTotal EXCEPT ![s] = contractTotal'[s]] /\ contractTotal'[s] \in Nat
      BY <1>0, <1>t, <2>1 DEF contractTotal, Committed, TypeOK, Net, Paid, RefundTotal
  <2>4. contractGoods' = [contractGoods EXCEPT ![s] = contractGoods'[s]]
            /\ \A l \in Lines : contractGoods'[s][l] \in Nat
      BY <1>0, <1>t, <2>1 DEF contractGoods, Committed, TypeOK, Sold
  <2>5. UNCHANGED <<contractPaidBack, contractTakenBack>>
      BY <1>0, <2>1 DEF contractPaidBack, contractTakenBack, RefundTotal, Sold, TypeOK
  <2> QED
      BY <2>2, <2>3, <2>4, <2>5 DEF Contract!Confirm
<1>5. ASSUME NEW s \in Sales, NEW k \in ReturnKeys, NEW q \in ReturnRequests, CreateSaleReturn(k, s, q)
      PROVE  Contract!TakeBack(s)
  <2>1. status[s] = "confirmed" /\ status' = status /\ cart' = cart /\ refunded' = refunded
            /\ returned' = [returned EXCEPT ![s] = [l \in Lines |-> @[l] + q[l]]]
      BY <1>5 DEF CreateSaleReturn
  <2>2. UNCHANGED <<contractState, contractTotal, contractGoods, contractPaidBack>>
      BY <2>1 DEF contractState, contractTotal, contractGoods, contractPaidBack, Committed, Net, Paid,
             RefundTotal, Sold
  <2>3. contractTakenBack' = [contractTakenBack EXCEPT ![s] = contractTakenBack'[s]]
      BY <1>0, <2>1 DEF contractTakenBack, TypeOK, Sold
  <2>4. contractState[s] = "confirmed" /\ contractTakenBack[s] = returned[s]
            /\ contractTakenBack'[s] = returned'[s] /\ contractGoods[s] = Sold(s)
      BY <2>1 DEF contractState, contractTakenBack, contractGoods, Committed
  <2>5. \A l \in Lines : returned[s][l] <= returned'[s][l] /\ returned'[s][l] <= Sold(s)[l]
    <3>1. Compensated(s)' /\ Sold(s)' = Sold(s)
        BY <1>0, <2>1 DEF CompensationInv, Sold
    <3>2. \A l \in Lines : returned'[s][l] = returned[s][l] + q[l] /\ q[l] \in Nat /\ returned[s][l] \in Nat
        BY <1>0, <2>1, RequestsAssumption DEF TypeOK, Quantities
    <3> QED
        BY <3>1, <3>2 DEF Compensated
  <2> QED
      BY <2>2, <2>3, <2>4, <2>5 DEF Contract!TakeBack
<1>6. ASSUME NEW s \in Sales, NEW k \in RefundKeys, NEW m \in RefundMethods,
             NEW ret \in ReturnKeys \cup {None}, NEW amount \in 1 .. Net(s),
             CreateSaleRefund(k, s, m, amount, ret)
      PROVE  Contract!PayBack(s)
  <2>1. status[s] = "confirmed" /\ status' = status /\ cart' = cart /\ returned' = returned
            /\ refunded' = [refunded EXCEPT ![s][m] = @ + amount]
      BY <1>6 DEF CreateSaleRefund
  <2>2. UNCHANGED <<contractState, contractTotal, contractGoods, contractTakenBack>>
      BY <2>1 DEF contractState, contractTotal, contractGoods, contractTakenBack, Committed, Net, Paid,
             RefundTotal, Sold
  <2>3. contractPaidBack' = [contractPaidBack EXCEPT ![s] = contractPaidBack'[s]]
    <3>1. \A t \in Sales \ {s} : refunded'[t] = refunded[t]
        BY <1>0, <2>1 DEF TypeOK
    <3>2. \A t \in Sales \ {s} : contractPaidBack'[t] = contractPaidBack[t]
        BY <3>1 DEF contractPaidBack, RefundTotal
    <3> QED
        BY <3>2 DEF contractPaidBack
  <2>4. contractState[s] = "confirmed" /\ contractTotal[s] = Net(s)
            /\ contractPaidBack[s] = RefundTotal(refunded[s]) /\ contractPaidBack'[s] = RefundTotal(refunded[s])'
      BY <2>1 DEF contractState, contractTotal, contractPaidBack, Committed
  <2>5. RefundTotal(refunded[s])' > RefundTotal(refunded[s]) /\ RefundTotal(refunded[s])' <= Net(s)
    <3>1. Compensated(s)' /\ Net(s)' = Net(s) /\ amount \in Nat /\ amount > 0
        BY <1>0, <1>6, <1>t, <2>1 DEF CompensationInv, Net, Paid, RefundTotal
    <3>2. refunded'[s] = [refunded[s] EXCEPT ![m] = @ + amount] /\ refunded[s] \in [RefundMethods -> Nat]
        BY <1>0, <2>1 DEF TypeOK
    <3>3. RefundTotal(refunded[s])' = RefundTotal(refunded[s]) + amount
        BY <3>1, <3>2, RefundTotalAdds DEF RefundTotal
    <3>4. RefundTotal(refunded[s]) \in Nat
        BY <3>2 DEF RefundTotal, RefundMethods
    <3> QED
        BY <3>1, <3>3, <3>4 DEF Compensated
  <2> QED
      BY <2>2, <2>3, <2>4, <2>5 DEF Contract!PayBack
<1>7. ASSUME NEW s \in Sales, NEW k \in CancelKeys, CancelSale(k, s)
      PROVE  Contract!Cancel(s)
  <2>1. status[s] = "confirmed" /\ status' = [status EXCEPT ![s] = "cancelled"] /\ cart' = cart
            /\ returned' = returned /\ returned[s] = Nothing
      BY <1>7 DEF CancelSale, Cancellable
  <2>2. UNCHANGED <<contractTotal, contractGoods>>
      BY <1>0, <2>1 DEF contractTotal, contractGoods, Committed, Net, Paid, RefundTotal, Sold, TypeOK
  <2>3. contractState[s] = "confirmed" /\ contractState' = [contractState EXCEPT ![s] = "cancelled"]
      BY <1>0, <2>1 DEF contractState, Committed, TypeOK
  <2>4. contractPaidBack' = [contractPaidBack EXCEPT ![s] = contractTotal[s]]
    <3>1. Compensated(s)' /\ status'[s] = "cancelled" /\ Net(s)' = Net(s) /\ contractTotal[s] = Net(s)
        BY <1>0, <2>1 DEF CompensationInv, TypeOK, Net, Paid, RefundTotal, contractTotal, Committed
    <3>2. RefundTotal(refunded[s])' = Net(s)
        BY <3>1 DEF Compensated, FullyCompensated
    <3>3. \A t \in Sales \ {s} : refunded'[t] = refunded[t]
        BY <1>0, <1>7 DEF CancelSale, TypeOK
    <3> QED
        BY <3>1, <3>2, <3>3 DEF contractPaidBack, RefundTotal
  <2>5. contractTakenBack[s] = Contract!NoGoods
            /\ contractTakenBack' = [contractTakenBack EXCEPT ![s] = contractGoods[s]]
      BY <1>0, <2>1 DEF contractTakenBack, contractGoods, Contract!NoGoods, Nothing, Committed, Sold, TypeOK
  <2> QED
      BY <2>2, <2>3, <2>4, <2>5 DEF Contract!Cancel
<1>8. ASSUME NEW s \in Sales, NEW l \in Lines, ReverseIssue(s, l)
      PROVE  UNCHANGED Contract!contractVars
    BY <1>8, SilentStep DEF ReverseIssue
<1>9. CASE UNCHANGED vars
    BY <1>9, SilentStep DEF vars
<1> QED
    BY <1>1, <1>2, <1>3, <1>4, <1>5, <1>6, <1>7, <1>8, <1>9 DEF Next, Contract!Next

(***************************************************************************)
(* Spec implements CompensationContract: the services promise what the     *)
(* contract says, whatever sales, amounts, keys and sessions there are.    *)
(***************************************************************************)
THEOREM ImplementsContract == Spec => HonoursContract
<1>1. Init => Contract!Init
    BY DEF Init, Contract!Init, Contract!NoGoods, contractState, contractTotal, contractGoods,
           contractPaidBack, contractTakenBack, Committed, RefundTotal, RefundMethods, Nothing
<1>2. CompensationInv /\ [Next]_vars => [Contract!Next]_(Contract!contractVars)
    BY ContractStep
<1> QED
    BY <1>1, <1>2, CompensationInvariant, PTL DEF Spec, HonoursContract, Contract!Spec
=============================================================================
