---------------------------- MODULE CashDrawerProofs ----------------------------
(***************************************************************************)
(* Proofs about CashDrawer, for any number of requests that overlap.       *)
(***************************************************************************)
EXTENDS CashDrawer, Sums

LEMMA NetType == \A s \in Sales : Net(s) \in Nat /\ Cash[s] \in Nat
BY SalesAssumption DEF Net

LEMMA AdjustmentType ==
    ASSUME TypeOK, NEW c \in Closers, NEW declared \in Declared
    PROVE  Adjustment(c, declared) \subseteq [by : Closers, amount : Nat]
<1>1. AbsDiff(figure[c], declared) \in Nat
    BY AmountsAssumption DEF TypeOK, AbsDiff
<1> QED
    BY <1>1 DEF Adjustment

-----------------------------------------------------------------------------
(* Types, and what a lock on the row is worth: the session that a refund   *)
(* or a cancellation found open under its lock stays open until it pays,   *)
(* because a closing waits for the lock.  A cancellation that holds it has *)
(* cash left to pay back or none, never a negative amount, because the     *)
(* sale's own row is held too and no refund of the sale comes in between.  *)

HeldOpen(s) ==
    /\ payout[s] # "none" => drawer.status = "open" /\ sale[s] = "confirmed"
    /\ payout[s] = "cancellation" => paidOut[s] <= Cash[s]
    /\ \A t \in Sales : payout[s] # "none" /\ payout[t] # "none" => s = t

LockInv == TypeOK /\ \A s \in Sales : HeldOpen(s)

LEMMA PayOutType ==
    ASSUME TypeOK, NEW s \in Sales, NEW amount \in Nat, PayOut(s, amount)
    PROVE  /\ drawer' \in Drawer
           /\ payout' = [payout EXCEPT ![s] = "none"]
           /\ paidOut' = [paidOut EXCEPT ![s] = @ + amount]
           /\ drawer'.status = drawer.status
<1>1. seen[s] - amount \in Int /\ drawer \in Drawer
    BY DEF TypeOK
<1> QED
    BY <1>1 DEF PayOut, Drawer

(***************************************************************************)
(* Every step keeps the types and what the locks hold.                     *)
(***************************************************************************)
LEMMA LockStep ==
    ASSUME LockInv, [Next]_vars
    PROVE  LockInv'
<1>0. TypeOK /\ \A s \in Sales : HeldOpen(s)
    BY DEF LockInv
<1>q. ASSUME UNCHANGED <<payout, paidOut>>, drawer'.status = drawer.status,
             \A t \in Sales : payout[t] # "none" => sale'[t] = sale[t]
      PROVE  \A s \in Sales : HeldOpen(s)'
    BY <1>0, <1>q DEF HeldOpen
<1>r. ASSUME NEW s \in Sales, payout' = [payout EXCEPT ![s] = "none"],
             drawer'.status = drawer.status,
             \A t \in Sales \ {s} : paidOut'[t] = paidOut[t] /\ sale'[t] = sale[t]
      PROVE  \A t \in Sales : HeldOpen(t)'
  <2>1. payout'[s] = "none" /\ \A t \in Sales \ {s} : payout'[t] = payout[t]
      BY <1>0, <1>r DEF TypeOK
  <2> QED
      BY <1>0, <1>r, <2>1 DEF HeldOpen
<1>1. ASSUME NEW s \in Sales, ReadDrawer(s) \/ InsertSale(s) \/ AbortSale(s)
      PROVE  LockInv'
  <2>1. TypeOK'
      BY <1>0, <1>1 DEF ReadDrawer, InsertSale, AbortSale, TypeOK, Drawer
  <2>2. UNCHANGED <<payout, paidOut>> /\ drawer'.status = drawer.status
      BY <1>1 DEF ReadDrawer, InsertSale, AbortSale
  <2>3. sale[s] # "confirmed" /\ \A t \in Sales \ {s} : sale'[t] = sale[t]
      BY <1>0, <1>1 DEF ReadDrawer, InsertSale, AbortSale, TypeOK
  <2>4. \A t \in Sales : payout[t] # "none" => sale'[t] = sale[t]
      BY <1>0, <2>3 DEF HeldOpen
  <2> QED
      BY <1>q, <2>1, <2>2, <2>4 DEF LockInv
<1>2. ASSUME NEW s \in Sales, CommitSale(s)
      PROVE  LockInv'
  <2>1. Net(s) \in Nat
      BY NetType
  <2>2. seen[s] + Net(s) \in Int /\ ledger.paidIn + Net(s) \in Nat /\ ledger.confirmed + Net(s) \in Int
      BY <1>0, <2>1 DEF TypeOK
  <2>3. drawer' \in Drawer /\ drawer'.status = drawer.status
      BY <1>0, <1>2, <2>2 DEF CommitSale, TypeOK, Drawer
  <2>4. ledger' \in [paidIn : Nat, out : Nat, confirmed : Int]
      BY <1>0, <1>2, <2>2 DEF CommitSale, TypeOK
  <2>5. TypeOK'
      BY <1>0, <1>2, <2>3, <2>4 DEF CommitSale, TypeOK
  <2>6. sale[s] # "confirmed" /\ \A t \in Sales \ {s} : sale'[t] = sale[t]
      BY <1>0, <1>2 DEF CommitSale, TypeOK
  <2>7. \A t \in Sales : payout[t] # "none" => sale'[t] = sale[t]
      BY <1>0, <2>6 DEF HeldOpen
  <2> QED
      BY <1>2, <1>q, <2>3, <2>5, <2>7 DEF CommitSale, LockInv
<1>3. ASSUME NEW s \in Sales, LockForRefund(s) \/ LockForCancellation(s)
      PROVE  LockInv'
  <2>1. PICK command \in {"refund", "cancellation"} :
            LockDrawer(s, command) /\ (command = "cancellation" => paidOut[s] <= Cash[s])
      BY <1>3 DEF LockForRefund, LockForCancellation
  <2>2. /\ payout' = [payout EXCEPT ![s] = command] /\ seen' = [seen EXCEPT ![s] = drawer.expected]
        /\ UNCHANGED <<drawer, sale, paidOut, ledger, closer, figure, adjustments>>
        /\ drawer.status = "open" /\ sale[s] = "confirmed" /\ \A t \in Sales : payout[t] = "none"
      BY <2>1 DEF LockDrawer, Lockable, Unlocked
  <2>3. TypeOK'
      BY <1>0, <2>2 DEF TypeOK, Drawer
  <2>4. payout'[s] = command /\ \A t \in Sales \ {s} : payout'[t] = "none"
      BY <1>0, <2>2 DEF TypeOK
  <2>5. \A t \in Sales : HeldOpen(t)'
      BY <2>1, <2>2, <2>4 DEF HeldOpen
  <2> QED
      BY <2>3, <2>5 DEF LockInv
<1>4. ASSUME NEW s \in Sales, NEW amount \in Refundable, RefundCash(s, amount)
      PROVE  LockInv'
  <2>1. /\ PayOut(s, amount) /\ amount \in Nat /\ ledger' = [ledger EXCEPT !.out = @ + amount]
        /\ UNCHANGED <<sale, seen, closer, figure, adjustments>>
      BY <1>4, AmountsAssumption DEF RefundCash
  <2>2. /\ drawer' \in Drawer /\ payout' = [payout EXCEPT ![s] = "none"]
        /\ paidOut' = [paidOut EXCEPT ![s] = @ + amount] /\ drawer'.status = drawer.status
      BY <1>0, <2>1, PayOutType
  <2>3. TypeOK'
      BY <1>0, <2>1, <2>2 DEF TypeOK
  <2>4. \A t \in Sales \ {s} : paidOut'[t] = paidOut[t] /\ sale'[t] = sale[t]
      BY <1>0, <2>1, <2>2 DEF TypeOK
  <2> QED
      BY <1>r, <2>2, <2>3, <2>4 DEF LockInv
<1>5. ASSUME NEW s \in Sales, CancelSale(s)
      PROVE  LockInv'
  <2>0. RemainingCash(s) \in Nat /\ Net(s) \in Nat
      BY <1>0, <1>5, NetType DEF CancelSale, RemainingCash, HeldOpen, TypeOK
  <2>1. /\ PayOut(s, RemainingCash(s)) /\ sale' = [sale EXCEPT ![s] = "cancelled"]
        /\ ledger' = [ledger EXCEPT !.out = @ + RemainingCash(s), !.confirmed = @ - Net(s)]
        /\ UNCHANGED <<seen, closer, figure, adjustments>>
      BY <1>5 DEF CancelSale
  <2>2. /\ drawer' \in Drawer /\ payout' = [payout EXCEPT ![s] = "none"]
        /\ paidOut' = [paidOut EXCEPT ![s] = @ + RemainingCash(s)] /\ drawer'.status = drawer.status
      BY <1>0, <2>0, <2>1, PayOutType
  <2>3. ledger.out + RemainingCash(s) \in Nat /\ ledger.confirmed - Net(s) \in Int
      BY <1>0, <2>0 DEF TypeOK
  <2>4. TypeOK'
    <3>1. ledger' \in [paidIn : Nat, out : Nat, confirmed : Int]
        BY <1>0, <2>1, <2>3 DEF TypeOK
    <3>2. paidOut[s] + RemainingCash(s) \in Nat
        BY <1>0, <2>0 DEF TypeOK
    <3>3. paidOut' \in [Sales -> Nat]
        BY <1>0, <2>2, <3>2 DEF TypeOK
    <3> QED
        BY <1>0, <2>1, <2>2, <3>1, <3>3 DEF TypeOK
  <2>5. \A t \in Sales \ {s} : paidOut'[t] = paidOut[t] /\ sale'[t] = sale[t]
      BY <1>0, <2>1, <2>2 DEF TypeOK
  <2> QED
      BY <1>r, <2>2, <2>4, <2>5 DEF LockInv
<1>6. ASSUME NEW s \in Sales, CancelWithoutCash(s)
      PROVE  LockInv'
  <2>1. ledger.confirmed - Net(s) \in Int
      BY <1>0, NetType DEF TypeOK
  <2>2. TypeOK'
      BY <1>0, <1>6, <2>1 DEF CancelWithoutCash, TypeOK
  <2>3. \A t \in Sales : payout[t] # "none" => sale'[t] = sale[t]
      BY <1>0, <1>6 DEF CancelWithoutCash, TypeOK
  <2> QED
      BY <1>6, <1>q, <2>2, <2>3 DEF CancelWithoutCash, LockInv
<1>7. ASSUME NEW s \in Sales, ReleaseDrawer(s)
      PROVE  LockInv'
  <2>1. TypeOK'
      BY <1>0, <1>7 DEF ReleaseDrawer, TypeOK
  <2>2. payout' = [payout EXCEPT ![s] = "none"] /\ drawer' = drawer /\ paidOut' = paidOut /\ sale' = sale
      BY <1>7 DEF ReleaseDrawer
  <2> QED
      BY <1>r, <2>1, <2>2 DEF LockInv
<1>8. ASSUME NEW c \in Closers, FetchDrawer(c) \/ SumSales(c) \/ SumCashOuts(c)
      PROVE  LockInv'
  <2>1. TypeOK'
      BY <1>0, <1>8, AmountsAssumption DEF FetchDrawer, SumSales, SumCashOuts, TypeOK, Drawer
  <2>2. UNCHANGED <<payout, paidOut, sale>> /\ drawer'.status = drawer.status
      BY <1>8 DEF FetchDrawer, SumSales, SumCashOuts
  <2> QED
      BY <1>q, <2>1, <2>2 DEF LockInv
<1>9. ASSUME NEW c \in Closers, NEW declared \in Declared, CloseDrawer(c, declared)
      PROVE  LockInv'
  <2>1. TypeOK'
      BY <1>0, <1>9, AmountsAssumption, AdjustmentType DEF CloseDrawer, TypeOK, Drawer
  <2>2. payout' = payout /\ \A s \in Sales : payout[s] = "none"
      BY <1>9 DEF CloseDrawer, Unlocked
  <2> QED
      BY <2>1, <2>2 DEF LockInv, HeldOpen
<1>10. CASE UNCHANGED vars
    BY <1>0, <1>10 DEF vars, TypeOK, HeldOpen, LockInv
<1> QED
    BY <1>1, <1>2, <1>3, <1>4, <1>5, <1>6, <1>7, <1>8, <1>9, <1>10 DEF Next

LEMMA LockInvariant == Spec => []LockInv
<1>1. Init => LockInv
    BY AmountsAssumption DEF Init, LockInv, HeldOpen, TypeOK, Drawer
<1>2. LockInv /\ [Next]_vars => LockInv'
    BY LockStep
<1> QED
    BY <1>1, <1>2, PTL DEF Spec

(***************************************************************************)
(* Type correctness of every reachable state: no cancellation pays back a  *)
(* negative amount, whatever refunds ran before it.                        *)
(***************************************************************************)
THEOREM TypeCorrect == Spec => []TypeOK
<1>1. LockInv => TypeOK
    BY DEF LockInv
<1> QED
    BY <1>1, LockInvariant, PTL

-----------------------------------------------------------------------------
(***************************************************************************)
(* A closed session never reopens, however many requests run at once.      *)
(***************************************************************************)
THEOREM ClosedForGood == Spec => NeverReopens
<1>1. LockInv /\ [Next]_vars => [StaysClosed]_vars
  <2> SUFFICES ASSUME LockInv, Next, drawer.status = "closed"
               PROVE  drawer'.status = "closed"
      BY DEF StaysClosed
  <2>0. TypeOK
      BY DEF LockInv
  <2>1. ASSUME NEW s \in Sales, CommitSale(s)
        PROVE  drawer'.status = "closed"
      BY <2>0, <2>1 DEF CommitSale, TypeOK, Drawer
  <2>2. ASSUME NEW s \in Sales, NEW amount, PayOut(s, amount)
        PROVE  drawer'.status = "closed"
      BY <2>0, <2>2 DEF PayOut, TypeOK, Drawer
  <2>3. ASSUME NEW c \in Closers, NEW declared \in Declared, CloseDrawer(c, declared)
        PROVE  drawer'.status = "closed"
      BY <2>3 DEF CloseDrawer
  <2> QED
      BY <2>1, <2>2, <2>3 DEF Next, ReadDrawer, InsertSale, AbortSale, RefundCash, CancelSale,
             LockForRefund, LockForCancellation, LockDrawer, ReleaseDrawer, CancelWithoutCash,
             FetchDrawer, SumSales, SumCashOuts
<1> QED
    BY <1>1, LockInvariant, PTL DEF Spec, NeverReopens

(***************************************************************************)
(* Cash leaves only an open drawer, however many closings run between the  *)
(* query that found the session open and the payout: they wait.            *)
(***************************************************************************)
THEOREM CashNeedsOpenDrawer == Spec => CashOutNeedsOpenDrawer
<1>1. LockInv /\ [Next]_vars => [PaysWhileOpen]_vars
  <2> SUFFICES ASSUME LockInv, Next, ledger'.out > ledger.out
               PROVE  drawer.status = "open"
      BY DEF PaysWhileOpen
  <2>0. ledger.out \in Nat /\ ledger \in [paidIn : Nat, out : Nat, confirmed : Int]
      BY DEF LockInv, TypeOK
  <2>1. ASSUME NEW s \in Sales, payout[s] # "none"
        PROVE  drawer.status = "open"
      BY <2>1 DEF LockInv, HeldOpen
  <2>2. ASSUME NEW s \in Sales, CancelSale(s) \/ \E amount \in Refundable : RefundCash(s, amount)
        PROVE  drawer.status = "open"
      BY <2>1, <2>2 DEF CancelSale, RefundCash
  <2>3. ASSUME NEW s \in Sales, CommitSale(s) \/ CancelWithoutCash(s)
        PROVE  FALSE
    <3>1. ledger'.out = ledger.out
        BY <2>0, <2>3 DEF CommitSale, CancelWithoutCash
    <3> QED
        BY <2>0, <3>1
  <2>4. ledger' # ledger
      BY <2>0
  <2> QED
      BY <2>2, <2>3, <2>4 DEF Next, ReadDrawer, InsertSale, AbortSale, LockForRefund,
             LockForCancellation, LockDrawer, ReleaseDrawer, FetchDrawer, SumSales, SumCashOuts,
             CloseDrawer
<1> QED
    BY <1>1, LockInvariant, PTL DEF Spec, CashOutNeedsOpenDrawer

-----------------------------------------------------------------------------
(* The sales that count were paid in, and what was paid in stays: so the   *)
(* figure of a closing that has summed the sales is covered from then on,  *)
(* and it takes off all that has left by its last query.                   *)

Counted(s, statuses) == IF sale[s] \in statuses THEN Net(s) ELSE 0
NetsOf(statuses) == [s \in Sales |-> Counted(s, statuses)]

Paid == {"confirmed", "cancelled"}

FiguresCovered ==
    \A c \in Closers : closer[c] = "summed" => figure[c] <= Opening + ledger.paidIn

LedgerInv ==
    /\ LockInv
    /\ ledger.confirmed = SumFunctionOnSet(NetsOf({"confirmed"}), Sales)
    /\ ledger.paidIn = SumFunctionOnSet(NetsOf(Paid), Sales)
    /\ FiguresCovered

LEMMA CountedType ==
    ASSUME NEW statuses
    PROVE  \A s \in Sales : /\ Counted(s, statuses) \in Nat
                            /\ NetsOf(statuses)[s] = Counted(s, statuses)
BY NetType DEF Counted, NetsOf

LEMMA CountedIsPaid ==
    ASSUME LedgerInv
    PROVE  ledger.confirmed <= ledger.paidIn
<1> DEFINE f == NetsOf({"confirmed"})
           g == NetsOf(Paid)
<1>1. ASSUME NEW s \in Sales
      PROVE  f[s] \in Int /\ g[s] \in Int /\ f[s] <= g[s]
  <2>1. Counted(s, {"confirmed"}) \in Nat /\ Counted(s, Paid) \in Nat
            /\ f[s] = Counted(s, {"confirmed"}) /\ g[s] = Counted(s, Paid)
      BY CountedType
  <2>2. Counted(s, {"confirmed"}) <= Counted(s, Paid)
      BY <2>1 DEF Counted, Paid
  <2> QED
      BY <2>1, <2>2
<1>2. SumFunctionOnSet(f, Sales) <= SumFunctionOnSet(g, Sales)
  <2> HIDE DEF f, g
  <2> QED
      BY <1>1, SalesAssumption, SumAtMost
<1> QED
    BY <1>2 DEF LedgerInv

\* A sale that changes its status changes one summand.
LEMMA NetsChange ==
    ASSUME NEW statuses, NEW s \in Sales, TypeOK,
           \A t \in Sales \ {s} : sale'[t] = sale[t]
    PROVE  /\ SumFunctionOnSet(NetsOf(statuses), Sales) \in Int
           /\ SumFunctionOnSet(NetsOf(statuses)', Sales) =
                SumFunctionOnSet(NetsOf(statuses), Sales)
                    - Counted(s, statuses) + Counted(s, statuses)'
<1>1. \A t \in Sales : NetsOf(statuses)[t] \in Int
    BY CountedType
<1>2. NetsOf(statuses)'[s] = Counted(s, statuses)' /\ Counted(s, statuses)' \in Int
    BY NetType DEF NetsOf, Counted, Net
<1>3. \A t \in Sales \ {s} : NetsOf(statuses)'[t] = NetsOf(statuses)[t]
    BY DEF NetsOf, Counted, Net
<1>4. NetsOf(statuses)[s] = Counted(s, statuses)
    BY CountedType
<1> HIDE DEF NetsOf, Counted
<1>5. SumFunctionOnSet(NetsOf(statuses), Sales) \in Int
    BY <1>1, SumType, SalesAssumption
<1> QED
    BY <1>1, <1>2, <1>3, <1>4, <1>5, SumChanges, SalesAssumption

LEMMA LedgerStep ==
    ASSUME LedgerInv, [Next]_vars
    PROVE  LedgerInv'
<1>0. TypeOK /\ TypeOK' /\ LockInv' /\ FiguresCovered
    BY LockStep DEF LedgerInv, LockInv
<1> DEFINE Sums ==
        /\ ledger.confirmed = SumFunctionOnSet(NetsOf({"confirmed"}), Sales)
        /\ ledger.paidIn = SumFunctionOnSet(NetsOf(Paid), Sales)
<1>i. Sums /\ ledger.confirmed <= ledger.paidIn
    BY CountedIsPaid DEF LedgerInv
<1> SUFFICES Sums' /\ FiguresCovered'
    BY <1>0 DEF LedgerInv
<1>a. ASSUME sale' = sale, ledger'.confirmed = ledger.confirmed, ledger'.paidIn = ledger.paidIn
      PROVE  Sums'
  <2>1. NetsOf({"confirmed"})' = NetsOf({"confirmed"}) /\ NetsOf(Paid)' = NetsOf(Paid)
      BY <1>a DEF NetsOf, Counted, Net
  <2> QED
      BY <1>i, <1>a, <2>1
<1>b. ASSUME closer' = closer, figure' = figure, ledger'.paidIn >= ledger.paidIn
      PROVE  FiguresCovered'
  <2>1. ledger.paidIn \in Nat /\ ledger'.paidIn \in Nat /\ \A c \in Closers : figure[c] \in Int
      BY <1>0 DEF TypeOK
  <2> QED
      BY <1>0, <1>b, <2>1, AmountsAssumption DEF FiguresCovered
<1>1. ASSUME NEW s \in Sales, ReadDrawer(s) \/ InsertSale(s) \/ AbortSale(s)
      PROVE  Sums' /\ FiguresCovered'
  <2>1. /\ ledger' = ledger /\ closer' = closer /\ figure' = figure
        /\ ledger.paidIn \in Nat
      BY <1>0, <1>1 DEF ReadDrawer, InsertSale, AbortSale, TypeOK
  <2>2. ASSUME NEW statuses, statuses \in {{"confirmed"}, Paid}
        PROVE  \A t \in Sales : Counted(t, statuses)' = Counted(t, statuses)
      BY <1>0, <1>1, <2>2 DEF ReadDrawer, InsertSale, AbortSale, TypeOK, Counted, Net, Paid
  <2>3. /\ NetsOf({"confirmed"})' = NetsOf({"confirmed"})
        /\ NetsOf(Paid)' = NetsOf(Paid)
      BY <2>2 DEF NetsOf
  <2>4. FiguresCovered'
      BY <1>b, <2>1
  <2> QED
      BY <1>i, <2>1, <2>3, <2>4
<1>2. ASSUME NEW s \in Sales, CommitSale(s)
      PROVE  Sums' /\ FiguresCovered'
  <2>1. /\ \A t \in Sales \ {s} : sale'[t] = sale[t]
        /\ sale[s] = "inserted" /\ sale'[s] = "confirmed"
        /\ ledger'.paidIn = ledger.paidIn + Net(s)
        /\ ledger'.confirmed = ledger.confirmed + Net(s)
        /\ closer' = closer /\ figure' = figure
      BY <1>0, <1>2 DEF CommitSale, TypeOK
  <2>2. /\ Counted(s, Paid) = 0 /\ Counted(s, Paid)' = Net(s)
        /\ Counted(s, {"confirmed"}) = 0 /\ Counted(s, {"confirmed"})' = Net(s)
      BY <2>1 DEF Counted, Paid, Net
  <2>3. Sums'
      BY <1>0, <1>i, <2>1, <2>2, NetsChange, NetType
  <2>4. ledger'.paidIn >= ledger.paidIn
      BY <1>0, <2>1, NetType DEF TypeOK
  <2> QED
      BY <1>b, <2>1, <2>3, <2>4
<1>3. ASSUME NEW s \in Sales, CancelSale(s) \/ CancelWithoutCash(s)
      PROVE  Sums' /\ FiguresCovered'
  <2>0. sale[s] = "confirmed" \/ payout[s] # "none"
      BY <1>3 DEF CancelSale, CancelWithoutCash
  <2>1. /\ \A t \in Sales \ {s} : sale'[t] = sale[t]
        /\ sale'[s] = "cancelled"
        /\ ledger'.paidIn = ledger.paidIn
        /\ ledger'.confirmed = ledger.confirmed - Net(s)
        /\ closer' = closer /\ figure' = figure /\ ledger.paidIn \in Nat
      BY <1>0, <1>3 DEF CancelSale, CancelWithoutCash, TypeOK
  <2>2. sale[s] = "confirmed"
      BY <2>0 DEF LedgerInv, LockInv, HeldOpen
  <2>3. /\ Counted(s, Paid) = Net(s) /\ Counted(s, Paid)' = Net(s)
        /\ Counted(s, {"confirmed"}) = Net(s) /\ Counted(s, {"confirmed"})' = 0
      BY <2>1, <2>2 DEF Counted, Paid, Net
  <2>4. Sums'
    <3>1. ledger'.paidIn = SumFunctionOnSet(NetsOf(Paid)', Sales)
        BY <1>0, <1>i, <2>1, <2>3, NetType, NetsChange
    <3>2. ledger'.confirmed = SumFunctionOnSet(NetsOf({"confirmed"})', Sales)
        BY <1>0, <1>i, <2>1, <2>3, NetType, NetsChange
    <3> QED
        BY <3>1, <3>2
  <2>5. FiguresCovered'
      BY <1>b, <2>1
  <2> QED
      BY <2>4, <2>5
<1>4. ASSUME NEW s \in Sales, LockForRefund(s) \/ LockForCancellation(s) \/ ReleaseDrawer(s)
                                 \/ \E amount \in Refundable : RefundCash(s, amount)
      PROVE  Sums' /\ FiguresCovered'
  <2>1. sale' = sale /\ closer' = closer /\ figure' = figure
            /\ ledger'.confirmed = ledger.confirmed /\ ledger'.paidIn = ledger.paidIn
            /\ ledger.paidIn \in Nat
      BY <1>0, <1>4 DEF LockForRefund, LockForCancellation, LockDrawer, ReleaseDrawer, RefundCash, TypeOK
  <2> QED
      BY <1>a, <1>b, <2>1
<1>5. ASSUME NEW c \in Closers, FetchDrawer(c) \/ SumCashOuts(c) \/ \E d \in Declared : CloseDrawer(c, d)
      PROVE  Sums' /\ FiguresCovered'
  <2>1. sale' = sale /\ ledger' = ledger
      BY <1>5 DEF FetchDrawer, SumCashOuts, CloseDrawer
  <2>2. \A d \in Closers : closer'[d] = "summed" => closer[d] = "summed" /\ figure'[d] = figure[d]
      BY <1>0, <1>5 DEF FetchDrawer, SumCashOuts, CloseDrawer, TypeOK
  <2> QED
      BY <1>0, <1>a, <2>1, <2>2 DEF FiguresCovered
<1>6. ASSUME NEW c \in Closers, SumSales(c)
      PROVE  Sums' /\ FiguresCovered'
  <2>1. sale' = sale /\ ledger' = ledger /\ figure'[c] = Opening + ledger.confirmed
            /\ \A d \in Closers \ {c} : closer'[d] = closer[d] /\ figure'[d] = figure[d]
      BY <1>0, <1>6 DEF SumSales, TypeOK
  <2>2. figure'[c] <= Opening + ledger'.paidIn
      BY <1>0, <1>i, <2>1, AmountsAssumption DEF TypeOK
  <2> QED
      BY <1>0, <1>a, <2>1, <2>2 DEF FiguresCovered
<1>7. CASE UNCHANGED vars
    BY <1>0, <1>a, <1>7 DEF vars, FiguresCovered
<1> QED
    BY <1>1, <1>2, <1>3, <1>4, <1>5, <1>6, <1>7 DEF Next

LEMMA LedgerInvariant == Spec => []LedgerInv
<1>1. Init => LedgerInv
  <2> SUFFICES ASSUME Init
               PROVE  LedgerInv
      OBVIOUS
  <2>1. LockInv
      BY AmountsAssumption DEF Init, LockInv, HeldOpen, TypeOK, Drawer
  <2>2. \A s \in Sales : NetsOf({"confirmed"})[s] = 0 /\ NetsOf(Paid)[s] = 0
      BY DEF Init, NetsOf, Counted, Paid
  <2>3. SumFunctionOnSet(NetsOf({"confirmed"}), Sales) = 0 /\ SumFunctionOnSet(NetsOf(Paid), Sales) = 0
      BY <2>2, SumZero, SalesAssumption
  <2>4. FiguresCovered
      BY DEF Init, FiguresCovered
  <2> QED
      BY <2>1, <2>3, <2>4 DEF Init, LedgerInv
<1>2. LedgerInv /\ [Next]_vars => LedgerInv'
    BY LedgerStep
<1> QED
    BY <1>1, <1>2, PTL DEF Spec

(***************************************************************************)
(* No closing invents a shortage, however many sales, refunds,             *)
(* cancellations and other closings run between its queries.               *)
(***************************************************************************)
THEOREM ShortagesAreReal == Spec => NoShortageInvented
<1> DEFINE Real == \A c \in Closers : Computes(c) => figure'[c] <= Contents
<1>1. LedgerInv /\ [Next]_vars => [Real]_vars
  <2> SUFFICES ASSUME LedgerInv, Next, NEW c \in Closers, closer[c] # "computed", closer'[c] = "computed"
               PROVE  figure'[c] <= Contents
      BY DEF Computes
  <2>0. TypeOK /\ FiguresCovered
      BY DEF LedgerInv, LockInv
  <2>1. closer' # closer
      OBVIOUS
  <2>2. PICK d \in Closers : FetchDrawer(d) \/ SumSales(d) \/ SumCashOuts(d)
                                \/ \E declared \in Declared : CloseDrawer(d, declared)
      BY <2>1 DEF Next, ReadDrawer, InsertSale, CommitSale, AbortSale, LockForRefund, LockForCancellation,
             LockDrawer, ReleaseDrawer, RefundCash, CancelSale, CancelWithoutCash
  <2>3. d = c /\ SumCashOuts(c)
      BY <2>0, <2>2 DEF FetchDrawer, SumSales, SumCashOuts, CloseDrawer, TypeOK
  <2>4. figure'[c] = figure[c] - ledger.out /\ figure[c] <= Opening + ledger.paidIn
      BY <2>0, <2>3 DEF SumCashOuts, FiguresCovered, TypeOK
  <2> QED
      BY <2>0, <2>4, AmountsAssumption DEF Contents, TypeOK
<1> QED
    BY <1>1, LedgerInvariant, PTL DEF Spec, NoShortageInvented
=============================================================================
