------------------------------- MODULE CashDrawer -------------------------------
(***************************************************************************)
(* One cash session (CashSession) and the requests that read and write its *)
(* row: counter sales, cash refunds, cancellations and the session's       *)
(* closing (backend/sales/services.py).                                    *)
(*                                                                         *)
(* Each request is one READ COMMITTED transaction.  A cash refund and a    *)
(* cancellation lock the row (SELECT ... FOR UPDATE) when they look for an *)
(* open session, and write it later, under that lock.  A sale reads the    *)
(* row without a lock and writes it back at its end; in between it inserts *)
(* the sale, whose foreign key takes a KEY SHARE lock.  The two locks wait *)
(* for each other.  Closing locks nothing: it reads the row, sums the      *)
(* sales, sums the cash that left, and writes, statement by statement;     *)
(* only its UPDATE waits for a FOR UPDATE lock.                            *)
(*                                                                         *)
(* Amounts are cents.  The totals of the movements are kept as they are    *)
(* queried, per movement type; no code creates the types "cash_in",        *)
(* "expense", "other_in" and "other_out".                                  *)
(***************************************************************************)
EXTENDS Integers, FiniteSets, Functions

CONSTANTS
    Sales,        \* counter sales the operator may make
    Cash, Other,  \* what each is paid with cash and with other methods
    Closers,      \* requests to close the session
    Opening,      \* opening_amount
    Declared,     \* amounts an operator may declare at closing
    Refundable,   \* amounts of cash refunds
    AtOnce        \* how many requests run at the same time

ASSUME SalesAssumption == IsFiniteSet(Sales) /\ Cash \in [Sales -> Nat] /\ Other \in [Sales -> Nat]
ASSUME ClosersAssumption == IsFiniteSet(Closers) /\ Sales \cap Closers = {}
ASSUME AmountsAssumption == Opening \in Nat /\ Declared \subseteq Nat /\ Refundable \subseteq Nat
ASSUME AtOnceAssumption == AtOnce \in Nat \ {0}

VARIABLES
    drawer,       \* the row: status, expected_amount and closing_amount
    sale,         \* how far each sale's transaction is; Sale.status once committed
    seen,         \* expected_amount as a running sale, refund or cancellation has read it
    payout,       \* what holds the row's lock for this sale, with the sale's own row
    paidOut,      \* cash_out movements per sale
    ledger,       \* totals: sale_payment movements, cash_out movements, confirmed sales
    closer,       \* how far each closing request is
    figure,       \* the expected amount a closing request has computed so far
    adjustments   \* closing_adjustment movements, by the request that made them

vars == <<drawer, sale, seen, payout, paidOut, ledger, closer, figure, adjustments>>

Drawer == [status : {"open", "closed"}, expected : Int, closing : Nat]

TypeOK ==
    /\ drawer \in Drawer
    /\ sale \in [Sales -> {"none", "running", "inserted", "confirmed", "cancelled"}]
    /\ seen \in [Sales -> Int]
    /\ payout \in [Sales -> {"none", "refund", "cancellation"}]
    /\ paidOut \in [Sales -> Nat]
    /\ ledger \in [paidIn : Nat, out : Nat, confirmed : Int]
    /\ closer \in [Closers -> {"idle", "fetched", "summed", "computed", "done"}]
    /\ figure \in [Closers -> Int]
    /\ adjustments \subseteq [by : Closers, amount : Nat]

\* open_cash_session has committed.
Init ==
    /\ drawer = [status |-> "open", expected |-> Opening, closing |-> 0]
    /\ sale = [s \in Sales |-> "none"]
    /\ seen = [s \in Sales |-> 0]
    /\ payout = [s \in Sales |-> "none"]
    /\ paidOut = [s \in Sales |-> 0]
    /\ ledger = [paidIn |-> 0, out |-> 0, confirmed |-> 0]
    /\ closer = [c \in Closers |-> "idle"]
    /\ figure = [c \in Closers |-> 0]
    /\ adjustments = {}

Net(s) == Cash[s] + Other[s]

InFlight ==
    {s \in Sales : sale[s] \in {"running", "inserted"} \/ payout[s] # "none"}
        \cup {c \in Closers : closer[c] \in {"fetched", "summed", "computed"}}

MayStart == Cardinality(InFlight) < AtOnce

\* No transaction holds the row FOR UPDATE.
\* Mutant: sessions are looked up without select_for_update.
NeverLocked == TRUE
Unlocked == \A s \in Sales : payout[s] = "none"

\* Nor has one a KEY SHARE lock on it, which a FOR UPDATE lock waits for.
Lockable == Unlocked /\ \A s \in Sales : sale[s] # "inserted"

AbsDiff(a, b) == IF a >= b THEN a - b ELSE b - a

-----------------------------------------------------------------------------
(* Counter sales.                                                          *)

\* _open_cash_session_for: the row is read, not locked.
ReadDrawer(s) ==
    /\ sale[s] = "none"
    /\ MayStart
    /\ drawer.status = "open"
    /\ sale' = [sale EXCEPT ![s] = "running"]
    /\ seen' = [seen EXCEPT ![s] = drawer.expected]
    /\ UNCHANGED <<drawer, payout, paidOut, ledger, closer, figure, adjustments>>

InsertSale(s) ==
    /\ sale[s] = "running"
    /\ Unlocked
    /\ sale' = [sale EXCEPT ![s] = "inserted"]
    /\ UNCHANGED <<drawer, seen, payout, paidOut, ledger, closer, figure, adjustments>>

\* Mutant: the confirmation saves the whole row that it read earlier.
CommitSaleWholeRow(s) ==
    /\ sale[s] = "inserted"
    /\ sale' = [sale EXCEPT ![s] = "confirmed"]
    /\ ledger' = [ledger EXCEPT !.paidIn = @ + Net(s), !.confirmed = @ + Net(s)]
    /\ drawer' = [status |-> "open", expected |-> seen[s] + Net(s), closing |-> 0]
    /\ UNCHANGED <<seen, payout, paidOut, closer, figure, adjustments>>

\* Of the row, the final save writes expected_amount (and version) only.
CommitSale(s) ==
    /\ sale[s] = "inserted"
    /\ sale' = [sale EXCEPT ![s] = "confirmed"]
    /\ ledger' = [ledger EXCEPT !.paidIn = @ + Net(s), !.confirmed = @ + Net(s)]
    /\ drawer' = [drawer EXCEPT !.expected = seen[s] + Net(s)]
    /\ UNCHANGED <<seen, payout, paidOut, closer, figure, adjustments>>

AbortSale(s) ==
    /\ sale[s] \in {"running", "inserted"}
    /\ sale' = [sale EXCEPT ![s] = "none"]
    /\ UNCHANGED <<drawer, seen, payout, paidOut, ledger, closer, figure, adjustments>>

-----------------------------------------------------------------------------
(* Money that leaves the drawer.  A refund or cancellation holds the sale's *)
(* row from its start; it locks the session's row with the query for an    *)
(* open session, which is evaluated again after waiting for the lock.      *)

LockDrawer(s, command) ==
    /\ sale[s] = "confirmed"
    /\ payout[s] = "none"
    /\ MayStart /\ Lockable
    /\ drawer.status = "open"
    /\ payout' = [payout EXCEPT ![s] = command]
    /\ seen' = [seen EXCEPT ![s] = drawer.expected]
    /\ UNCHANGED <<drawer, sale, paidOut, ledger, closer, figure, adjustments>>

\* The row is saved with what was read under its lock.
PayOut(s, amount) ==
    /\ payout' = [payout EXCEPT ![s] = "none"]
    /\ paidOut' = [paidOut EXCEPT ![s] = @ + amount]
    /\ drawer' = [drawer EXCEPT !.expected = IF amount > 0 THEN seen[s] - amount ELSE @]

LockForRefund(s) == LockDrawer(s, "refund")

RefundCash(s, amount) ==
    /\ payout[s] = "refund"
    /\ amount > 0 /\ paidOut[s] + amount <= Net(s)
    /\ PayOut(s, amount)
    /\ ledger' = [ledger EXCEPT !.out = @ + amount]
    /\ UNCHANGED <<sale, seen, closer, figure, adjustments>>

RemainingCash(s) == Cash[s] - paidOut[s]

\* The session is looked up only for a sale paid with cash.
LockForCancellation(s) ==
    /\ Cash[s] > 0 /\ paidOut[s] <= Cash[s]
    /\ LockDrawer(s, "cancellation")

CancelSale(s) ==
    /\ payout[s] = "cancellation"
    /\ sale' = [sale EXCEPT ![s] = "cancelled"]
    /\ PayOut(s, RemainingCash(s))
    /\ ledger' = [ledger EXCEPT !.out = @ + RemainingCash(s), !.confirmed = @ - Net(s)]
    /\ UNCHANGED <<seen, closer, figure, adjustments>>

CancelWithoutCash(s) ==
    /\ sale[s] = "confirmed"
    /\ payout[s] = "none"
    /\ MayStart
    /\ Cash[s] = 0 /\ paidOut[s] = 0
    /\ sale' = [sale EXCEPT ![s] = "cancelled"]
    /\ ledger' = [ledger EXCEPT !.confirmed = @ - Net(s)]
    /\ UNCHANGED <<drawer, seen, payout, paidOut, closer, figure, adjustments>>

\* The amount is refused, or the request fails: everything is rolled back.
ReleaseDrawer(s) ==
    /\ payout[s] # "none"
    /\ payout' = [payout EXCEPT ![s] = "none"]
    /\ UNCHANGED <<drawer, sale, seen, paidOut, ledger, closer, figure, adjustments>>

-----------------------------------------------------------------------------
(* close_cash_session.                                                     *)

\* The view fetches the row; a closed session is returned as it is.
FetchDrawer(c) ==
    /\ closer[c] = "idle"
    /\ MayStart
    /\ closer' = [closer EXCEPT ![c] = IF drawer.status = "closed" THEN "done" ELSE "fetched"]
    /\ UNCHANGED <<drawer, sale, seen, payout, paidOut, ledger, figure, adjustments>>

SumSales(c) ==
    /\ closer[c] = "fetched"
    /\ closer' = [closer EXCEPT ![c] = "summed"]
    /\ figure' = [figure EXCEPT ![c] = Opening + ledger.confirmed]
    /\ UNCHANGED <<drawer, sale, seen, payout, paidOut, ledger, adjustments>>

\* Mutant: refunds of sales that no longer count are left out of the sum.
SumCountedCashOuts(c) ==
    /\ closer[c] = "summed"
    /\ closer' = [closer EXCEPT ![c] = "computed"]
    /\ figure' = [figure EXCEPT ![c] =
                     @ - SumFunctionOnSet(paidOut, {s \in Sales : sale[s] = "confirmed"})]
    /\ UNCHANGED <<drawer, sale, seen, payout, paidOut, ledger, adjustments>>

\* All cash_out movements count, those of cancelled sales too.
SumCashOuts(c) ==
    /\ closer[c] = "summed"
    /\ closer' = [closer EXCEPT ![c] = "computed"]
    /\ figure' = [figure EXCEPT ![c] = @ - ledger.out]
    /\ UNCHANGED <<drawer, sale, seen, payout, paidOut, ledger, adjustments>>

\* A difference that has a movement of its own.
Adjustment(c, declared) ==
    {[by |-> c, amount |-> d] : d \in {AbsDiff(figure[c], declared)} \ {0}}

CloseDrawer(c, declared) ==
    /\ closer[c] = "computed"
    /\ Unlocked
    /\ closer' = [closer EXCEPT ![c] = "done"]
    /\ drawer' = [status |-> "closed", expected |-> figure[c], closing |-> declared]
    /\ adjustments' = adjustments \cup Adjustment(c, declared)
    /\ UNCHANGED <<sale, seen, payout, paidOut, ledger, figure>>

-----------------------------------------------------------------------------
Next ==
    \/ \E s \in Sales :
        \/ ReadDrawer(s) \/ InsertSale(s) \/ CommitSale(s) \/ AbortSale(s)
        \/ LockForRefund(s) \/ LockForCancellation(s) \/ ReleaseDrawer(s)
        \/ CancelSale(s) \/ CancelWithoutCash(s)
        \/ \E amount \in Refundable : RefundCash(s, amount)
    \/ \E c \in Closers :
        \/ FetchDrawer(c) \/ SumSales(c) \/ SumCashOuts(c)
        \/ \E declared \in Declared : CloseDrawer(c, declared)

Spec == Init /\ [][Next]_vars

-----------------------------------------------------------------------------
(* What holds however many requests run at once.                           *)

(***************************************************************************)
(* A closed session stays closed: a sale that read the session while it    *)
(* was open saves expected_amount and version only, so its late save does  *)
(* not write the old status back.                                          *)
(***************************************************************************)
StaysClosed == drawer.status = "closed" => drawer'.status = "closed"

NeverReopens == [][StaysClosed]_vars

(***************************************************************************)
(* Cash leaves the drawer only while it is open, although the session is   *)
(* found open in one statement and the cash is booked in a later one: a    *)
(* closing in between waits for the lock (create_sale_refund and           *)
(* cancel_sale look the session up with select_for_update).                *)
(***************************************************************************)
PaysWhileOpen == ledger'.out > ledger.out => drawer.status = "open"

CashOutNeedsOpenDrawer == [][PaysWhileOpen]_vars

(***************************************************************************)
(* A closing that overlaps sales, refunds and cancellations never expects  *)
(* more than was paid in and has not left when it makes its last query, so *)
(* no shortage is charged to the operator that is not there.  It sums the  *)
(* sales before the cash that left, and all the cash that left             *)
(* (close_cash_session); it may expect less, see ClosesOnContents.         *)
(***************************************************************************)
Contents == Opening + ledger.paidIn - ledger.out

Computes(c) == closer[c] # "computed" /\ closer'[c] = "computed"

NoShortageInvented ==
    [][\A c \in Closers : Computes(c) => figure'[c] <= Contents]_vars

-----------------------------------------------------------------------------
(* What the code does not give; the .cfg named has a counterexample.       *)

(***************************************************************************)
(* The running expected amount of an open session is its opening amount    *)
(* plus all sale payments minus all cash that left (the balance refund     *)
(* tests assert, test_sales_compensation_concurrency.py:374).  Two sales   *)
(* that read the same amount lose one of them                              *)
(* (MCCashDrawer_lost_update.cfg).                                         *)
(***************************************************************************)
RunningExpected == drawer.status = "open" => drawer.expected = Contents

(***************************************************************************)
(* A closing that nothing overlaps expects what the drawer holds.  It does *)
(* not once a cash sale was cancelled: the sale no longer counts, and the  *)
(* cash paid back for it does (MCCashDrawer_cancelled.cfg).                *)
(***************************************************************************)
ClosesOnContents ==
    \A c \in Closers : closer[c] = "computed" /\ InFlight = {c} => figure[c] = Contents

(***************************************************************************)
(* A session is closed once and records one difference.  Two closings that *)
(* both fetched the open session both record theirs                        *)
(* (MCCashDrawer_two_closings.cfg).                                        *)
(***************************************************************************)
ClosedOnce == Cardinality(adjustments) <= 1
=============================================================================
