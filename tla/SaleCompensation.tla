---------------------------- MODULE SaleCompensation ----------------------------
(***************************************************************************)
(* Counter sales and what may happen to them afterwards: returns, refunds  *)
(* and cancellation (backend/sales/services.py).  Every compensating       *)
(* command runs in one database transaction that starts by locking the     *)
(* sale's row, so each is one action here, taken at its commit.  A counter *)
(* sale has no row to lock before it exists: it reads the operator's open  *)
(* cash session without a lock and inserts the sale later, so it is a      *)
(* begin and a commit, and a session may close in between.                 *)
(*                                                                         *)
(* A sale is identified by its idempotency key (unique per tenant); a      *)
(* replayed command returns the stored row and changes nothing, and a key  *)
(* met again with another payload is refused, so a command acts only when  *)
(* its key is unused.  Amounts are cents, quantities base units.           *)
(***************************************************************************)
EXTENDS Integers, Sequences, FiniteSets, Functions

CONSTANTS
    Sessions,     \* cash sessions of one operator of one branch
    Sales,        \* idempotency keys of counter sales
    Lines,        \* products, numbered in the order stock rows are locked in
    Tracked,      \* the products with tracks_inventory
    Carts,        \* the item quantities and payments sales may have, payments by method
    ReturnRequests, \* the quantities per line a return may ask for
    ReturnKeys,   \* idempotency keys clients send with returns,
    RefundKeys,   \* with refunds
    CancelKeys,   \* and with cancellations; nothing keeps them apart from the others
    Reversible,   \* sales whose stock issue is also reversed by inventory
    None

\* SaleRefund.METHOD_CHOICES; every other payment method is one "other" here.
RefundMethods == {"cash", "pix", "card_external"}
Methods == RefundMethods \cup {"other"}

Quantities == [Lines -> Nat]
Nothing == [l \in Lines |-> 0]
NoCart == [qty |-> Nothing, pay |-> [m \in Methods |-> <<>>]]

ASSUME LinesAssumption == Lines \subseteq Nat /\ IsFiniteSet(Lines) /\ Tracked \subseteq Lines
ASSUME CartsAssumption == Carts \subseteq [qty : Quantities, pay : [Methods -> Seq(Nat)]]
ASSUME RequestsAssumption == ReturnRequests \subseteq Quantities
ASSUME ReversibleAssumption == Reversible \subseteq Sales
ASSUME NoneAssumption == None \notin Sessions /\ None \notin Sales /\ None \notin ReturnKeys

VARIABLES
    session,     \* CashSession.status, "none" before the session is opened
    status,      \* Sale.status; "pricing" while its transaction is running
    origin,      \* Sale.cash_session
    cart,        \* SaleItem quantities and the SalePayment amounts of each method
    returned,    \* completed SaleReturnItem quantities per line
    refunded,    \* completed SaleRefund amounts per method
    restocked,   \* stock movements that took back what the sale issued
    reversed,    \* the sales' issue operations with status "reversed"
    returnOf,    \* the sale a SaleReturn with this key belongs to
    refundOf,    \* the sale a SaleRefund with this key belongs to
    cancelOf,    \* the sale a SaleCancellation with this key belongs to
    stockOps     \* receipt StockOperations by their key "<key>:stock:<index>"

vars == <<session, status, origin, cart, returned, refunded, restocked, reversed,
          returnOf, refundOf, cancelOf, stockOps>>
keys == <<returnOf, refundOf, cancelOf>>

StockOperation ==
    [key : ReturnKeys \cup CancelKeys, index : Nat, line : Lines, qty : Nat]

TypeOK ==
    /\ session \in [Sessions -> {"none", "open", "closed"}]
    /\ status \in [Sales -> {"none", "pricing", "confirmed", "cancelled"}]
    /\ origin \in [Sales -> Sessions \cup {None}]
    /\ cart \in [Sales -> [qty : Quantities, pay : [Methods -> Seq(Nat)]]]
    /\ returned \in [Sales -> Quantities]
    /\ refunded \in [Sales -> [RefundMethods -> Nat]]
    /\ restocked \in [Sales -> Quantities]
    /\ reversed \subseteq Sales \X Lines
    /\ returnOf \in [ReturnKeys -> Sales \cup {None}]
    /\ refundOf \in [RefundKeys -> Sales \cup {None}]
    /\ cancelOf \in [CancelKeys -> Sales \cup {None}]
    /\ stockOps \subseteq StockOperation

Init ==
    /\ session = [x \in Sessions |-> "none"]
    /\ status = [s \in Sales |-> "none"]
    /\ origin = [s \in Sales |-> None]
    /\ cart = [s \in Sales |-> NoCart]
    /\ returned = [s \in Sales |-> Nothing]
    /\ refunded = [s \in Sales |-> [m \in RefundMethods |-> 0]]
    /\ restocked = [s \in Sales |-> Nothing]
    /\ reversed = {}
    /\ returnOf = [k \in ReturnKeys |-> None]
    /\ refundOf = [k \in RefundKeys |-> None]
    /\ cancelOf = [k \in CancelKeys |-> None]
    /\ stockOps = {}

-----------------------------------------------------------------------------
(* Sums the services compute over a sale's rows.                           *)

RefundTotal(r) == r["cash"] + r["pix"] + r["card_external"]

\* payment_totals
Paid(s, m) == SumFunctionOnSet(cart[s].pay[m], DOMAIN cart[s].pay[m])

\* Payments must add up to the net total before a sale is created.
Net(s) == Paid(s, "cash") + Paid(s, "pix") + Paid(s, "card_external") + Paid(s, "other")

Sold(s) == cart[s].qty

InSession(s) == origin[s] \in Sessions /\ session[origin[s]] = "open"

\* A stored row with the key of a command means that the command was run before.
\* Mutant: the key of a command is not looked up.
Unchecked(rows, k) == TRUE
FirstUse(rows, k) == rows[k] = None

-----------------------------------------------------------------------------
(* Stock receipts of a command with key k that takes back quantities q.    *)
(* The i-th receipt, in line order, has the key "<k>:stock:<i>": an        *)
(* operation already stored under that key is reused if its payload is the *)
(* same (then no movement is created again) and refused otherwise.         *)

Moved(q) == {l \in Lines : q[l] > 0}

Receipt(k, q, l) ==
    [key |-> k, index |-> Cardinality({i \in Moved(q) : i <= l}), line |-> l, qty |-> q[l]]

Receipts(k, q) == {Receipt(k, q, l) : l \in Moved(q)}

SameKey(a, b) == a.key = b.key /\ a.index = b.index

Conflicting(ops) == \E a \in ops, b \in stockOps : SameKey(a, b) /\ a # b

\* Quantities whose receipt is new, the only ones that move stock.
Fresh(k, q) ==
    [l \in Lines |->
        IF l \in Moved(q) /\ ~\E b \in stockOps : SameKey(Receipt(k, q, l), b) THEN q[l] ELSE 0]

\* create_receipt for each line of q
Restock(s, k, q) ==
    /\ ~Conflicting(Receipts(k, q))
    /\ stockOps' = stockOps \cup Receipts(k, q)
    /\ restocked' = [restocked EXCEPT ![s] = [l \in Lines |-> @[l] + Fresh(k, q)[l]]]

-----------------------------------------------------------------------------
(* Cash sessions.                                                          *)

\* One open session per operator and branch.
OpenSession(x) ==
    /\ session[x] = "none"
    /\ \A y \in Sessions : session[y] # "open"
    /\ session' = [session EXCEPT ![x] = "open"]
    /\ UNCHANGED <<status, origin, cart, returned, refunded, restocked, reversed, keys, stockOps>>

CloseSession(x) ==
    /\ session[x] = "open"
    /\ session' = [session EXCEPT ![x] = "closed"]
    /\ UNCHANGED <<status, origin, cart, returned, refunded, restocked, reversed, keys, stockOps>>

-----------------------------------------------------------------------------
(* Counter sales.                                                          *)

\* The transaction has checked its key and read the open session.
BeginSale(s, x, c) ==
    /\ status[s] = "none"
    /\ session[x] = "open"
    /\ c \in Carts
    /\ status' = [status EXCEPT ![s] = "pricing"]
    /\ origin' = [origin EXCEPT ![s] = x]
    /\ cart' = [cart EXCEPT ![s] = c]
    /\ UNCHANGED <<session, returned, refunded, restocked, reversed, keys, stockOps>>

\* Sale, items, payments, stock issues and cash movements are committed.
CommitSale(s) ==
    /\ status[s] = "pricing"
    /\ status' = [status EXCEPT ![s] = "confirmed"]
    /\ UNCHANGED <<session, origin, cart, returned, refunded, restocked, reversed, keys, stockOps>>

\* Insufficient stock, a payment mismatch or a crash: all is rolled back.
AbortSale(s) ==
    /\ status[s] = "pricing"
    /\ status' = [status EXCEPT ![s] = "none"]
    /\ origin' = [origin EXCEPT ![s] = None]
    /\ cart' = [cart EXCEPT ![s] = NoCart]
    /\ UNCHANGED <<session, returned, refunded, restocked, reversed, keys, stockOps>>

-----------------------------------------------------------------------------
(* Compensation of a confirmed sale, under its row lock.                   *)

Returnable(s, q) == \A l \in Lines : q[l] <= Sold(s)[l] - returned[s][l]

CreateSaleReturn(k, s, q) ==
    /\ status[s] = "confirmed"
    /\ FirstUse(returnOf, k)
    /\ Moved(q) # {}
    /\ Returnable(s, q)
    /\ Restock(s, k, q)
    /\ returned' = [returned EXCEPT ![s] = [l \in Lines |-> @[l] + q[l]]]
    /\ returnOf' = [returnOf EXCEPT ![k] = s]
    /\ UNCHANGED <<session, status, origin, cart, refunded, reversed, refundOf, cancelOf>>

Refundable(s, amount) == amount > 0 /\ amount <= Net(s) - RefundTotal(refunded[s])

\* ret is the SaleReturn the refund is for, or None.
CreateSaleRefund(k, s, m, amount, ret) ==
    /\ FirstUse(refundOf, k)
    /\ status[s] = "confirmed"
    /\ ret # None => returnOf[ret] = s
    /\ m = "cash" => InSession(s)
    /\ Refundable(s, amount)
    /\ refunded' = [refunded EXCEPT ![s][m] = @ + amount]
    /\ refundOf' = [refundOf EXCEPT ![k] = s]
    /\ UNCHANGED <<session, status, origin, cart, returned, restocked, reversed, returnOf, cancelOf, stockOps>>

\* remaining_by_method before the loop over the payments
Remaining(s, m) == Paid(s, m) - refunded[s][m]

Least(a, b) == IF a <= b THEN a ELSE b

\* remaining_by_method after each payment of one method: a payment is refunded as
\* far as anything of its method remains.
LeftAfter(amounts, remaining) ==
    LET left[i \in 0 .. Len(amounts)] ==
            IF i = 0 THEN remaining ELSE left[i - 1] - Least(amounts[i], left[i - 1])
    IN  left

\* Mutant: every payment is refunded, whatever was refunded before.
RefundsInFull(s, m) == Paid(s, m)

\* What the loop refunds of the payments made with method m.
AutoRefunds(s, m) ==
    Remaining(s, m) - LeftAfter(cart[s].pay[m], Remaining(s, m))[Len(cart[s].pay[m])]

IssuedTracked(s) == [l \in Lines |-> IF l \in Tracked THEN Sold(s)[l] ELSE 0]

\* Mutant: a sale with returned goods may still be cancelled.
CancellableAfterReturn(s) ==
    /\ status[s] = "confirmed"
    /\ cart[s].pay["other"] = <<>>
    /\ \A l \in Moved(IssuedTracked(s)) : <<s, l>> \notin reversed
    /\ \A m \in RefundMethods : Remaining(s, m) >= 0
    /\ cart[s].pay["cash"] # <<>> => InSession(s)

Cancellable(s) ==
    /\ status[s] = "confirmed"
    /\ returned[s] = Nothing
    /\ cart[s].pay["other"] = <<>>
    /\ \A l \in Moved(IssuedTracked(s)) : <<s, l>> \notin reversed
    /\ \A m \in RefundMethods : Remaining(s, m) >= 0
    /\ cart[s].pay["cash"] # <<>> => InSession(s)

CancelSale(k, s) ==
    /\ FirstUse(cancelOf, k)
    /\ Cancellable(s)
    /\ Restock(s, k, IssuedTracked(s))
    /\ refunded' = [refunded EXCEPT ![s] = [m \in RefundMethods |-> @[m] + AutoRefunds(s, m)]]
    /\ status' = [status EXCEPT ![s] = "cancelled"]
    /\ cancelOf' = [cancelOf EXCEPT ![k] = s]
    /\ UNCHANGED <<session, origin, cart, returned, reversed, returnOf, refundOf>>

\* inventory.reverse_operation on the issue of one line, which knows no sale.
ReverseIssue(s, l) ==
    /\ s \in Reversible
    /\ status[s] \in {"confirmed", "cancelled"}
    /\ l \in Moved(IssuedTracked(s))
    /\ <<s, l>> \notin reversed
    /\ reversed' = reversed \cup {<<s, l>>}
    /\ restocked' = [restocked EXCEPT ![s][l] = @ + Sold(s)[l]]
    /\ UNCHANGED <<session, status, origin, cart, returned, refunded, keys, stockOps>>

-----------------------------------------------------------------------------
Next ==
    \/ \E x \in Sessions : OpenSession(x) \/ CloseSession(x)
    \/ \E s \in Sales :
        \/ \E x \in Sessions, c \in Carts : BeginSale(s, x, c)
        \/ CommitSale(s)
        \/ AbortSale(s)
        \/ \E k \in ReturnKeys, q \in ReturnRequests : CreateSaleReturn(k, s, q)
        \/ \E k \in RefundKeys, m \in RefundMethods, ret \in ReturnKeys \cup {None}, amount \in 1 .. Net(s) :
            CreateSaleRefund(k, s, m, amount, ret)
        \/ \E k \in CancelKeys : CancelSale(k, s)
        \/ \E l \in Lines : ReverseIssue(s, l)

Spec == Init /\ [][Next]_vars

-----------------------------------------------------------------------------
(* What the compensation of a sale promises.                               *)

(***************************************************************************)
(* However refunds of several methods, their retries and a cancellation    *)
(* are interleaved, a customer never gets back more than the sale's net    *)
(* total (refundable_balance in _create_sale_refund_locked).               *)
(***************************************************************************)
RefundWithinNet == \A s \in Sales : RefundTotal(refunded[s]) <= Net(s)

(***************************************************************************)
(* All returns of a line together never exceed what the line sold          *)
(* (_already_returned_quantity under the sale's lock).                     *)
(***************************************************************************)
ReturnWithinSold == \A s \in Sales, l \in Lines : returned[s][l] <= Sold(s)[l]

(***************************************************************************)
(* A cancelled sale is compensated to the cent and by its own methods:     *)
(* whatever had been refunded before, the loop over the payments completes *)
(* each method exactly, and nothing was returned besides (cancel_sale).    *)
(***************************************************************************)
CancelledIsCompensated ==
    \A s \in Sales : status[s] = "cancelled" =>
        /\ \A m \in RefundMethods : refunded[s][m] = Paid(s, m)
        /\ RefundTotal(refunded[s]) = Net(s)
        /\ returned[s] = Nothing

(***************************************************************************)
(* However many cancellation keys compete for a sale, one of them cancels  *)
(* it, and returned quantities exist exactly when a return command was     *)
(* accepted: retries and competing keys leave one row per effect.          *)
(***************************************************************************)
EffectsHaveOneKey ==
    \A s \in Sales :
        /\ status[s] = "cancelled" <=> \E k \in CancelKeys : cancelOf[k] = s
        /\ \A j, k \in CancelKeys : cancelOf[j] = s /\ cancelOf[k] = s => j = k
        /\ returned[s] # Nothing <=> \E k \in ReturnKeys : returnOf[k] = s

(***************************************************************************)
(* Stock takes back of a product line what the sale's compensation owes    *)
(* it: the returned quantity, or everything once the sale is cancelled,    *)
(* besides what inventory reversed itself.  It never takes back more.  It  *)
(* takes back less only if a client used one key both for a return and for *)
(* a cancellation: the receipts of the later command are then found under  *)
(* the keys of the earlier one (create_operation), and move nothing.       *)
(***************************************************************************)
Owed(s, l) ==
    (IF status[s] = "cancelled" THEN Sold(s)[l] ELSE returned[s][l])
        + (IF <<s, l>> \in reversed THEN Sold(s)[l] ELSE 0)

UsedTwice(k) ==
    k \in ReturnKeys \cap CancelKeys /\ returnOf[k] # None /\ cancelOf[k] # None

SharesKey(s) ==
    \/ \E k \in ReturnKeys : UsedTwice(k) /\ returnOf[k] = s
    \/ \E k \in CancelKeys : UsedTwice(k) /\ cancelOf[k] = s

StockFollowsCompensation ==
    \A s \in Sales, l \in Tracked :
        /\ restocked[s][l] <= Owed(s, l)
        /\ ~SharesKey(s) => restocked[s][l] = Owed(s, l)

(***************************************************************************)
(* A sale of which stock took back less than it owes, and a service that a *)
(* return put into stock: both happen (MCSale_shared_key.cfg,              *)
(* MCSale_service.cfg).                                                    *)
(***************************************************************************)
StockTakesAllBack == \A s \in Sales, l \in Tracked : restocked[s][l] >= Owed(s, l)

ServicesKeepNoStock == \A s \in Sales, l \in Lines \ Tracked : restocked[s][l] = 0

(***************************************************************************)
(* Facts are compensated, never rewritten: a confirmed sale keeps its      *)
(* items, payments and session, its refunds and returns only grow, and a   *)
(* cancelled sale accepts no further refund or return.                     *)
(***************************************************************************)
AppendsFacts ==
    \A s \in Sales : status[s] \in {"confirmed", "cancelled"} =>
        /\ cart'[s] = cart[s] /\ origin'[s] = origin[s]
        /\ \A m \in RefundMethods : refunded'[s][m] >= refunded[s][m]
        /\ \A l \in Lines : returned'[s][l] >= returned[s][l]
        /\ status[s] = "cancelled" =>
            /\ status'[s] = "cancelled"
            /\ refunded'[s] = refunded[s]
            /\ returned'[s] = returned[s]

FactsOnlyGrow == [][AppendsFacts]_vars

(***************************************************************************)
(* The service implements the contract of CompensationContract: a sale     *)
(* exists for it from its commit on, refunds are money paid back, returns  *)
(* are goods taken back, and a cancelled sale has given back everything.   *)
(***************************************************************************)
Committed(s) == status[s] \in {"confirmed", "cancelled"}

contractState == [s \in Sales |-> IF Committed(s) THEN status[s] ELSE "none"]
contractTotal == [s \in Sales |-> IF Committed(s) THEN Net(s) ELSE 0]
contractGoods == [s \in Sales |-> IF Committed(s) THEN Sold(s) ELSE Nothing]
contractPaidBack == [s \in Sales |-> RefundTotal(refunded[s])]
contractTakenBack == [s \in Sales |-> IF status[s] = "cancelled" THEN Sold(s) ELSE returned[s]]

Contract == INSTANCE CompensationContract WITH
    state <- contractState, total <- contractTotal, goods <- contractGoods,
    paidBack <- contractPaidBack, takenBack <- contractTakenBack

HonoursContract == Contract!Spec
=============================================================================
