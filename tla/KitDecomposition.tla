-------------------------- MODULE KitDecomposition --------------------------
(***************************************************************************)
(* The consumer of sales.sale.confirmed (backend/inventory/consumers.py)   *)
(* run by the outbox: for every sold kit it issues the kit's components    *)
(* from stock (backend/inventory/kit_decomposition.py).  Everything runs   *)
(* in the transaction of process_outbox.                                   *)
(***************************************************************************)
EXTENDS Outbox, Functions

CONSTANTS Lines,      \* sale items whose product is a kit
          KitLines,   \* those of the sale of each message
          Components, \* products that kits are made of
          Needs,      \* Needs[l][c]: composition quantity times quantity sold
          Opening,    \* balance of each component before
          MaxStock,   \* bound: receipts stop at this balance
          NoLine

ASSUME KitAssumption ==
    /\ IsFiniteSet(Messages) /\ IsFiniteSet(Lines)
    /\ KitLines \in [Messages -> SUBSET Lines]
    /\ Needs \in [Lines -> [Components -> Nat]]
    /\ Opening \in [Components -> Nat]
    /\ MaxStock \in Nat
    /\ NoLine \notin Lines

VARIABLES stock,    \* committed balance of a component
          moved,    \* moved[m][l]: times the components of l were issued
          received, \* bookkeeping of the receipts
          left,     \* lines the handler has yet to visit
          line,     \* line whose shortages were checked
          drawn,    \* lines whose movements the transaction of the task wrote
          taken     \* and what it took from the balance of each component

kitVars == <<stock, moved, received, left, line, drawn, taken>>
vars == <<outboxVars, kitVars>>

TypeOK ==
    /\ OutboxTypeOK
    /\ stock \in [Components -> Int]
    /\ moved \in [Messages -> [Lines -> Nat]]
    /\ received \in [Components -> Nat]
    /\ left \in [Tasks -> SUBSET Lines]
    /\ line \in [Tasks -> Lines \cup {NoLine}]
    /\ drawn \in [Tasks -> SUBSET Lines]
    /\ taken \in [Tasks -> [Components -> Nat]]

Nothing == [c \in Components |-> 0]

Init ==
    /\ OutboxInit
    /\ stock = Opening
    /\ moved = [m \in Messages |-> [l \in Lines |-> 0]]
    /\ received = Nothing
    /\ left = [t \in Tasks |-> {}]
    /\ line = [t \in Tasks |-> NoLine]
    /\ drawn = [t \in Tasks |-> {}]
    /\ taken = [t \in Tasks |-> Nothing]

-----------------------------------------------------------------------------
\* Mutant: the quantity sold is left out.
OneOfEach(l, c) == IF Needs[l][c] > 0 THEN 1 ELSE 0

\* What the balance of a component is lowered by for a line.
Quantity(l, c) == Needs[l][c]

\* Mutant: operations of earlier transactions are not looked up.
KeyTakenHere(t, l) == drawn[t] # {}

\* An operation with the key of the message exists: the key names the
\* message and not the line.
KeyTaken(t, l) == drawn[t] # {} \/ \E k \in Lines : moved[MessageOf[t]][k] > 0

\* Every component has the quantity, read without a lock.
Enough(t, l) == \A c \in Components : stock[c] - taken[t][c] >= Needs[l][c]

\* No other transaction has changed the component rows of the line.
RowsFree(t, l) ==
    \A u \in Tasks \ {t}, c \in Components :
        Needs[l][c] > 0 => taken[u][c] = 0

\* The savepoint and the transaction of the task are gone.
Discard(t) ==
    /\ left' = [left EXCEPT ![t] = {}]
    /\ line' = [line EXCEPT ![t] = NoLine]
    /\ drawn' = [drawn EXCEPT ![t] = {}]
    /\ taken' = [taken EXCEPT ![t] = Nothing]

-----------------------------------------------------------------------------
Schedule(t) == Enqueue(t) /\ UNCHANGED kitVars

Pass(t) == (LookupFails(t) \/ Skip(t) \/ RecordFailure(t)) /\ UNCHANGED kitVars

\* The handler reads the items of the sale.
Consume(t) ==
    /\ Begin(t)
    /\ left' = [left EXCEPT ![t] = KitLines[MessageOf[t]]]
    /\ UNCHANGED <<stock, moved, received, line, drawn, taken>>

\* decompose_kit_sale returns at once when the key is taken.
Ignore(t, l) ==
    /\ At(t, "handling")
    /\ line[t] = NoLine
    /\ l \in left[t]
    /\ KeyTaken(t, l)
    /\ left' = [left EXCEPT ![t] = @ \ {l}]
    /\ UNCHANGED <<outboxVars, stock, moved, received, line, drawn, taken>>

\* decompose_kit_sale up to the end of the check for shortages.
CheckLine(t, l) ==
    /\ At(t, "handling")
    /\ line[t] = NoLine
    /\ l \in left[t]
    /\ ~KeyTaken(t, l)
    /\ Enough(t, l)
    /\ line' = [line EXCEPT ![t] = l]
    /\ UNCHANGED <<outboxVars, stock, moved, received, left, drawn, taken>>

\* The rest of decompose_kit_sale: operation, movements and balances.
IssueLine(t) ==
    /\ At(t, "handling")
    /\ line[t] # NoLine
    /\ RowsFree(t, line[t])
    /\ drawn' = [drawn EXCEPT ![t] = @ \cup {line[t]}]
    /\ taken' = [taken EXCEPT ![t] = [c \in Components |-> @[c] + Quantity(line[t], c)]]
    /\ left' = [left EXCEPT ![t] = @ \ {line[t]}]
    /\ line' = [line EXCEPT ![t] = NoLine]
    /\ UNCHANGED <<outboxVars, stock, moved, received>>

\* The transaction commits.
Complete(t) ==
    /\ left[t] = {}
    /\ line[t] = NoLine
    /\ Publish(t)
    /\ stock' = [c \in Components |-> stock[c] - taken[t][c]]
    /\ moved' = [moved EXCEPT ![MessageOf[t]] =
                   [l \in Lines |-> IF l \in drawn[t] THEN @[l] + 1 ELSE @[l]]]
    /\ Discard(t)
    /\ UNCHANGED received

\* Mutant: the handler commits on its own.
RollbackAfterCommit(t) ==
    /\ HandlerFails(t)
    /\ stock' = [c \in Components |-> stock[c] - taken[t][c]]
    /\ moved' = [moved EXCEPT ![MessageOf[t]] =
                   [l \in Lines |-> IF l \in drawn[t] THEN @[l] + 1 ELSE @[l]]]
    /\ Discard(t)
    /\ UNCHANGED received

\* A shortage, a kit without composition, or any other error.
Rollback(t) == HandlerFails(t) /\ Discard(t) /\ UNCHANGED <<stock, moved, received>>

Die(t) == Lose(t) /\ Discard(t) /\ UNCHANGED <<stock, moved, received>>

\* A receipt of the component, by the stock services.
Receive(c) ==
    /\ stock[c] < MaxStock
    /\ \A u \in Tasks : taken[u][c] = 0
    /\ stock' = [stock EXCEPT ![c] = @ + 1]
    /\ received' = [received EXCEPT ![c] = @ + 1]
    /\ UNCHANGED <<outboxVars, moved, left, line, drawn, taken>>

-----------------------------------------------------------------------------
TaskStep(t) ==
    \/ Pass(t)
    \/ Consume(t)
    \/ \E l \in Lines : Ignore(t, l) \/ CheckLine(t, l)
    \/ IssueLine(t)
    \/ Complete(t)
    \/ Rollback(t)

Next ==
    \/ \E t \in Tasks : Schedule(t) \/ TaskStep(t) \/ Die(t)
    \/ \E c \in Components : Receive(c)

Spec == Init /\ [][Next]_vars

\* A worker that is alive runs the tasks it has, in any order.
FairSpec == Spec /\ WF_vars(\E t \in Tasks : TaskStep(t))

-----------------------------------------------------------------------------
\* The reprocessing of a message, by a retry, by a duplicate task or after a
\* failure recorded late over a published message, issues nothing twice.
IssuedOnce == \A m \in Messages, l \in Lines : moved[m][l] <= 1

\* What a stored delivery has done, whatever attempts failed before it: the
\* components of one kit of the sale have left stock, once; those of its other
\* kits, if it has several, have not, and nothing has without a delivery.  That
\* only one is decomposed is no wish of the design: see AllKitsIssued.
EffectIsDelivered ==
    \A m \in Messages :
        IF m \in delivered /\ KitLines[m] # {}
        THEN \E l \in KitLines[m] : moved[m] = [k \in Lines |-> IF k = l THEN 1 ELSE 0]
        ELSE \A l \in Lines : moved[m][l] = 0

\* The movements of a component for a message, and for all of them.
IssuedFor(m, c) == SumFunctionOnSet([l \in Lines |-> moved[m][l] * Needs[l][c]], Lines)
Issued(c) == SumFunctionOnSet([m \in Messages |-> IssuedFor(m, c)], Messages)

\* Balances are the opening balances, plus the receipts, less the movements.
StockReconciled ==
    \A c \in Components : stock[c] = Opening[c] + received[c] - Issued(c)

\* Every kit of a sale is decomposed once the message is published ("vender um
\* kit gera exatamente um StockMovement de saida por componente", sprint 23
\* design, line 152).  It is not: the lines share the message's key, so that all
\* but the first are skipped as done and the message is published all the same.
AllKitsIssued ==
    \A m \in Messages :
        status[m] = "PUBLISHED" => \A l \in KitLines[m] : moved[m][l] = 1
=============================================================================
