------------------------------ MODULE StockLedger ------------------------------
(***************************************************************************)
(* The stock services (backend/inventory/services/operations.py): receipts,*)
(* issues, adjustments, transfers and reversals, each stored once under a  *)
(* client's idempotency key, move the balance of a product at a location;  *)
(* reservations hold part of it.                                           *)
(*                                                                         *)
(* A request is one READ COMMITTED transaction.  It looks its key up,      *)
(* inserts the operation, computes new balances under row locks and        *)
(* commits.  An insert whose key another transaction has inserted waits    *)
(* for that transaction and fails if it commits.  When a movement fails,   *)
(* what is lost depends on the caller: transfers, reversals and the stock  *)
(* steps of a sale or a purchase are one savepoint and lose the operation  *)
(* too; receipts, issues and adjustments sent to the inventory API are     *)
(* not, the API turns the error into an answer and the transaction that    *)
(* the tenant middleware opened commits the operation without a movement.  *)
(*                                                                         *)
(* Quantities are in base units.  Lot and expiry rules and the precision   *)
(* of units only refuse requests, before anything is stored, and are left  *)
(* out.                                                                    *)
(***************************************************************************)
EXTENDS Integers, Sequences, FiniteSets, Functions

CONSTANTS
    Cells,      \* a product at a location, with its lot if it has one
    LotCells,   \* those with a lot: to the unique constraint, two null lots differ
    Lenient,    \* cells whose policy may allow negative stock
    Keys,       \* idempotency keys
    Requests,   \* requests, retries included
    Key,        \* the key each one carries
    Command,    \* what it asks: a change of the cells, or the reversal of a key's operation
    Atomic,     \* requests that lose the operation with a failed movement
    Holds,      \* quantities that are reserved or released
    None

Deltas == [Cells -> Int]
Commands == [delta : Deltas, of : Keys \cup {None}]

ASSUME CellsAssumption == LotCells \subseteq Cells /\ Lenient \subseteq Cells
ASSUME KeysAssumption == IsFiniteSet(Keys) /\ None \notin Keys
ASSUME RequestsAssumption ==
    Key \in [Requests -> Keys] /\ Command \in [Requests -> Commands] /\ Atomic \subseteq Requests
ASSUME ReversalsAreAtomic == \A r \in Requests : Command[r].of # None => r \in Atomic
ASSUME HoldsAssumption == Holds \subseteq Nat \ {0}

VARIABLES
    balance,    \* the quantities of a cell's balance rows
    reserved,   \* what is reserved of it
    lenient,    \* cells whose active policy allows negative stock
    status,     \* of the operation stored under a key, "none" without one
    command,    \* what that operation was stored for
    moved,      \* the sum of its movements
    applied,    \* how many times its movements were written
    phase,      \* how far each request is
    inserted,   \* requests that inserted their operation and have not committed
    plan,       \* what a request has computed under its locks
    torn        \* history: keys stored without their movement, and of their reversals

vars == <<balance, reserved, lenient, status, command, moved, applied, phase, inserted, plan,
          torn>>

Zero == [c \in Cells |-> 0]
Nothing == [delta |-> Zero, of |-> None]
NoPlan == [delta |-> Zero, fresh |-> {}, next |-> Zero]

TypeOK ==
    /\ balance \in [Cells -> Seq(Int)]
    /\ reserved \in [Cells -> Nat]
    /\ lenient \subseteq Lenient
    /\ status \in [Keys -> {"none", "confirmed", "reversed"}]
    /\ command \in [Keys -> Commands]
    /\ moved \in [Keys -> Deltas]
    /\ applied \in [Keys -> Nat]
    /\ phase \in [Requests -> {"idle", "started", "absent", "moving", "moved", "done"}]
    /\ inserted \subseteq Requests
    /\ plan \in [Requests -> [delta : Deltas, fresh : SUBSET Cells, next : Deltas]]
    /\ torn \subseteq Keys

Init ==
    /\ balance = [c \in Cells |-> <<>>]
    /\ reserved = [c \in Cells |-> 0]
    /\ lenient = {}
    /\ status = [k \in Keys |-> "none"]
    /\ command = [k \in Keys |-> Nothing]
    /\ moved = [k \in Keys |-> Zero]
    /\ applied = [k \in Keys |-> 0]
    /\ phase = [r \in Requests |-> IF Command[r].of = None THEN "started" ELSE "idle"]
    /\ inserted = {}
    /\ plan = [r \in Requests |-> NoPlan]
    /\ torn = {}

IsReversal(r) == Command[r].of # None
Touched(delta) == {c \in Cells : delta[c] # 0}

\* What get_or_create finds; a new row starts at zero.
OnHand(c) == IF balance[c] = <<>> THEN 0 ELSE balance[c][1]

\* Mutant: no constraint stops two inserts of the row of a lot.
LocksRowsOnly(q) == Touched(plan[q].delta) \ plan[q].fresh

\* SELECT ... FOR UPDATE; a row that is being inserted blocks only under the constraint.
Locks(q) == (Touched(plan[q].delta) \ plan[q].fresh) \cup (plan[q].fresh \cap LotCells)

\* Mutant: no row is locked before it is changed.
AnyTime(cells) == TRUE
Unlocked(cells) == \A q \in Requests : phase[q] = "moved" => cells \cap Locks(q) = {}

Reversed(k) == \E q \in Keys : status[q] # "none" /\ command[q].of = k

-----------------------------------------------------------------------------
(* Operations.                                                             *)

Goto(r, p) == phase' = [phase EXCEPT ![r] = p]

\* reverse_operation tests its original first; the others start with the lookup.
Begin(r) ==
    /\ phase[r] = "idle"
    /\ status[Command[r].of] # "none"
    /\ Goto(r, IF status[Command[r].of] = "confirmed" /\ ~Reversed(Command[r].of)
               THEN "started" ELSE "done")
    /\ UNCHANGED <<balance, reserved, lenient, status, command, moved, applied, inserted, plan,
                   torn>>

\* An operation found without movements gets them now; a reversal does not look.
Unmoved(r) == IsReversal(r) \/ applied[Key[r]] = 0

Lookup(r) ==
    /\ phase[r] = "started"
    /\ Goto(r, IF status[Key[r]] = "none" THEN "absent"
               ELSE IF command[Key[r]] = Command[r] /\ Unmoved(r) THEN "moving"
               ELSE "done")
    /\ UNCHANGED <<balance, reserved, lenient, status, command, moved, applied, inserted, plan,
                   torn>>

\* Mutant: the constraint on the key is missing.
InsertUnchecked(r) ==
    /\ phase[r] = "absent"
    /\ Goto(r, "moving")
    /\ inserted' = inserted \cup {r}
    /\ UNCHANGED <<balance, reserved, lenient, status, command, moved, applied, plan, torn>>

\* uniq_stockoperation_tenant_idempotency: wait for an insert, fail if it commits.
Insert(r) ==
    /\ phase[r] = "absent"
    /\ \A q \in inserted : Key[q] # Key[r]
    /\ IF status[Key[r]] = "none"
       THEN Goto(r, "moving") /\ inserted' = inserted \cup {r}
       ELSE Goto(r, "done") /\ UNCHANGED inserted
    /\ UNCHANGED <<balance, reserved, lenient, status, command, moved, applied, plan, torn>>

\* Mutant: a reversal repeats the movements of its original.
DeltaOfSameSign(r) == IF IsReversal(r) THEN moved[Command[r].of] ELSE Command[r].delta

DeltaOf(r) ==
    IF IsReversal(r) THEN [c \in Cells |-> -moved[Command[r].of][c]] ELSE Command[r].delta

\* StockBalance.clean
Balanced(quantity, held) == IF quantity < 0 THEN held = 0 ELSE held <= quantity

\* Mutant: what is reserved counts as available.
FitsIgnoringHolds(c, quantity) ==
    /\ Len(balance[c]) <= 1
    /\ quantity < 0 => c \in lenient

\* get() raises for two rows; _apply_balance_delta and full_clean check the rest.
Fits(c, quantity) ==
    /\ Len(balance[c]) <= 1
    /\ quantity < 0 => c \in lenient
    /\ Balanced(quantity, reserved[c])

Move(r) ==
    LET delta == DeltaOf(r)
        next == [c \in Cells |-> OnHand(c) + delta[c]]
    IN  /\ phase[r] = "moving"
        /\ Unlocked(Touched(delta))
        /\ \A c \in Touched(delta) : Fits(c, next[c])
        /\ Goto(r, "moved")
        /\ plan' = [plan EXCEPT ![r] =
               [delta |-> delta, next |-> next,
                fresh |-> {c \in Touched(delta) : balance[c] = <<>>}]]
        /\ UNCHANGED <<balance, reserved, lenient, status, command, moved, applied, inserted, torn>>

Store(r) ==
    /\ status' = [status EXCEPT ![Key[r]] = "confirmed"]
    /\ command' = [command EXCEPT ![Key[r]] = Command[r]]
    /\ torn' = torn \cup {Key[r]}

\* The movement fails; what the request inserted survives unless it is one savepoint.
Refuse(r) ==
    LET delta == DeltaOf(r)
    IN  /\ phase[r] = "moving"
        /\ Unlocked(Touched(delta))
        /\ \E c \in Touched(delta) : ~Fits(c, OnHand(c) + delta[c])
        /\ Goto(r, "done")
        /\ inserted' = inserted \ {r}
        /\ IF r \in inserted \ Atomic THEN Store(r) ELSE UNCHANGED <<status, command, torn>>
        /\ UNCHANGED <<balance, reserved, lenient, moved, applied, plan>>

Written(r, c) ==
    IF c \notin Touched(plan[r].delta) THEN balance[c]
    ELSE IF c \in plan[r].fresh THEN Append(balance[c], plan[r].delta[c])
    ELSE [balance[c] EXCEPT ![1] = plan[r].next[c]]

\* uniq_stockoperationreversal_original
MayReverse(r) == IsReversal(r) => ~Reversed(Command[r].of)

\* The reversal is linked to its original, which is marked.
StatusAfter(r) ==
    [k \in Keys |-> IF k = Key[r] /\ r \in inserted THEN "confirmed"
                    ELSE IF k = Command[r].of THEN "reversed" ELSE status[k]]

Commit(r) ==
    /\ phase[r] = "moved"
    /\ MayReverse(r)
    /\ Goto(r, "done")
    /\ inserted' = inserted \ {r}
    /\ balance' = [c \in Cells |-> Written(r, c)]
    /\ status' = StatusAfter(r)
    /\ command' = IF r \in inserted THEN [command EXCEPT ![Key[r]] = Command[r]] ELSE command
    /\ moved' = [moved EXCEPT ![Key[r]] = [c \in Cells |-> @[c] + plan[r].delta[c]]]
    /\ applied' = [applied EXCEPT ![Key[r]] = @ + 1]
    /\ torn' = IF Command[r].of \in torn THEN torn \cup {Key[r]} ELSE torn
    /\ plan' = [plan EXCEPT ![r] = NoPlan]
    /\ UNCHANGED <<reserved, lenient>>

\* The transaction rolls back: a constraint, a lost connection, the rest of a larger
\* command.  Before the insert that leaves nothing: such a request takes no more steps.
Abort(r) ==
    /\ phase[r] \in {"moving", "moved"}
    /\ Goto(r, "done")
    /\ inserted' = inserted \ {r}
    /\ plan' = [plan EXCEPT ![r] = NoPlan]
    /\ UNCHANGED <<balance, reserved, lenient, status, command, moved, applied, torn>>

-----------------------------------------------------------------------------
(* Reservations and policies.                                              *)

Reserve(c, held) ==
    /\ Len(balance[c]) = 1
    /\ Unlocked({c})
    /\ reserved[c] + held <= OnHand(c)
    /\ reserved' = [reserved EXCEPT ![c] = @ + held]
    /\ UNCHANGED <<balance, lenient, status, command, moved, applied, phase, inserted, plan, torn>>

Rest(held, released) == IF released >= held THEN 0 ELSE held - released

Release(c, held) ==
    /\ Len(balance[c]) = 1
    /\ Unlocked({c})
    /\ Balanced(OnHand(c), Rest(reserved[c], held))
    /\ reserved' = [reserved EXCEPT ![c] = Rest(@, held)]
    /\ UNCHANGED <<balance, lenient, status, command, moved, applied, phase, inserted, plan, torn>>

SetPolicy(c) ==
    /\ lenient' = IF c \in lenient THEN lenient \ {c} ELSE lenient \cup {c}
    /\ UNCHANGED <<balance, reserved, status, command, moved, applied, phase, inserted, plan, torn>>

Next ==
    \/ \E r \in Requests :
        \/ Begin(r) \/ Lookup(r) \/ Insert(r) \/ Move(r) \/ Refuse(r) \/ Commit(r) \/ Abort(r)
    \/ \E c \in Cells, held \in Holds : Reserve(c, held) \/ Release(c, held)
    \/ \E c \in Lenient : SetPolicy(c)

Spec == Init /\ [][Next]_vars

-----------------------------------------------------------------------------
(* What holds of every use of the services.                                *)

Sum(f) == FoldFunction(+, 0, f)

(***************************************************************************)
(* "Saldo deriva dos movimentos": the balance rows of a cell add up to all *)
(* movements ever written for it, however many requests and retries        *)
(* computed new balances at once.  (reconcile_stock_balances compares the  *)
(* same two figures, but of the two rows that a cell without a lot may     *)
(* have it looks at one only.)                                             *)
(***************************************************************************)
Reconciled == \A c \in Cells : Sum(balance[c]) = Sum([k \in Keys |-> moved[k][c]])

(***************************************************************************)
(* Stock is negative only where a policy may allow it, and then nothing of *)
(* it is reserved; elsewhere reservations never exceed what is there, even *)
(* when they race with an issue of the same stock.                         *)
(***************************************************************************)
StockCovers ==
    \A c \in Cells :
        /\ \A i \in DOMAIN balance[c] : balance[c][i] < 0 => c \in Lenient
        /\ Len(balance[c]) = 1 => Balanced(balance[c][1], reserved[c])

(***************************************************************************)
(* An operation is reversed at most once, although the status a reversal   *)
(* tests may be stale when it writes: the reversals' unique constraint     *)
(* decides.                                                                *)
(***************************************************************************)
Reversals(k) == {q \in Keys : status[q] # "none" /\ command[q].of = k}

ReversedOnce ==
    \A k \in Keys : Cardinality(Reversals(k)) = (IF status[k] = "reversed" THEN 1 ELSE 0)

(***************************************************************************)
(* There is one balance row per cell that has a lot ("constraint unica     *)
(* representa uma linha de saldo por dimensao"), also when two first       *)
(* movements race.  The design says it of every cell: where the lot is     *)
(* null it does not hold.                                                  *)
(***************************************************************************)
OneRow == \A c \in LotCells : Len(balance[c]) <= 1

OneRowEach == \A c \in Cells : Len(balance[c]) <= 1

-----------------------------------------------------------------------------
(* What holds of every operation but the torn ones: those that a refused   *)
(* receipt, issue or adjustment of the inventory API left without their    *)
(* movement.  Two retries of a torn one may each write the movement, and   *)
(* its reversal may come before them and take back nothing.                *)

(***************************************************************************)
(* A retried command is applied once ("Retry repetido produz um            *)
(* resultado"): no operation has its movements written twice.              *)
(***************************************************************************)
AppliedOnce == \A k \in Keys \ torn : applied[k] <= 1

(***************************************************************************)
(* A stored operation has its movements: if the balance does not cover the *)
(* quantity, no part of the operation is stored.                           *)
(***************************************************************************)
StoredWhole == \A k \in Keys \ torn : status[k] # "none" => applied[k] >= 1

(***************************************************************************)
(* A reversed operation and its reversal cancel out: together they leave   *)
(* every balance as it was, whoever retried the operation meanwhile.       *)
(***************************************************************************)
ReversalCancels ==
    \A k \in Keys \ torn : \A q \in Reversals(k) : \A c \in Cells :
        moved[k][c] + moved[q][c] = 0

\* The design's own words, which the torn operations refute.
AppliedOnceEach == \A k \in Keys : applied[k] <= 1
EveryReversalCancels ==
    \A k \in Keys : \A q \in Reversals(k) : \A c \in Cells : moved[k][c] + moved[q][c] = 0

(***************************************************************************)
(* The requests implement the book: whatever interleaves, is refused,      *)
(* aborts and is retried, each operation happens once, whole, at its       *)
(* commit.  The torn ones are in no book: what they moved is taken off.    *)
(***************************************************************************)
TornTotal(c) == Sum([k \in torn |-> moved[k][c]])

Book == INSTANCE StockBook WITH
    Postings <- {Command[r].delta : r \in Requests},
    status <- [k \in Keys |-> IF k \in torn THEN "none" ELSE status[k]],
    command <- [k \in Keys |-> IF k \in torn THEN Nothing ELSE command[k]],
    moved <- [k \in Keys |-> IF k \in torn THEN Zero ELSE moved[k]],
    onHand <- [c \in Cells |-> Sum(balance[c]) - TornTotal(c)]

HonoursBook == Book!BookSpec
=============================================================================
