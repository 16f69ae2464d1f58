--------------------------- MODULE StockLedgerProofs ---------------------------
(***************************************************************************)
(* Proofs about StockLedger: types, one reversal per operation, whole      *)
(* operations, one row per cell with a lot, cover of reservations, rows    *)
(* that add up to the movements, and that the requests implement           *)
(* StockBook.  None of them assumes anything of the requests.              *)
(***************************************************************************)
EXTENDS StockLedger, SequenceTheorems, Sums

-----------------------------------------------------------------------------
(* Types.                                                                  *)

LEMMA CommandType ==
    ASSUME NEW r \in Requests
    PROVE  Key[r] \in Keys /\ Command[r] \in Commands /\ Command[r].delta \in Deltas
           /\ Command[r].of \in Keys \cup {None}
           /\ (IsReversal(r) => Command[r].of \in Keys)
BY RequestsAssumption DEF Commands, IsReversal

LEMMA OnHandType ==
    ASSUME TypeOK, NEW c \in Cells
    PROVE  OnHand(c) \in Int
<1>1. balance[c] \in Seq(Int)
    BY DEF TypeOK
<1> QED
    BY <1>1 DEF OnHand

LEMMA DeltaType ==
    ASSUME TypeOK, NEW r \in Requests
    PROVE  DeltaOf(r) \in Deltas
<1>1. CASE IsReversal(r)
  <2>1. moved[Command[r].of] \in Deltas
      BY <1>1, CommandType DEF TypeOK
  <2> QED
      BY <1>1, <2>1 DEF DeltaOf, Deltas
<1>2. CASE ~IsReversal(r)
    BY <1>2, CommandType DEF DeltaOf
<1> QED
    BY <1>1, <1>2

LEMMA WrittenType ==
    ASSUME TypeOK, NEW r \in Requests, NEW c \in Cells
    PROVE  Written(r, c) \in Seq(Int)
<1>1. balance[c] \in Seq(Int) /\ plan[r].delta[c] \in Int /\ plan[r].next[c] \in Int
    BY DEF TypeOK, Deltas
<1>2. Append(balance[c], plan[r].delta[c]) \in Seq(Int)
    BY <1>1
<1>3. [balance[c] EXCEPT ![1] = plan[r].next[c]] \in Seq(Int)
  <2>1. balance[c] \in [1 .. Len(balance[c]) -> Int] /\ Len(balance[c]) \in Nat
      BY <1>1
  <2>2. [balance[c] EXCEPT ![1] = plan[r].next[c]] \in [1 .. Len(balance[c]) -> Int]
      BY <1>1, <2>1
  <2> QED
      BY <2>1, <2>2, SeqDef
<1> QED
    BY <1>1, <1>2, <1>3 DEF Written

LEMMA NoPlanType == NoPlan \in [delta : Deltas, fresh : SUBSET Cells, next : Deltas]
<1>1. Zero \in Deltas
    BY DEF Zero, Deltas
<1> QED
    BY <1>1 DEF NoPlan

\* Only Move makes a plan; a request that ends forgets its own.
LEMMA WalkKeepsPlans ==
    ASSUME TypeOK, NEW r \in Requests, Begin(r) \/ Lookup(r) \/ Insert(r) \/ Refuse(r) \/ Abort(r)
    PROVE  \A q \in Requests : phase'[q] = "moved" => phase[q] = "moved" /\ plan'[q] = plan[q]
<1>1. ASSUME NEW q \in Requests, phase'[q] = "moved"
      PROVE  q # r /\ phase[q] = "moved"
    BY <1>1 DEF TypeOK, Begin, Lookup, Insert, Refuse, Abort, Goto
<1>2. ASSUME NEW q \in Requests, q # r
      PROVE  plan'[q] = plan[q]
    BY <1>2 DEF TypeOK, Begin, Lookup, Insert, Refuse, Abort
<1> QED
    BY <1>1, <1>2

(***************************************************************************)
(* Every step keeps the types: balances stay sequences of integers through *)
(* both ways of writing them, and releases stop at zero.                   *)
(***************************************************************************)
LEMMA TypeStep ==
    ASSUME TypeOK, [Next]_vars
    PROVE  TypeOK'
<1>1. ASSUME NEW r \in Requests, Begin(r) \/ Lookup(r) \/ Insert(r)
      PROVE  TypeOK'
    BY <1>1 DEF Begin, Lookup, Insert, Goto, TypeOK
<1>8. ASSUME NEW r \in Requests, Abort(r)
      PROVE  TypeOK'
    BY <1>8, NoPlanType DEF Abort, Goto, TypeOK
<1>2. ASSUME NEW r \in Requests, Move(r)
      PROVE  TypeOK'
  <2> DEFINE delta == DeltaOf(r)
             next == [c \in Cells |-> OnHand(c) + delta[c]]
             fresh == {c \in Touched(delta) : balance[c] = <<>>}
  <2>1. delta \in Deltas
      BY DeltaType
  <2>2. next \in Deltas
      BY <2>1, OnHandType DEF Deltas
  <2>3. fresh \in SUBSET Cells
      BY DEF Touched
  <2>4. plan' = [plan EXCEPT ![r] = [delta |-> delta, next |-> next, fresh |-> fresh]]
      BY <1>2 DEF Move
  <2> HIDE DEF delta, next, fresh
  <2>5. plan' \in [Requests -> [delta : Deltas, fresh : SUBSET Cells, next : Deltas]]
      BY <2>1, <2>2, <2>3, <2>4 DEF TypeOK
  <2> QED
      BY <1>2, <2>5 DEF Move, Goto, TypeOK
<1>3. ASSUME NEW r \in Requests, Refuse(r)
      PROVE  TypeOK'
    BY <1>3, CommandType DEF Refuse, Store, Goto, TypeOK
<1>4. ASSUME NEW r \in Requests, Commit(r)
      PROVE  TypeOK'
  <2>1. balance' \in [Cells -> Seq(Int)]
      BY <1>4, WrittenType DEF Commit
  <2>2. [c \in Cells |-> moved[Key[r]][c] + plan[r].delta[c]] \in Deltas
      BY CommandType DEF TypeOK, Deltas
  <2>3. moved' \in [Keys -> Deltas]
    <3>1. moved' = [moved EXCEPT ![Key[r]] = [c \in Cells |-> moved[Key[r]][c] + plan[r].delta[c]]]
        BY <1>4 DEF Commit
    <3> QED
        BY <2>2, <3>1 DEF TypeOK
  <2>5. applied' \in [Keys -> Nat]
      BY <1>4, CommandType DEF Commit, TypeOK
  <2>4. command' \in [Keys -> Commands]
      BY <1>4, CommandType DEF Commit, TypeOK
  <2>6. status' \in [Keys -> {"none", "confirmed", "reversed"}]
      BY <1>4 DEF Commit, StatusAfter, TypeOK
  <2>7. plan' \in [Requests -> [delta : Deltas, fresh : SUBSET Cells, next : Deltas]]
      BY <1>4, NoPlanType DEF Commit, TypeOK
  <2>8. torn' \subseteq Keys
      BY <1>4, CommandType DEF Commit, TypeOK
  <2> QED
      BY <1>4, <2>1, <2>3, <2>4, <2>5, <2>6, <2>7, <2>8 DEF Commit, Goto, TypeOK
<1>5. ASSUME NEW c \in Cells, NEW held \in Holds, Reserve(c, held) \/ Release(c, held)
      PROVE  TypeOK'
  <2>1. reserved[c] \in Nat /\ held \in Nat /\ reserved[c] + held \in Nat
      BY HoldsAssumption DEF TypeOK
  <2>2. Rest(reserved[c], held) \in Nat
      BY <2>1 DEF Rest
  <2>3. reserved' \in [Cells -> Nat]
      BY <1>5, <2>1, <2>2 DEF Reserve, Release, TypeOK
  <2> QED
      BY <1>5, <2>3 DEF Reserve, Release, TypeOK
<1>6. ASSUME NEW c \in Lenient, SetPolicy(c)
      PROVE  TypeOK'
    BY <1>6 DEF SetPolicy, TypeOK
<1>7. CASE UNCHANGED vars
    BY <1>7 DEF vars, TypeOK
<1> QED
    BY <1>1, <1>2, <1>3, <1>4, <1>5, <1>6, <1>7, <1>8 DEF Next

LEMMA TypeInit == Init => TypeOK
<1>1. Zero \in Deltas
    BY DEF Zero, Deltas
<1>2. Nothing \in Commands /\ NoPlan \in [delta : Deltas, fresh : SUBSET Cells, next : Deltas]
    BY <1>1 DEF Nothing, NoPlan, Commands
<1> QED
    BY <1>1, <1>2 DEF Init, TypeOK

(***************************************************************************)
(* Type correctness of every reachable state.                              *)
(***************************************************************************)
THEOREM TypeCorrect == Spec => []TypeOK
BY TypeInit, TypeStep, PTL DEF Spec

-----------------------------------------------------------------------------
(* Keys: who may store an operation, and who may reverse it.               *)

InsertsAreOpen ==
    \A r \in inserted : phase[r] \in {"moving", "moved"} /\ status[Key[r]] = "none"

InsertsAreAlone == \A r, q \in inserted : Key[r] = Key[q] => r = q

OthersFoundTheirs ==
    \A r \in Requests : phase[r] \in {"moving", "moved"} /\ r \notin inserted =>
        status[Key[r]] # "none" /\ command[Key[r]] = Command[r]

OriginalsAreStored ==
    \A r \in Requests : IsReversal(r) /\ phase[r] \in {"started", "absent", "moving", "moved"} =>
        status[Command[r].of] # "none"

Stored(q) == status[q] # "none"

ReversalsReverse ==
    \A q \in Keys : Stored(q) /\ command[q].of # None => status[command[q].of] = "reversed"

ReversalsAreAlone ==
    \A q, p \in Keys :
        Stored(q) /\ Stored(p) /\ command[q].of # None /\ command[q].of = command[p].of => q = p

ReversedHaveReversals == \A k \in Keys : status[k] = "reversed" => Reversed(k)

KeyInv ==
    /\ TypeOK
    /\ InsertsAreOpen
    /\ InsertsAreAlone
    /\ OthersFoundTheirs
    /\ OriginalsAreStored
    /\ ReversalsReverse
    /\ ReversalsAreAlone
    /\ ReversedHaveReversals

\* What a reversal's commit rests on: its operation is new and is not its original.
LEMMA ReversalIsNew ==
    ASSUME KeyInv, NEW r \in Requests, Commit(r), IsReversal(r)
    PROVE  /\ r \in inserted
           /\ Command[r].of \in Keys
           /\ Command[r].of # Key[r]
           /\ ~Reversed(Command[r].of)
<1>1. ~Reversed(Command[r].of) /\ phase[r] = "moved"
    BY DEF Commit, MayReverse
<1>2. Command[r].of \in Keys /\ Key[r] \in Keys
    BY CommandType
<1>3. r \in inserted
  <2> SUFFICES ASSUME r \notin inserted
               PROVE  FALSE
      OBVIOUS
  <2>1. status[Key[r]] # "none" /\ command[Key[r]] = Command[r]
      BY <1>1 DEF KeyInv, OthersFoundTheirs
  <2> QED
      BY <1>1, <1>2, <2>1 DEF Reversed
<1>4. status[Command[r].of] # "none"
    BY <1>1 DEF KeyInv, OriginalsAreStored
<1>5. status[Key[r]] = "none"
    BY <1>3 DEF KeyInv, InsertsAreOpen
<1> QED
    BY <1>1, <1>2, <1>3, <1>4, <1>5

\* Steps that store nothing and reverse nothing.
LEMMA KeyQuietStep ==
    ASSUME KeyInv, TypeOK', UNCHANGED <<status, command, phase, inserted>>
    PROVE  KeyInv'
BY DEF KeyInv, InsertsAreOpen, InsertsAreAlone, OthersFoundTheirs, OriginalsAreStored,
       ReversalsReverse, ReversalsAreAlone, ReversedHaveReversals, Stored, Reversed

LEMMA KeyLeaveStep ==
    ASSUME KeyInv, TypeOK', NEW r \in Requests,
           UNCHANGED <<status, command>>,
           Goto(r, "done"), inserted' = inserted \ {r}
    PROVE  KeyInv'
<1>1. /\ phase' = [phase EXCEPT ![r] = "done"]
      /\ \A q \in Requests : q # r => phase'[q] = phase[q]
      /\ phase'[r] = "done"
    BY DEF Goto, KeyInv, TypeOK
<1>2. InsertsAreOpen' /\ InsertsAreAlone'
    BY <1>1 DEF KeyInv, InsertsAreOpen, InsertsAreAlone, TypeOK
<1>3. OthersFoundTheirs' /\ OriginalsAreStored'
    BY <1>1 DEF KeyInv, OthersFoundTheirs, OriginalsAreStored, IsReversal
<1> QED
    BY <1>2, <1>3 DEF KeyInv, ReversalsReverse, ReversalsAreAlone, ReversedHaveReversals, Stored, Reversed

LEMMA KeyWalkStep ==
    ASSUME KeyInv, TypeOK', NEW r \in Requests,
           Begin(r) \/ Lookup(r) \/ Insert(r) \/ Move(r)
    PROVE  KeyInv'
<1>1. /\ UNCHANGED <<status, command>>
      /\ \A q \in Requests : q # r => phase'[q] = phase[q]
    BY DEF Begin, Lookup, Insert, Move, Goto, KeyInv, TypeOK
<1>2. r \notin inserted \/ Move(r)
    BY DEF KeyInv, InsertsAreOpen, Begin, Lookup, Insert
<1>3. InsertsAreOpen' /\ InsertsAreAlone'
  <2>1. CASE Insert(r) /\ status[Key[r]] = "none"
    <3>1. phase'[r] = "moving" /\ inserted' = inserted \cup {r}
        BY <2>1 DEF Insert, Goto, KeyInv, TypeOK
    <3>2. \A q \in inserted : Key[q] # Key[r]
        BY <2>1 DEF Insert
    <3>3. inserted \subseteq Requests
        BY DEF KeyInv, TypeOK
    <3> QED
        BY <1>1, <2>1, <3>1, <3>2, <3>3 DEF KeyInv, InsertsAreOpen, InsertsAreAlone
  <2>2. CASE Move(r)
      BY <1>1, <2>2 DEF KeyInv, InsertsAreOpen, InsertsAreAlone, TypeOK, Move, Goto
  <2>3. CASE Begin(r) \/ Lookup(r) \/ (Insert(r) /\ status[Key[r]] # "none")
    <3>1. r \notin inserted /\ inserted' = inserted
        BY <1>2, <2>3 DEF KeyInv, InsertsAreOpen, Begin, Lookup, Insert
    <3>2. InsertsAreAlone'
        BY <3>1 DEF KeyInv, InsertsAreAlone
    <3>3. \A q \in inserted : q \in Requests /\ q # r
        BY <3>1 DEF KeyInv, TypeOK
    <3> QED
        BY <1>1, <3>1, <3>2, <3>3 DEF KeyInv, InsertsAreOpen
  <2> QED
      BY <2>1, <2>2, <2>3
<1>4. OthersFoundTheirs'
    BY <1>1, <1>2 DEF KeyInv, OthersFoundTheirs, TypeOK, Begin, Lookup, Insert, Move, Goto
<1>5. OriginalsAreStored'
    BY <1>1 DEF KeyInv, OriginalsAreStored, IsReversal, TypeOK, Begin, Lookup, Insert, Move, Goto
<1> QED
    BY <1>1, <1>3, <1>4, <1>5
    DEF KeyInv, ReversalsReverse, ReversalsAreAlone, ReversedHaveReversals, Stored, Reversed

LEMMA KeyStoreStep ==
    ASSUME KeyInv, TypeOK', NEW r \in inserted \ Atomic, Refuse(r)
    PROVE  KeyInv'
<1>1. r \in Requests /\ Key[r] \in Keys
    BY CommandType DEF KeyInv, TypeOK
<1>2. Command[r].of = None
    BY <1>1, ReversalsAreAtomic
<1>3. status[Key[r]] = "none"
    BY DEF KeyInv, InsertsAreOpen
<1>4. /\ status' = [status EXCEPT ![Key[r]] = "confirmed"]
      /\ command' = [command EXCEPT ![Key[r]] = Command[r]]
      /\ phase' = [phase EXCEPT ![r] = "done"]
      /\ inserted' = inserted \ {r}
    BY DEF Refuse, Store, Goto
<1>5. /\ \A k \in Keys : k # Key[r] => status'[k] = status[k] /\ command'[k] = command[k]
      /\ status'[Key[r]] = "confirmed" /\ command'[Key[r]] = Command[r]
      /\ \A q \in Requests : q # r => phase'[q] = phase[q]
      /\ phase'[r] = "done"
    BY <1>1, <1>4 DEF KeyInv, TypeOK
<1>6. InsertsAreOpen' /\ InsertsAreAlone'
  <2>1. \A q \in inserted' : q \in inserted /\ q # r /\ q \in Requests /\ Key[q] # Key[r] /\ Key[q] \in Keys
      BY <1>4, CommandType DEF KeyInv, InsertsAreAlone, TypeOK
  <2> QED
      BY <1>5, <2>1 DEF KeyInv, InsertsAreOpen, InsertsAreAlone
<1>7. OthersFoundTheirs'
    BY <1>1, <1>3, <1>4, <1>5, CommandType DEF KeyInv, OthersFoundTheirs
<1>8. OriginalsAreStored'
    BY <1>1, <1>5, CommandType DEF KeyInv, OriginalsAreStored, IsReversal
<1>9. \A q \in Keys : command'[q].of # None /\ Stored(q)' => q # Key[r] /\ Stored(q) /\ command[q].of # None
                                                       /\ command'[q] = command[q]
    BY <1>2, <1>5 DEF Stored
<1>10. ReversalsReverse'
  <2> SUFFICES ASSUME NEW q \in Keys, Stored(q)', command'[q].of # None
               PROVE  status'[command'[q].of] = "reversed"
      BY DEF ReversalsReverse
  <2>1. status[command[q].of] = "reversed" /\ command[q].of \in Keys /\ command'[q] = command[q]
      BY <1>9 DEF KeyInv, ReversalsReverse, TypeOK, Commands
  <2> QED
      BY <1>3, <1>5, <2>1
<1>11. ReversalsAreAlone'
    BY <1>9 DEF KeyInv, ReversalsAreAlone
<1>12. ReversedHaveReversals'
  <2> SUFFICES ASSUME NEW k \in Keys, status'[k] = "reversed"
               PROVE  \E q \in Keys : status'[q] # "none" /\ command'[q].of = k
      BY DEF ReversedHaveReversals, Reversed
  <2>1. status[k] = "reversed"
      BY <1>5
  <2>2. PICK q \in Keys : status[q] # "none" /\ command[q].of = k
      BY <2>1 DEF KeyInv, ReversedHaveReversals, Reversed
  <2> QED
      BY <1>3, <1>5, <2>2
<1> QED
    BY <1>6, <1>7, <1>8, <1>10, <1>11, <1>12 DEF KeyInv

LEMMA KeyCommitStep ==
    ASSUME KeyInv, TypeOK', NEW r \in Requests, Commit(r)
    PROVE  KeyInv'
<1> DEFINE of == Command[r].of
<1>1. Key[r] \in Keys /\ of \in Keys \cup {None} /\ phase[r] = "moved"
    BY CommandType DEF Commit, StatusAfter
<1>2. /\ \A k \in Keys : k # Key[r] /\ k # of => status'[k] = status[k]
      /\ \A k \in Keys : k # Key[r] => command'[k] = command[k]
      /\ \A q \in Requests : q # r => phase'[q] = phase[q]
      /\ phase'[r] = "done"
      /\ inserted' = inserted \ {r}
    BY <1>1 DEF Commit, StatusAfter, Goto, KeyInv, TypeOK
<1>3. IsReversal(r) => r \in inserted /\ of \in Keys /\ of # Key[r] /\ ~Reversed(of) /\ status[of] # "none"
                       /\ status'[of] = "reversed"
  <2>1. IsReversal(r) => r \in inserted /\ of \in Keys /\ of # Key[r] /\ ~Reversed(of)
      BY ReversalIsNew
  <2>2. IsReversal(r) => status[of] # "none"
      BY <1>1 DEF KeyInv, OriginalsAreStored
  <2> QED
      BY <2>1, <2>2 DEF Commit, StatusAfter
<1>4. status'[Key[r]] # "none" /\ command'[Key[r]] = Command[r]
  <2>1. CASE r \in inserted
      BY <1>1, <2>1 DEF Commit, StatusAfter, KeyInv, TypeOK
  <2>2. CASE r \notin inserted
    <3>1. status[Key[r]] # "none" /\ command[Key[r]] = Command[r]
        BY <1>1, <2>2 DEF KeyInv, OthersFoundTheirs
    <3> QED
        BY <1>1, <2>2, <3>1 DEF Commit, StatusAfter
  <2> QED
      BY <2>1, <2>2
<1>5. \A k \in Keys : status[k] # "none" => status'[k] # "none" /\ command'[k] = command[k]
  <2> SUFFICES ASSUME NEW k \in Keys, status[k] # "none"
               PROVE  status'[k] # "none" /\ command'[k] = command[k]
      OBVIOUS
  <2>1. CASE k = Key[r]
    <3>1. r \notin inserted
        BY <2>1 DEF KeyInv, InsertsAreOpen
    <3> QED
        BY <1>1, <1>4, <2>1, <3>1 DEF Commit, StatusAfter
  <2>2. CASE k # Key[r]
      BY <1>2, <2>2 DEF Commit, StatusAfter
  <2> QED
      BY <2>1, <2>2
<1>6. \A k \in Keys : status[k] = "none" /\ k # Key[r] => status'[k] = "none"
    BY <1>1, <1>2, <1>3, KeysAssumption DEF IsReversal
<1>7. InsertsAreOpen' /\ InsertsAreAlone'
  <2> SUFFICES ASSUME NEW q \in inserted'
               PROVE  /\ phase'[q] \in {"moving", "moved"} /\ status'[Key[q]] = "none"
                      /\ q \in inserted
      BY DEF KeyInv, InsertsAreOpen, InsertsAreAlone
  <2>1. q \in inserted /\ q # r /\ q \in Requests /\ Key[q] \in Keys /\ status[Key[q]] = "none"
      BY <1>2, CommandType DEF KeyInv, InsertsAreOpen, TypeOK
  <2>2. Key[q] # Key[r]
      BY <1>1, <2>1 DEF KeyInv, InsertsAreAlone, OthersFoundTheirs
  <2> QED
      BY <1>2, <1>6, <2>1, <2>2 DEF KeyInv, InsertsAreOpen
<1>8. OthersFoundTheirs'
    BY <1>2, <1>5, CommandType DEF KeyInv, OthersFoundTheirs
<1>9. OriginalsAreStored'
    BY <1>2, <1>5, CommandType DEF KeyInv, OriginalsAreStored, IsReversal
<1>10. \A q \in Keys : Stored(q)' /\ command'[q].of # None =>
           \/ q = Key[r] /\ IsReversal(r)
           \/ q # Key[r] /\ Stored(q) /\ command'[q] = command[q]
    BY <1>2, <1>4, <1>6 DEF Stored, IsReversal
<1>11. ReversalsReverse'
  <2> SUFFICES ASSUME NEW q \in Keys, Stored(q)', command'[q].of # None
               PROVE  status'[command'[q].of] = "reversed"
      BY DEF ReversalsReverse
  <2>1. CASE q = Key[r] /\ IsReversal(r)
      BY <1>3, <1>4, <2>1
  <2>2. CASE q # Key[r] /\ Stored(q) /\ command'[q] = command[q]
    <3>1. status[command[q].of] = "reversed" /\ command[q].of \in Keys
        BY <2>2 DEF KeyInv, ReversalsReverse, TypeOK, Commands
    <3>2. command[q].of = Key[r] => r \notin inserted
        BY <3>1 DEF KeyInv, InsertsAreOpen
    <3> QED
        BY <2>2, <3>1, <3>2 DEF Commit, StatusAfter
  <2> QED
      BY <1>10, <2>1, <2>2
<1>12. ReversalsAreAlone'
  <2> SUFFICES ASSUME NEW q \in Keys, NEW p \in Keys, Stored(q)', Stored(p)',
                      command'[q].of # None, command'[q].of = command'[p].of
               PROVE  q = p
      BY DEF ReversalsAreAlone
  <2>1. \A k \in Keys : k # Key[r] /\ Stored(k) /\ IsReversal(r) => command[k].of # of
      BY <1>3 DEF Stored, Reversed
  <2> QED
      BY <1>4, <1>10, <2>1 DEF KeyInv, ReversalsAreAlone
<1>13. ReversedHaveReversals'
  <2> SUFFICES ASSUME NEW k \in Keys, status'[k] = "reversed"
               PROVE  \E q \in Keys : status'[q] # "none" /\ command'[q].of = k
      BY DEF ReversedHaveReversals, Reversed
  <2>1. CASE k = of
      BY <1>1, <1>4, <2>1
  <2>2. CASE k # of
    <3>1. status[k] = "reversed"
        BY <2>2 DEF Commit, StatusAfter
    <3>2. PICK q \in Keys : status[q] # "none" /\ command[q].of = k
        BY <3>1 DEF KeyInv, ReversedHaveReversals, Reversed
    <3> QED
        BY <1>5, <3>2
  <2> QED
      BY <2>1, <2>2
<1> QED
    BY <1>7, <1>8, <1>9, <1>11, <1>12, <1>13 DEF KeyInv

LEMMA KeyStep ==
    ASSUME KeyInv, [Next]_vars
    PROVE  KeyInv'
<1>0. TypeOK'
    BY TypeStep DEF KeyInv
<1>1. ASSUME NEW r \in Requests, Begin(r) \/ Lookup(r) \/ Insert(r) \/ Move(r)
      PROVE  KeyInv'
    BY <1>0, <1>1, KeyWalkStep
<1>2. ASSUME NEW r \in Requests, Refuse(r) \/ Abort(r)
      PROVE  KeyInv'
  <2>1. CASE Refuse(r) /\ r \in inserted \ Atomic
      BY <1>0, <2>1, KeyStoreStep
  <2>2. CASE Abort(r) \/ r \notin inserted \ Atomic
      BY <1>0, <1>2, <2>2, KeyLeaveStep DEF Refuse, Abort
  <2> QED
      BY <1>2, <2>1, <2>2
<1>3. ASSUME NEW r \in Requests, Commit(r)
      PROVE  KeyInv'
    BY <1>0, <1>3, KeyCommitStep
<1>4. ASSUME \/ \E c \in Cells, held \in Holds : Reserve(c, held) \/ Release(c, held)
             \/ \E c \in Lenient : SetPolicy(c)
             \/ UNCHANGED vars
      PROVE  KeyInv'
    BY <1>0, <1>4, KeyQuietStep DEF Reserve, Release, SetPolicy, vars
<1> QED
    BY <1>1, <1>2, <1>3, <1>4 DEF Next

LEMMA KeyInit == Init => KeyInv
<1> SUFFICES ASSUME Init
             PROVE  KeyInv
    OBVIOUS
<1>1. InsertsAreOpen /\ InsertsAreAlone /\ OthersFoundTheirs
    BY DEF Init, InsertsAreOpen, InsertsAreAlone, OthersFoundTheirs
<1>2. OriginalsAreStored
    BY DEF Init, OriginalsAreStored, IsReversal
<1>3. ReversalsReverse /\ ReversalsAreAlone /\ ReversedHaveReversals
    BY DEF Init, ReversalsReverse, ReversalsAreAlone, ReversedHaveReversals, Stored
<1> QED
    BY TypeInit, <1>1, <1>2, <1>3 DEF KeyInv

LEMMA KeysCorrect == Spec => []KeyInv
BY KeyInit, KeyStep, PTL DEF Spec

(***************************************************************************)
(* An operation is reversed at most once, whoever reverses it and with     *)
(* whatever keys: a committed reversal finds no other of its original.     *)
(***************************************************************************)
THEOREM OneReversal == Spec => []ReversedOnce
<1>1. ASSUME KeyInv
      PROVE  ReversedOnce
  <2> SUFFICES ASSUME NEW k \in Keys
               PROVE  Cardinality(Reversals(k)) = (IF status[k] = "reversed" THEN 1 ELSE 0)
      BY DEF ReversedOnce
  <2>1. CASE status[k] = "reversed"
    <3>1. PICK q \in Keys : status[q] # "none" /\ command[q].of = k
        BY <1>1, <2>1 DEF KeyInv, ReversedHaveReversals, Reversed
    <3>2. Reversals(k) = {q}
        BY <1>1, <3>1, KeysAssumption DEF Reversals, KeyInv, ReversalsAreAlone, Stored
    <3> QED
        BY <2>1, <3>2, FS_Singleton
  <2>2. CASE status[k] # "reversed"
    <3>1. Reversals(k) = {}
        BY <1>1, <2>2, KeysAssumption DEF Reversals, KeyInv, ReversalsReverse, Stored
    <3> QED
        BY <2>2, <3>1, FS_EmptySet
  <2> QED
      BY <2>1, <2>2
<1> QED
    BY <1>1, KeysCorrect, PTL

-----------------------------------------------------------------------------
(* What is stored without its movement is torn; everything else is whole.  *)

TornAreStored == \A k \in torn : Stored(k)

UnstoredAreEmpty ==
    \A k \in Keys : ~Stored(k) => applied[k] = 0 /\ moved[k] = Zero /\ command[k] = Nothing

OperationsAreWhole == \A k \in Keys \ torn : Stored(k) => applied[k] = 1

\* A request that found its operation and writes its movements found a torn one.
OthersAreTorn ==
    \A r \in Requests : phase[r] \in {"moving", "moved"} /\ ~IsReversal(r) /\ r \notin inserted =>
        Key[r] \in torn

PlansHold ==
    \A r \in Requests : phase[r] = "moved" /\ Command[r].of \notin torn => plan[r].delta = DeltaOf(r)

ReversalsOfTornAreTorn == \A q \in Keys : Stored(q) /\ command[q].of \in torn => q \in torn

WholeInv ==
    /\ KeyInv
    /\ TornAreStored
    /\ UnstoredAreEmpty
    /\ OperationsAreWhole
    /\ OthersAreTorn
    /\ PlansHold
    /\ ReversalsOfTornAreTorn
    /\ ReversalCancels

\* A reversal's original, in the ledger or being written, is stored.
LEMMA OriginalIsStored ==
    ASSUME KeyInv
    PROVE  /\ \A q \in Keys : Stored(q) /\ command[q].of # None => command[q].of \in Keys /\ Stored(command[q].of)
           /\ \A r \in Requests : IsReversal(r) /\ phase[r] = "moved" =>
                  Command[r].of \in Keys /\ Stored(Command[r].of)
<1>1. ASSUME NEW q \in Keys, Stored(q), command[q].of # None
      PROVE  command[q].of \in Keys /\ Stored(command[q].of)
  <2>1. status[command[q].of] = "reversed" /\ command[q].of \in Keys \cup {None}
      BY <1>1 DEF KeyInv, ReversalsReverse, TypeOK, Commands
  <2> QED
      BY <1>1, <2>1 DEF Stored
<1>2. ASSUME NEW r \in Requests, IsReversal(r), phase[r] = "moved"
      PROVE  Command[r].of \in Keys /\ Stored(Command[r].of)
    BY <1>2, CommandType DEF KeyInv, OriginalsAreStored, Stored
<1> QED
    BY <1>1, <1>2

\* Whom a commit concerns: a new operation, or a torn one that gets its movement.
LEMMA CommitWrites ==
    ASSUME WholeInv, NEW r \in Requests, Commit(r)
    PROVE  /\ Key[r] \in Keys
           /\ \A k \in Keys : k # Key[r] =>
                  moved'[k] = moved[k] /\ applied'[k] = applied[k] /\ command'[k] = command[k]
           /\ moved'[Key[r]] = [c \in Cells |-> moved[Key[r]][c] + plan[r].delta[c]]
           /\ applied'[Key[r]] = applied[Key[r]] + 1
           /\ command'[Key[r]] = Command[r]
           /\ \A k \in Keys : Stored(k)' <=> Stored(k) \/ k = Key[r]
           /\ r \in inserted => ~Stored(Key[r])
           /\ r \notin inserted => ~IsReversal(r) /\ Key[r] \in torn /\ torn' = torn
           /\ IsReversal(r) => Command[r].of \in Keys /\ Command[r].of # Key[r] /\ Stored(Command[r].of)
           /\ torn \subseteq torn' /\ torn' \subseteq torn \cup {Key[r]}
<1>1. Key[r] \in Keys /\ Command[r].of \in Keys \cup {None} /\ phase[r] = "moved" /\ TypeOK
    BY CommandType DEF Commit, WholeInv, KeyInv
<1>2. /\ \A k \in Keys : k # Key[r] => moved'[k] = moved[k] /\ applied'[k] = applied[k]
      /\ moved'[Key[r]] = [c \in Cells |-> moved[Key[r]][c] + plan[r].delta[c]]
      /\ applied'[Key[r]] = applied[Key[r]] + 1
    BY <1>1 DEF Commit, TypeOK
<1>3. \A k \in Keys : k # Key[r] => command'[k] = command[k]
    BY <1>1 DEF Commit, TypeOK
<1>4. r \in inserted => ~Stored(Key[r])
    BY DEF WholeInv, KeyInv, InsertsAreOpen, Stored
<1>5. IsReversal(r) => r \in inserted /\ Command[r].of \in Keys /\ Command[r].of # Key[r] /\ Stored(Command[r].of)
    BY <1>1, ReversalIsNew, OriginalIsStored DEF WholeInv
<1>6. r \notin inserted => Stored(Key[r]) /\ command[Key[r]] = Command[r]
    BY <1>1 DEF WholeInv, KeyInv, OthersFoundTheirs, Stored
<1>7. command'[Key[r]] = Command[r]
    BY <1>1, <1>6 DEF Commit, TypeOK
<1>8. \A k \in Keys : Stored(k)' <=> Stored(k) \/ k = Key[r]
    BY <1>1, <1>5, <1>6, KeysAssumption DEF Commit, StatusAfter, Stored, IsReversal
<1>9. torn \subseteq torn' /\ torn' \subseteq torn \cup {Key[r]}
    BY DEF Commit
<1>10. None \notin torn
    BY <1>1, KeysAssumption DEF TypeOK
<1>11. r \notin inserted => ~IsReversal(r) /\ Key[r] \in torn /\ torn' = torn
  <2> SUFFICES ASSUME r \notin inserted
               PROVE  ~IsReversal(r) /\ Key[r] \in torn /\ torn' = torn
      OBVIOUS
  <2>1. ~IsReversal(r)
      BY <1>5
  <2>2. Key[r] \in torn
      BY <1>1, <2>1 DEF WholeInv, OthersAreTorn
  <2> QED
      BY <1>10, <2>1, <2>2 DEF Commit, IsReversal
<1> QED
    BY <1>1, <1>2, <1>3, <1>4, <1>5, <1>7, <1>8, <1>9, <1>11

LEMMA WholeQuietStep ==
    ASSUME WholeInv, KeyInv', UNCHANGED <<status, command, moved, applied, phase, inserted, plan, torn>>
    PROVE  WholeInv'
<1>1. TornAreStored' /\ UnstoredAreEmpty' /\ OperationsAreWhole' /\ ReversalsOfTornAreTorn'
    BY DEF WholeInv, TornAreStored, UnstoredAreEmpty, OperationsAreWhole, ReversalsOfTornAreTorn, Stored
<1>2. OthersAreTorn' /\ PlansHold'
    BY DEF WholeInv, OthersAreTorn, PlansHold, DeltaOf, IsReversal
<1>3. ReversalCancels'
    BY DEF WholeInv, ReversalCancels, Reversals
<1> QED
    BY <1>1, <1>2, <1>3 DEF WholeInv

LEMMA WholeWalkStep ==
    ASSUME WholeInv, KeyInv', NEW r \in Requests,
           \/ Begin(r) \/ Lookup(r) \/ Insert(r) \/ Move(r) \/ Abort(r)
           \/ Refuse(r) /\ r \notin inserted \ Atomic
    PROVE  WholeInv'
<1>1. UNCHANGED <<status, command, moved, applied, torn>>
    BY DEF Begin, Lookup, Insert, Move, Refuse, Abort
<1>2. /\ \A q \in Requests : q # r => phase'[q] = phase[q] /\ plan'[q] = plan[q]
      /\ \A q \in Requests : q # r => (q \in inserted' <=> q \in inserted)
  <2>1. TypeOK
      BY DEF WholeInv, KeyInv
  <2>2. \A q \in Requests : q # r => phase'[q] = phase[q]
      BY <2>1 DEF TypeOK, Begin, Lookup, Insert, Move, Refuse, Abort, Goto
  <2>3. \A q \in Requests : q # r => plan'[q] = plan[q]
      BY <2>1 DEF TypeOK, Begin, Lookup, Insert, Move, Refuse, Abort
  <2>4. \A q \in Requests : q # r => (q \in inserted' <=> q \in inserted)
      BY <2>1 DEF TypeOK, Begin, Lookup, Insert, Move, Refuse, Abort
  <2> QED
      BY <2>2, <2>3, <2>4
<1>3. TornAreStored' /\ UnstoredAreEmpty' /\ OperationsAreWhole' /\ ReversalsOfTornAreTorn'
    BY <1>1 DEF WholeInv, TornAreStored, UnstoredAreEmpty, OperationsAreWhole, ReversalsOfTornAreTorn, Stored
<1>4. ReversalCancels'
    BY <1>1 DEF WholeInv, ReversalCancels, Reversals
<1>5. OthersAreTorn'
  <2> SUFFICES ASSUME phase'[r] \in {"moving", "moved"}, ~IsReversal(r), r \notin inserted'
               PROVE  Key[r] \in torn
      BY <1>1, <1>2 DEF WholeInv, OthersAreTorn, IsReversal
  <2>1. ~Begin(r) /\ ~Refuse(r) /\ ~Abort(r)
      BY DEF WholeInv, KeyInv, TypeOK, Begin, Refuse, Abort, Goto
  <2>2. CASE Lookup(r)
    <3>1. Stored(Key[r]) /\ applied[Key[r]] = 0
        BY <2>2 DEF Lookup, Unmoved, Goto, WholeInv, KeyInv, TypeOK, Stored
    <3> QED
        BY <3>1, CommandType DEF WholeInv, OperationsAreWhole
  <2>3. CASE Insert(r)
      BY <2>3 DEF Insert, Goto, WholeInv, KeyInv, TypeOK
  <2>4. CASE Move(r)
      BY <2>4 DEF Move, WholeInv, OthersAreTorn
  <2> QED
      BY <2>1, <2>2, <2>3, <2>4
<1>6. PlansHold'
  <2>1. \A q \in Requests : DeltaOf(q)' = DeltaOf(q)
      BY <1>1 DEF DeltaOf, IsReversal
  <2> SUFFICES ASSUME phase'[r] = "moved"
               PROVE  plan'[r].delta = DeltaOf(r)
      BY <1>1, <1>2, <2>1 DEF WholeInv, PlansHold
  <2>2. Move(r)
      BY DEF WholeInv, KeyInv, TypeOK, Begin, Lookup, Insert, Refuse, Abort, Goto
  <2> QED
      BY <2>2 DEF Move, WholeInv, KeyInv, TypeOK
<1> QED
    BY <1>3, <1>4, <1>5, <1>6 DEF WholeInv

\* A refused request leaves its operation: from now on it is torn.
LEMMA WholeStoreStep ==
    ASSUME WholeInv, KeyInv', NEW r \in inserted \ Atomic, Refuse(r)
    PROVE  WholeInv'
<1> DEFINE k == Key[r]
<1>1. r \in Requests /\ k \in Keys /\ TypeOK
    BY CommandType DEF WholeInv, KeyInv, TypeOK
<1>2. Command[r].of = None /\ ~Stored(k)
    BY <1>1, ReversalsAreAtomic DEF WholeInv, KeyInv, InsertsAreOpen, Stored
<1>3. /\ UNCHANGED <<moved, applied, plan>>
      /\ torn' = torn \cup {k}
      /\ Stored(k)' /\ command'[k] = Command[r]
      /\ \A x \in Keys : x # k => (Stored(x)' <=> Stored(x)) /\ command'[x] = command[x]
      /\ inserted' = inserted \ {r}
    BY <1>1 DEF Refuse, Store, Stored, TypeOK
<1>4. phase'[r] = "done" /\ \A q \in Requests : q # r => phase'[q] = phase[q]
    BY <1>1 DEF Refuse, Goto, TypeOK
<1>5. None \notin torn'
    BY <1>1, <1>3, KeysAssumption DEF TypeOK
<1>6. \A q \in Keys : Stored(q)' /\ command'[q].of # None =>
          q # k /\ Stored(q) /\ command'[q] = command[q] /\ command[q].of # k
    BY <1>2, <1>3, OriginalIsStored DEF WholeInv
<1>7. TornAreStored' /\ UnstoredAreEmpty' /\ OperationsAreWhole'
    BY <1>1, <1>3 DEF WholeInv, TornAreStored, UnstoredAreEmpty, OperationsAreWhole, TypeOK
<1>8. ReversalsOfTornAreTorn'
    BY <1>3, <1>5, <1>6 DEF WholeInv, ReversalsOfTornAreTorn
<1>9. OthersAreTorn'
    BY <1>3, <1>4 DEF WholeInv, OthersAreTorn, IsReversal
<1>10. PlansHold'
    BY <1>3, <1>4 DEF WholeInv, PlansHold, DeltaOf, IsReversal
<1>11. ReversalCancels'
  <2> SUFFICES ASSUME NEW x \in Keys \ torn', NEW q \in Keys, Stored(q)', command'[q].of = x,
                      NEW c \in Cells
               PROVE  moved'[x][c] + moved'[q][c] = 0
      BY DEF ReversalCancels, Reversals, Stored
  <2>1. Stored(q) /\ command[q].of = x /\ x \notin torn
      BY <1>3, <1>6, KeysAssumption
  <2> QED
      BY <1>3, <2>1 DEF WholeInv, ReversalCancels, Reversals, Stored
<1> QED
    BY <1>7, <1>8, <1>9, <1>10, <1>11 DEF WholeInv

LEMMA WholeCommitStep ==
    ASSUME WholeInv, KeyInv', NEW r \in Requests, Commit(r)
    PROVE  WholeInv'
<1> DEFINE k == Key[r]
           of == Command[r].of
<1>1. /\ k \in Keys
      /\ \A x \in Keys : x # k =>
             moved'[x] = moved[x] /\ applied'[x] = applied[x] /\ command'[x] = command[x]
      /\ moved'[k] = [c \in Cells |-> moved[k][c] + plan[r].delta[c]]
      /\ applied'[k] = applied[k] + 1
      /\ command'[k] = Command[r]
    BY CommitWrites
<1>2. /\ \A x \in Keys : Stored(x)' <=> Stored(x) \/ x = k
      /\ r \in inserted => ~Stored(k)
      /\ r \notin inserted => ~IsReversal(r) /\ k \in torn /\ torn' = torn
      /\ IsReversal(r) => of \in Keys /\ of # k /\ Stored(of)
      /\ torn \subseteq torn' /\ torn' \subseteq torn \cup {k}
    BY CommitWrites
<1>3. /\ TypeOK /\ None \notin torn /\ None \notin torn'
      /\ phase'[r] = "done" /\ inserted' = inserted \ {r}
      /\ \A q \in Requests : q # r => phase'[q] = phase[q] /\ plan'[q] = plan[q]
  <2>1. TypeOK
      BY DEF WholeInv, KeyInv
  <2>2. None \notin torn /\ None \notin torn'
      BY <1>1, <1>2, <2>1, KeysAssumption DEF TypeOK
  <2> QED
      BY <2>1, <2>2 DEF Commit, Goto, TypeOK
<1>4. TornAreStored' /\ UnstoredAreEmpty'
    BY <1>1, <1>2, <1>3 DEF WholeInv, TornAreStored, UnstoredAreEmpty, TypeOK
<1>5. OperationsAreWhole'
  <2> SUFFICES ASSUME NEW x \in Keys \ torn', Stored(x)'
               PROVE  applied'[x] = 1
      BY DEF OperationsAreWhole
  <2>1. CASE x = k
      BY <1>1, <1>2, <2>1 DEF WholeInv, UnstoredAreEmpty
  <2>2. CASE x # k
      BY <1>1, <1>2, <2>2 DEF WholeInv, OperationsAreWhole
  <2> QED
      BY <2>1, <2>2
<1>6. OthersAreTorn'
    BY <1>2, <1>3 DEF WholeInv, OthersAreTorn, IsReversal
<1>7. PlansHold'
  <2> SUFFICES ASSUME NEW q \in Requests, phase'[q] = "moved", Command[q].of \notin torn'
               PROVE  plan'[q].delta = DeltaOf(q)'
      BY DEF PlansHold
  <2>1. q # r /\ phase[q] = "moved" /\ Command[q].of \notin torn /\ plan'[q].delta = DeltaOf(q)
      BY <1>2, <1>3 DEF WholeInv, PlansHold
  <2>2. IsReversal(q) => Command[q].of \in Keys /\ Command[q].of # k
      BY <1>2, <2>1, OriginalIsStored DEF WholeInv
  <2> QED
      BY <1>1, <2>1, <2>2 DEF DeltaOf, IsReversal
<1>8. ReversalsOfTornAreTorn'
  <2> SUFFICES ASSUME NEW q \in Keys, Stored(q)', command'[q].of \in torn'
               PROVE  q \in torn'
      BY DEF ReversalsOfTornAreTorn
  <2>1. CASE q = k
    <3>1. IsReversal(r) /\ of \in torn
        BY <1>1, <1>2, <1>3, <2>1 DEF IsReversal
    <3> QED
        BY <2>1, <3>1 DEF Commit
  <2>2. CASE q # k
    <3>1. Stored(q) /\ command'[q] = command[q]
        BY <1>1, <1>2, <2>2
    <3>2. Stored(command[q].of)
        BY <1>3, <3>1, OriginalIsStored DEF WholeInv
    <3>3. command[q].of \in torn
        BY <1>2, <3>1, <3>2
    <3> QED
        BY <1>2, <3>1, <3>3 DEF WholeInv, ReversalsOfTornAreTorn
  <2> QED
      BY <2>1, <2>2
<1>9. ReversalCancels'
  <2> SUFFICES ASSUME NEW x \in Keys \ torn', NEW q \in Keys, Stored(q)', command'[q].of = x,
                      NEW c \in Cells
               PROVE  moved'[x][c] + moved'[q][c] = 0
      BY DEF ReversalCancels, Reversals, Stored
  <2>1. CASE q = k
    <3>1. IsReversal(r) /\ x = of /\ of \notin torn
        BY <1>1, <1>2, <2>1, KeysAssumption DEF IsReversal
    <3>2. moved'[x] = moved[x] /\ moved[k] = Zero /\ moved[x][c] \in Int
      <4>1. ~Stored(k)
          BY <1>2, <3>1
      <4>2. moved[k] = Zero
          BY <1>1, <4>1 DEF WholeInv, UnstoredAreEmpty
      <4>3. moved[x] \in Deltas
          BY <1>3 DEF TypeOK
      <4> QED
          BY <1>1, <1>2, <3>1, <4>2, <4>3 DEF Deltas
    <3>3. plan[r].delta = DeltaOf(r)
        BY <3>1 DEF Commit, WholeInv, PlansHold
    <3>4. plan[r].delta[c] = -moved[x][c]
        BY <3>1, <3>3 DEF DeltaOf
    <3>5. moved'[q][c] = 0 + plan[r].delta[c]
        BY <1>1, <2>1, <3>2 DEF Zero
    <3> QED
        BY <3>2, <3>4, <3>5
  <2>2. CASE q # k
    <3>1. Stored(q) /\ command[q].of = x
        BY <1>1, <1>2, <2>2
    <3>2. Stored(x)
        BY <3>1, OriginalIsStored, KeysAssumption DEF WholeInv
    <3>3. x # k /\ x \notin torn
        BY <1>2, <3>2
    <3> QED
        BY <1>1, <2>2, <3>1, <3>3 DEF WholeInv, ReversalCancels, Reversals, Stored
  <2> QED
      BY <2>1, <2>2
<1> QED
    BY <1>4, <1>5, <1>6, <1>7, <1>8, <1>9 DEF WholeInv

LEMMA WholeStep ==
    ASSUME WholeInv, [Next]_vars
    PROVE  WholeInv'
<1>0. KeyInv'
    BY KeyStep DEF WholeInv
<1>1. ASSUME NEW r \in Requests,
             \/ Begin(r) \/ Lookup(r) \/ Insert(r) \/ Move(r) \/ Abort(r)
             \/ Refuse(r) /\ r \notin inserted \ Atomic
      PROVE  WholeInv'
    BY <1>0, <1>1, WholeWalkStep
<1>2. ASSUME NEW r \in Requests, Refuse(r), r \in inserted \ Atomic
      PROVE  WholeInv'
    BY <1>0, <1>2, WholeStoreStep
<1>3. ASSUME NEW r \in Requests, Commit(r)
      PROVE  WholeInv'
    BY <1>0, <1>3, WholeCommitStep
<1>4. ASSUME \/ \E c \in Cells, held \in Holds : Reserve(c, held) \/ Release(c, held)
             \/ \E c \in Lenient : SetPolicy(c)
             \/ UNCHANGED vars
      PROVE  WholeInv'
    BY <1>0, <1>4, WholeQuietStep DEF Reserve, Release, SetPolicy, vars
<1> QED
    BY <1>1, <1>2, <1>3, <1>4 DEF Next

LEMMA WholeInit == Init => WholeInv
<1> SUFFICES ASSUME Init
             PROVE  WholeInv
    OBVIOUS
<1>1. KeyInv
    BY KeyInit
<1>2. TornAreStored /\ UnstoredAreEmpty /\ OperationsAreWhole /\ ReversalsOfTornAreTorn
    BY DEF Init, TornAreStored, UnstoredAreEmpty, OperationsAreWhole, ReversalsOfTornAreTorn, Stored
<1>3. OthersAreTorn /\ PlansHold /\ ReversalCancels
    BY DEF Init, OthersAreTorn, PlansHold, ReversalCancels, Reversals
<1> QED
    BY <1>1, <1>2, <1>3 DEF WholeInv

(***************************************************************************)
(* A stored operation has its movements exactly once and cancels out with  *)
(* its reversal, whoever retries it, unless a refused receipt, issue or    *)
(* adjustment of the inventory API left it without its movement.           *)
(***************************************************************************)
THEOREM WholeOperations == Spec => [](AppliedOnce /\ StoredWhole /\ ReversalCancels)
<1>1. WholeInv /\ [Next]_vars => WholeInv'
    BY WholeStep
<1>2. ASSUME WholeInv
      PROVE  AppliedOnce /\ StoredWhole /\ ReversalCancels
  <2>1. \A k \in Keys \ torn : IF status[k] # "none" THEN applied[k] = 1 ELSE applied[k] = 0
      BY <1>2 DEF WholeInv, OperationsAreWhole, UnstoredAreEmpty, Stored
  <2>2. AppliedOnce /\ StoredWhole
      BY <2>1 DEF AppliedOnce, StoredWhole
  <2> QED
      BY <1>2, <2>2 DEF WholeInv
<1> QED
    BY WholeInit, <1>1, <1>2, PTL DEF Spec

-----------------------------------------------------------------------------
(* Rows: the one row of a cell with a lot follows its locks.               *)

RowsAreAlone == \A c \in LotCells : Len(balance[c]) <= 1

FreshIsEmpty ==
    \A r \in Requests : phase[r] = "moved" =>
        \A c \in Touched(plan[r].delta) \cap LotCells : c \in plan[r].fresh <=> balance[c] = <<>>

PlansAreApart ==
    \A r, q \in Requests : phase[r] = "moved" /\ phase[q] = "moved" /\ r # q =>
        Touched(plan[r].delta) \cap Touched(plan[q].delta) \cap LotCells = {}

RowInv ==
    /\ TypeOK
    /\ RowsAreAlone
    /\ FreshIsEmpty
    /\ PlansAreApart

LEMMA RowWritten ==
    ASSUME RowInv, NEW r \in Requests, Commit(r), NEW c \in LotCells
    PROVE  /\ Len(balance'[c]) <= 1
           /\ c \notin Touched(plan[r].delta) => balance'[c] = balance[c]
<1>1. balance'[c] = Written(r, c) /\ phase[r] = "moved" /\ c \in Cells
    BY CellsAssumption DEF Commit
<1>2. balance[c] \in Seq(Int) /\ plan[r].delta[c] \in Int /\ plan[r].next[c] \in Int
      /\ Len(balance[c]) <= 1
    BY <1>1 DEF RowInv, TypeOK, Deltas, RowsAreAlone
<1>3. CASE c \notin Touched(plan[r].delta)
    BY <1>1, <1>2, <1>3 DEF Written
<1>4. CASE c \in Touched(plan[r].delta) /\ balance[c] = <<>>
  <2>1. c \in plan[r].fresh
      BY <1>1, <1>4 DEF RowInv, FreshIsEmpty
  <2>2. balance'[c] = Append(<<>>, plan[r].delta[c])
      BY <1>1, <1>4, <2>1 DEF Written
  <2>3. Len(balance'[c]) = 1
      BY <1>2, <2>2
  <2> QED
      BY <1>4, <2>3
<1>5. CASE c \in Touched(plan[r].delta) /\ balance[c] # <<>>
  <2>1. c \notin plan[r].fresh
      BY <1>1, <1>5 DEF RowInv, FreshIsEmpty
  <2>2. balance'[c] = [balance[c] EXCEPT ![1] = plan[r].next[c]]
      BY <1>1, <1>5, <2>1 DEF Written
  <2>3. 1 \in 1 .. Len(balance[c])
      BY <1>2, <1>5
  <2>4. Len(balance'[c]) = Len(balance[c])
      BY <1>2, <2>2, <2>3, ExceptSeq
  <2> QED
      BY <1>2, <1>5, <2>4
<1> QED
    BY <1>3, <1>4, <1>5

LEMMA RowStep ==
    ASSUME RowInv, [Next]_vars
    PROVE  RowInv'
<1>0. TypeOK'
    BY TypeStep DEF RowInv
<1>1. ASSUME NEW r \in Requests, Begin(r) \/ Lookup(r) \/ Insert(r) \/ Refuse(r) \/ Abort(r)
      PROVE  RowInv'
  <2>1. balance' = balance
      BY <1>1 DEF Begin, Lookup, Insert, Refuse, Abort
  <2>2. \A q \in Requests : phase'[q] = "moved" => phase[q] = "moved" /\ plan'[q] = plan[q]
      BY <1>1, WalkKeepsPlans DEF RowInv
  <2> QED
      BY <1>0, <2>1, <2>2 DEF RowInv, RowsAreAlone, FreshIsEmpty, PlansAreApart
<1>2. ASSUME NEW r \in Requests, Move(r)
      PROVE  RowInv'
  <2> DEFINE delta == DeltaOf(r)
  <2>1. /\ plan'[r].delta = delta
        /\ plan'[r].fresh = {c \in Touched(delta) : balance[c] = <<>>}
      BY <1>2 DEF Move, RowInv, TypeOK
  <2>2. /\ balance' = balance /\ phase' = [phase EXCEPT ![r] = "moved"]
        /\ \A q \in Requests : q # r => phase'[q] = phase[q] /\ plan'[q] = plan[q]
      BY <1>2 DEF Move, Goto, RowInv, TypeOK
  <2>3. \A q \in Requests : q # r /\ phase[q] = "moved" =>
            Touched(delta) \cap Touched(plan[q].delta) \cap LotCells = {}
    <3> SUFFICES ASSUME NEW q \in Requests, q # r, phase[q] = "moved"
                 PROVE  Touched(delta) \cap Touched(plan[q].delta) \cap LotCells = {}
        OBVIOUS
    <3>1. Touched(delta) \cap Locks(q) = {}
        BY <1>2 DEF Move, Unlocked
    <3> QED
        BY <3>1 DEF Locks
  <2> HIDE DEF delta
  <2>4. FreshIsEmpty'
      BY <2>1, <2>2 DEF RowInv, FreshIsEmpty
  <2>5. PlansAreApart'
      BY <2>1, <2>2, <2>3 DEF RowInv, PlansAreApart
  <2> QED
      BY <1>0, <2>2, <2>4, <2>5 DEF RowInv, RowsAreAlone
<1>3. ASSUME NEW r \in Requests, Commit(r)
      PROVE  RowInv'
  <2>1. phase[r] = "moved"
        /\ \A q \in Requests : phase'[q] = "moved" => phase[q] = "moved" /\ q # r /\ plan'[q] = plan[q]
      BY <1>3 DEF Commit, Goto, RowInv, TypeOK
  <2>2. \A c \in LotCells : Len(balance'[c]) <= 1 /\
            (c \notin Touched(plan[r].delta) => balance'[c] = balance[c])
      BY <1>3, RowWritten
  <2>3. FreshIsEmpty'
    <3> SUFFICES ASSUME NEW q \in Requests, phase'[q] = "moved",
                        NEW c \in Touched(plan[q].delta) \cap LotCells
                 PROVE  c \in plan[q].fresh <=> balance'[c] = <<>>
        BY <2>1 DEF FreshIsEmpty
    <3>1. c \notin Touched(plan[r].delta) /\ phase[q] = "moved"
        BY <2>1 DEF RowInv, PlansAreApart
    <3> QED
        BY <2>2, <3>1 DEF RowInv, FreshIsEmpty
  <2>4. PlansAreApart'
      BY <2>1 DEF RowInv, PlansAreApart
  <2> QED
      BY <1>0, <2>2, <2>3, <2>4 DEF RowInv, RowsAreAlone
<1>4. ASSUME \/ \E c \in Cells, held \in Holds : Reserve(c, held) \/ Release(c, held)
             \/ \E c \in Lenient : SetPolicy(c)
             \/ UNCHANGED vars
      PROVE  RowInv'
  <2>1. UNCHANGED <<balance, plan, phase>>
      BY <1>4 DEF Reserve, Release, SetPolicy, vars
  <2> QED
      BY <1>0, <2>1 DEF RowInv, RowsAreAlone, FreshIsEmpty, PlansAreApart
<1> QED
    BY <1>1, <1>2, <1>3, <1>4 DEF Next

LEMMA RowInit == Init => RowInv
<1> SUFFICES ASSUME Init
             PROVE  RowInv
    OBVIOUS
<1>1. RowsAreAlone
    BY CellsAssumption DEF Init, RowsAreAlone
<1>2. FreshIsEmpty /\ PlansAreApart
    BY DEF Init, FreshIsEmpty, PlansAreApart
<1> QED
    BY <1>1, <1>2, TypeInit DEF RowInv

(***************************************************************************)
(* A cell with a lot has one balance row: the unique constraint makes a    *)
(* racing first movement wait for the row it would duplicate.              *)
(***************************************************************************)
THEOREM RowsCorrect == Spec => []OneRow
<1>1. RowInv /\ [Next]_vars => RowInv'
    BY RowStep
<1>2. RowInv => OneRow
    BY DEF RowInv, RowsAreAlone, OneRow
<1> QED
    BY RowInit, <1>1, <1>2, PTL DEF Spec

-----------------------------------------------------------------------------
(* Cover: what was checked under a row's lock still holds when it is       *)
(* written.                                                                *)

RowsMayBeNegative == \A c \in Cells : \A i \in DOMAIN balance[c] : balance[c][i] < 0 => c \in Lenient

RowsCoverHolds ==
    \A c \in Cells :
        /\ Len(balance[c]) = 1 => Balanced(balance[c][1], reserved[c])
        /\ balance[c] = <<>> => reserved[c] = 0

PlansCover ==
    \A r \in Requests : phase[r] = "moved" =>
        \A c \in Touched(plan[r].delta) :
            IF c \in plan[r].fresh THEN plan[r].delta[c] < 0 => c \in Lenient
            ELSE /\ balance[c] # <<>>
                 /\ plan[r].next[c] < 0 => c \in Lenient
                 /\ Balanced(plan[r].next[c], reserved[c])

LocksAreApart ==
    \A r, q \in Requests : phase[r] = "moved" /\ phase[q] = "moved" /\ r # q =>
        Locks(r) \cap Locks(q) = {}

CoverInv ==
    /\ TypeOK
    /\ RowsMayBeNegative
    /\ RowsCoverHolds
    /\ PlansCover
    /\ LocksAreApart

\* A row after a commit: untouched, appended to, or overwritten.
LEMMA CoverWritten ==
    ASSUME CoverInv, NEW r \in Requests, Commit(r), NEW c \in Cells
    PROVE  /\ balance[c] # <<>> => balance'[c] # <<>>
           /\ \A i \in DOMAIN balance'[c] : balance'[c][i] < 0 => c \in Lenient
           /\ Len(balance'[c]) = 1 => Balanced(balance'[c][1], reserved[c])
           /\ balance'[c] = <<>> => reserved[c] = 0
<1>1. balance'[c] = Written(r, c) /\ phase[r] = "moved"
    BY DEF Commit
<1>2. /\ balance[c] \in Seq(Int) /\ plan[r].delta[c] \in Int /\ plan[r].next[c] \in Int
      /\ reserved[c] \in Nat
    BY DEF CoverInv, TypeOK, Deltas
<1>3. /\ \A i \in DOMAIN balance[c] : balance[c][i] < 0 => c \in Lenient
      /\ Len(balance[c]) = 1 => Balanced(balance[c][1], reserved[c])
      /\ balance[c] = <<>> => reserved[c] = 0
    BY DEF CoverInv, RowsMayBeNegative, RowsCoverHolds
<1>4. CASE c \notin Touched(plan[r].delta)
    BY <1>1, <1>3, <1>4 DEF Written
<1>5. CASE c \in Touched(plan[r].delta) /\ c \in plan[r].fresh
  <2> DEFINE s == balance[c]
             d == plan[r].delta[c]
  <2>1. balance'[c] = Append(s, d)
      BY <1>1, <1>5 DEF Written
  <2>2. d < 0 => c \in Lenient
      BY <1>1, <1>5 DEF CoverInv, PlansCover
  <2>3. /\ Len(Append(s, d)) = Len(s) + 1
        /\ \A i \in 1 .. Len(s) : Append(s, d)[i] = s[i]
        /\ Append(s, d)[Len(s) + 1] = d
        /\ DOMAIN Append(s, d) = 1 .. Len(s) + 1
        /\ DOMAIN s = 1 .. Len(s) /\ Len(s) \in Nat
        /\ Append(s, d) # <<>>
    <3>1. s \in Seq(Int) /\ d \in Int
        BY <1>2
    <3>2. DOMAIN s = 1 .. Len(s) /\ Len(s) \in Nat
        BY <3>1
    <3> HIDE DEF s, d
    <3> QED
        BY <3>1, <3>2, AppendProperties
  <2>4. Len(s) = 0 => s = <<>>
      BY <1>2
  <2>5. \A i \in DOMAIN balance'[c] : balance'[c][i] < 0 => c \in Lenient
      BY <1>3, <2>1, <2>2, <2>3
  <2>6. Len(balance'[c]) = 1 => Balanced(balance'[c][1], reserved[c])
    <3> SUFFICES ASSUME Len(balance'[c]) = 1
                 PROVE  Balanced(balance'[c][1], reserved[c])
        OBVIOUS
    <3>1. Len(s) = 0 /\ reserved[c] = 0 /\ balance'[c][1] = d
        BY <1>3, <2>1, <2>3, <2>4
    <3> QED
        BY <1>2, <3>1 DEF Balanced
  <2> QED
      BY <2>1, <2>3, <2>5, <2>6
<1>6. CASE c \in Touched(plan[r].delta) /\ c \notin plan[r].fresh
  <2>1. /\ balance[c] # <<>>
        /\ plan[r].next[c] < 0 => c \in Lenient
        /\ Balanced(plan[r].next[c], reserved[c])
      BY <1>1, <1>6 DEF CoverInv, PlansCover
  <2>2. balance'[c] = [balance[c] EXCEPT ![1] = plan[r].next[c]]
      BY <1>1, <1>6 DEF Written
  <2>3. 1 \in 1 .. Len(balance[c]) /\ DOMAIN balance[c] = 1 .. Len(balance[c])
      BY <1>2, <2>1
  <2>4. /\ balance'[c] \in Seq(Int)
        /\ Len(balance'[c]) = Len(balance[c])
        /\ \A i \in 1 .. Len(balance[c]) :
               balance'[c][i] = IF i = 1 THEN plan[r].next[c] ELSE balance[c][i]
      BY <1>2, <2>2, <2>3, ExceptSeq
  <2>5. DOMAIN balance'[c] = 1 .. Len(balance[c]) /\ balance'[c] # <<>>
      BY <2>3, <2>4
  <2> QED
      BY <1>3, <1>6, <2>1, <2>3, <2>4, <2>5
<1> QED
    BY <1>4, <1>5, <1>6

LEMMA CoverStep ==
    ASSUME CoverInv, [Next]_vars
    PROVE  CoverInv'
<1>0. TypeOK'
    BY TypeStep DEF CoverInv
<1>1. ASSUME NEW r \in Requests, Begin(r) \/ Lookup(r) \/ Insert(r) \/ Refuse(r) \/ Abort(r)
      PROVE  CoverInv'
  <2>1. UNCHANGED <<balance, reserved>>
      BY <1>1 DEF Begin, Lookup, Insert, Refuse, Abort
  <2>2. \A q \in Requests : phase'[q] = "moved" => phase[q] = "moved" /\ plan'[q] = plan[q]
      BY <1>1, WalkKeepsPlans DEF CoverInv
  <2>3. PlansCover'
      BY <2>1, <2>2 DEF CoverInv, PlansCover
  <2>4. LocksAreApart'
      BY <2>2 DEF CoverInv, LocksAreApart, Locks
  <2> QED
      BY <1>0, <2>1, <2>3, <2>4 DEF CoverInv, RowsMayBeNegative, RowsCoverHolds
<1>2. ASSUME NEW r \in Requests, Move(r)
      PROVE  CoverInv'
  <2> DEFINE delta == DeltaOf(r)
  <2>1. /\ plan'[r].delta = delta
        /\ plan'[r].next = [c \in Cells |-> OnHand(c) + delta[c]]
        /\ plan'[r].fresh = {c \in Touched(delta) : balance[c] = <<>>}
        /\ \A c \in Touched(delta) : Fits(c, OnHand(c) + delta[c])
        /\ Unlocked(Touched(delta))
        /\ delta \in Deltas
      BY <1>2, DeltaType DEF Move, CoverInv, TypeOK, Touched
  <2>2. /\ UNCHANGED <<balance, reserved>> /\ phase' = [phase EXCEPT ![r] = "moved"]
        /\ \A q \in Requests : q # r => phase'[q] = phase[q] /\ plan'[q] = plan[q]
      BY <1>2 DEF Move, Goto, CoverInv, TypeOK
  <2>3. Touched(delta) \subseteq Cells
      BY DEF Touched
  <2> HIDE DEF delta
  <2>4. ASSUME NEW c \in Touched(delta)
        PROVE  IF c \in plan'[r].fresh THEN plan'[r].delta[c] < 0 => c \in Lenient
               ELSE /\ balance'[c] # <<>>
                    /\ plan'[r].next[c] < 0 => c \in Lenient
                    /\ Balanced(plan'[r].next[c], reserved'[c])
    <3>1. /\ (OnHand(c) + delta[c] < 0 => c \in lenient) /\ lenient \subseteq Lenient
          /\ Balanced(OnHand(c) + delta[c], reserved[c])
        BY <2>1 DEF Fits, CoverInv, TypeOK
    <3>2. c \in plan'[r].fresh => OnHand(c) + delta[c] = delta[c]
        BY <2>1, <2>3 DEF OnHand, Deltas
    <3> QED
        BY <2>1, <2>2, <2>3, <3>1, <3>2
  <2>5. PlansCover'
      BY <2>1, <2>2, <2>4 DEF CoverInv, PlansCover
  <2>6. LocksAreApart'
    <3>1. Locks(r)' \subseteq Touched(delta)
        BY <2>1 DEF Locks
    <3>2. \A q \in Requests : q # r => Locks(q)' = Locks(q)
        BY <2>2 DEF Locks, Touched
    <3>3. \A q \in Requests : q # r /\ phase[q] = "moved" => Touched(delta) \cap Locks(q) = {}
        BY <2>1 DEF Unlocked
    <3> QED
        BY <2>2, <3>1, <3>2, <3>3 DEF CoverInv, LocksAreApart
  <2> QED
      BY <1>0, <2>2, <2>5, <2>6 DEF CoverInv, RowsMayBeNegative, RowsCoverHolds
<1>3. ASSUME NEW r \in Requests, Commit(r)
      PROVE  CoverInv'
  <2>1. /\ UNCHANGED reserved /\ phase[r] = "moved"
        /\ \A q \in Requests : phase'[q] = "moved" => phase[q] = "moved" /\ q # r /\ plan'[q] = plan[q]
      BY <1>3 DEF Commit, Goto, CoverInv, TypeOK
  <2>2. RowsMayBeNegative' /\ RowsCoverHolds'
      BY <1>3, <2>1, CoverWritten DEF RowsMayBeNegative, RowsCoverHolds
  <2>3. PlansCover'
    <3>1. \A c \in Cells : balance[c] # <<>> => balance'[c] # <<>>
        BY <1>3, CoverWritten
    <3> QED
        BY <2>1, <3>1 DEF CoverInv, PlansCover, Touched
  <2>4. LocksAreApart'
      BY <2>1 DEF CoverInv, LocksAreApart, Locks
  <2> QED
      BY <1>0, <2>2, <2>3, <2>4 DEF CoverInv
<1>4. ASSUME NEW c \in Cells, NEW held \in Holds, Reserve(c, held) \/ Release(c, held)
      PROVE  CoverInv'
  <2>1. /\ UNCHANGED <<balance, plan, phase>> /\ Len(balance[c]) = 1
        /\ \A x \in Cells : x # c => reserved'[x] = reserved[x]
        /\ \A q \in Requests : phase[q] = "moved" => c \notin Locks(q)
      BY <1>4 DEF Reserve, Release, Unlocked, CoverInv, TypeOK
  <2>2. balance[c] \in Seq(Int) /\ balance[c] # <<>>
    <3>1. balance[c] \in Seq(Int)
        BY DEF CoverInv, TypeOK
    <3>2. Len(<<>>) = 0
        BY EmptySeq
    <3>3. Len(balance[c]) # Len(<<>>)
        BY <2>1, <3>2
    <3> QED
        BY <3>1, <3>3, Zenon
  <2>3. Balanced(balance[c][1], reserved'[c])
    <3>1. CASE Reserve(c, held)
      <4>1. /\ reserved'[c] = reserved[c] + held /\ reserved[c] + held <= balance[c][1]
            /\ reserved[c] \in Nat /\ held \in Nat
          BY <2>2, <3>1, HoldsAssumption DEF Reserve, OnHand, CoverInv, TypeOK
      <4>2. balance[c][1] \in Int
          BY <2>1, <2>2
      <4> QED
          BY <4>1, <4>2 DEF Balanced
    <3>2. CASE Release(c, held)
        BY <2>2, <3>2 DEF Release, OnHand, CoverInv, TypeOK
    <3> QED
        BY <1>4, <3>1, <3>2
  <2>4. RowsCoverHolds'
      BY <2>1, <2>2, <2>3 DEF CoverInv, RowsCoverHolds
  <2>5. PlansCover'
    <3> SUFFICES ASSUME NEW q \in Requests, phase[q] = "moved", NEW x \in Touched(plan[q].delta),
                        x \notin plan[q].fresh
                 PROVE  Balanced(plan[q].next[x], reserved'[x])
        BY <2>1 DEF CoverInv, PlansCover
    <3>1. x # c /\ x \in Cells
        BY <2>1 DEF Locks, Touched
    <3> QED
        BY <2>1, <3>1 DEF CoverInv, PlansCover
  <2> QED
      BY <1>0, <2>1, <2>4, <2>5 DEF CoverInv, RowsMayBeNegative, LocksAreApart, Locks, Touched
<1>5. ASSUME (\E c \in Lenient : SetPolicy(c)) \/ UNCHANGED vars
      PROVE  CoverInv'
  <2>1. UNCHANGED <<balance, reserved, plan, phase>>
      BY <1>5 DEF SetPolicy, vars
  <2> QED
      BY <1>0, <2>1
      DEF CoverInv, RowsMayBeNegative, RowsCoverHolds, PlansCover, LocksAreApart, Locks, Touched
<1> QED
    BY <1>1, <1>2, <1>3, <1>4, <1>5 DEF Next

(***************************************************************************)
(* However requests, reservations and policy changes interleave, stock is  *)
(* negative only where a policy may allow it, and a cell's one row covers  *)
(* what is reserved of it.                                                 *)
(***************************************************************************)
THEOREM StockIsCovered == Spec => []StockCovers
<1>1. Init => CoverInv
    BY TypeInit DEF Init, CoverInv, RowsMayBeNegative, RowsCoverHolds, PlansCover, LocksAreApart
<1>2. CoverInv /\ [Next]_vars => CoverInv'
    BY CoverStep
<1>3. CoverInv => StockCovers
    BY DEF CoverInv, StockCovers, RowsMayBeNegative, RowsCoverHolds
<1> QED
    BY <1>1, <1>2, <1>3, PTL DEF Spec

-----------------------------------------------------------------------------
(* The rows of a cell and its movements change by the same amount.  What a *)
(* request computed for a row it locked is still right when it writes it:  *)
(* another request may append a row to the cell, and write no earlier one. *)

LEMMA SumIsOverDomain == \A f : Sum(f) = SumFunctionOnSet(f, DOMAIN f)
BY DEF Sum, FoldFunction, FoldFunctionOnSet, SumFunctionOnSet

NextIsCurrent ==
    \A r \in Requests : phase[r] = "moved" =>
        \A c \in Touched(plan[r].delta) \ plan[r].fresh :
            plan[r].next[c] = balance[c][1] + plan[r].delta[c]

BooksInv ==
    /\ CoverInv
    /\ NextIsCurrent
    /\ Reconciled

LEMMA FirstRowStays ==
    ASSUME BooksInv, NEW r \in Requests, Commit(r), NEW q \in Requests, q # r,
           phase[q] = "moved", NEW c \in Touched(plan[q].delta) \ plan[q].fresh
    PROVE  balance'[c][1] = balance[c][1]
<1>1. /\ balance'[c] = Written(r, c) /\ phase[r] = "moved" /\ c \in Cells
      /\ balance[c] \in Seq(Int) /\ plan[r].delta[c] \in Int
    BY DEF Commit, Touched, BooksInv, CoverInv, TypeOK, Deltas
<1>2. c \in Locks(q) /\ c \notin Locks(r)
    BY <1>1 DEF Locks, BooksInv, CoverInv, LocksAreApart
<1>3. balance[c] # <<>>
    BY <1>1 DEF BooksInv, CoverInv, PlansCover
<1>4. CASE c \notin Touched(plan[r].delta)
    BY <1>1, <1>4 DEF Written
<1>5. CASE c \in Touched(plan[r].delta) /\ c \in plan[r].fresh
  <2>1. balance'[c] = Append(balance[c], plan[r].delta[c])
      BY <1>1, <1>5 DEF Written
  <2>2. 1 \in 1 .. Len(balance[c])
      BY <1>1, <1>3
  <2> QED
      BY <1>1, <2>1, <2>2, AppendProperties
<1> QED
    BY <1>2, <1>4, <1>5 DEF Locks

LEMMA RowsChange ==
    ASSUME BooksInv, NEW r \in Requests, Commit(r), NEW c \in Cells
    PROVE  /\ Sum(balance[c]) \in Int
           /\ Sum(balance'[c]) = Sum(balance[c]) + plan[r].delta[c]
<1> DEFINE s == balance[c]
           d == plan[r].delta[c]
           n == Len(balance[c])
<1>1. /\ balance'[c] = Written(r, c) /\ phase[r] = "moved"
      /\ s \in Seq(Int) /\ d \in Int /\ plan[r].next[c] \in Int
    BY DEF Commit, BooksInv, CoverInv, TypeOK, Deltas
<1>2. /\ DOMAIN s = 1 .. n /\ n \in Nat /\ IsFiniteSet(1 .. n)
      /\ \A i \in 1 .. n : s[i] \in Int
    BY <1>1, FS_Interval
<1>3. Sum(s) = SumFunctionOnSet(s, 1 .. n) /\ SumFunctionOnSet(s, 1 .. n) \in Int
    BY <1>2, SumIsOverDomain, SumType
<1>4. CASE c \notin Touched(plan[r].delta)
  <2>1. balance'[c] = s /\ d = 0
      BY <1>1, <1>4 DEF Written, Touched
  <2> QED
      BY <1>3, <2>1
<1>5. CASE c \in Touched(plan[r].delta) /\ c \in plan[r].fresh
  <2> DEFINE t == Append(s, d)
  <2>1. balance'[c] = t
      BY <1>1, <1>5 DEF Written
  <2>2. /\ DOMAIN t = (1 .. n) \cup {n + 1}
        /\ n + 1 \notin 1 .. n
        /\ \A i \in 1 .. n : t[i] = s[i]
        /\ t[n + 1] = d
    <3>1. Len(t) = n + 1 /\ t \in Seq(Int)
        BY <1>1
    <3>2. DOMAIN t = 1 .. n + 1
        BY <3>1
    <3>3. 1 .. n + 1 = (1 .. n) \cup {n + 1}
        BY <1>2
    <3>4. (\A i \in 1 .. n : t[i] = s[i]) /\ t[n + 1] = d
        BY <1>1
    <3> QED
        BY <1>2, <3>2, <3>3, <3>4
  <2>3. Sum(t) = SumFunctionOnSet(t, (1 .. n) \cup {n + 1})
      BY <2>2, SumIsOverDomain
  <2> HIDE DEF t, s, d, n
  <2>4. SumFunctionOnSet(t, (1 .. n) \cup {n + 1}) = SumFunctionOnSet(t, 1 .. n) + t[n + 1]
    <3>1. \A i \in (1 .. n) \cup {n + 1} : t[i] \in Int
        BY <1>1, <1>2, <2>2
    <3> QED
        BY <1>2, <2>2, <3>1, SumAdds
  <2>5. SumFunctionOnSet(t, 1 .. n) = SumFunctionOnSet(s, 1 .. n)
      BY <1>2, <2>2, SumSame
  <2>6. Sum(t) = Sum(s) + d /\ Sum(s) \in Int
      BY <1>3, <2>2, <2>3, <2>4, <2>5
  <2> QED
      BY <2>1, <2>6 DEF s, d
<1>6. CASE c \in Touched(plan[r].delta) /\ c \notin plan[r].fresh
  <2>1. balance[c] # <<>> /\ plan[r].next[c] = s[1] + d
      BY <1>1, <1>6 DEF BooksInv, CoverInv, PlansCover, NextIsCurrent
  <2>2. balance'[c] = [s EXCEPT ![1] = plan[r].next[c]]
      BY <1>1, <1>6 DEF Written
  <2>3. 1 \in 1 .. n
      BY <1>1, <1>2, <2>1
  <2>4. /\ DOMAIN balance'[c] = 1 .. n
        /\ balance'[c][1] = s[1] + d
        /\ \A i \in (1 .. n) \ {1} : balance'[c][i] = s[i]
      BY <1>2, <2>1, <2>2, <2>3
  <2> HIDE DEF s, d, n
  <2>5. SumFunctionOnSet(balance'[c], 1 .. n) = SumFunctionOnSet(s, 1 .. n) + d
    <3>1. ASSUME NEW I, IsFiniteSet(I), NEW e \in I, NEW u, u[e] = s[e] + d,
                 \A i \in I : s[i] \in Int, \A i \in I \ {e} : u[i] = s[i]
          PROVE  SumFunctionOnSet(u, I) = SumFunctionOnSet(s, I) + d
        BY <1>1, <3>1, SumIncreases
    <3> QED
        BY <1>2, <2>3, <2>4, <3>1
  <2>6. Sum(balance'[c]) = Sum(s) + d /\ Sum(s) \in Int
      BY <1>3, <2>4, <2>5, SumIsOverDomain
  <2> QED
      BY <2>6 DEF s, d
<1> QED
    BY <1>4, <1>5, <1>6

LEMMA MovementsChange ==
    ASSUME BooksInv, NEW r \in Requests, Commit(r), NEW c \in Cells
    PROVE  Sum([k \in Keys |-> moved'[k][c]]) =
               Sum([k \in Keys |-> moved[k][c]]) + plan[r].delta[c]
<1> DEFINE f == [k \in Keys |-> moved[k][c]]
           g == [k \in Keys |-> moved'[k][c]]
           d == plan[r].delta[c]
<1>1. /\ \A k \in Keys : f[k] \in Int
      /\ d \in Int /\ Key[r] \in Keys
    BY CommandType DEF BooksInv, CoverInv, TypeOK, Deltas
<1>2. /\ g[Key[r]] = f[Key[r]] + d
      /\ \A k \in Keys \ {Key[r]} : g[k] = f[k]
    BY <1>1 DEF Commit, BooksInv, CoverInv, TypeOK
<1>3. DOMAIN f = Keys /\ DOMAIN g = Keys
    OBVIOUS
<1> HIDE DEF f, g, d
<1>4. SumFunctionOnSet(g, Keys) = SumFunctionOnSet(f, Keys) + d
    BY <1>1, <1>2, SumIncreases, KeysAssumption
<1>5. Sum(g) = Sum(f) + d
    BY <1>3, <1>4, SumIsOverDomain
<1> QED
    BY <1>5 DEF f, g, d

LEMMA BooksStep ==
    ASSUME BooksInv, [Next]_vars
    PROVE  BooksInv'
<1>0. CoverInv' /\ CoverInv /\ TypeOK
    BY CoverStep DEF BooksInv, CoverInv
<1>1. ASSUME NEW r \in Requests, Begin(r) \/ Lookup(r) \/ Insert(r) \/ Refuse(r) \/ Abort(r)
      PROVE  BooksInv'
  <2>1. UNCHANGED <<balance, moved>>
      BY <1>1 DEF Begin, Lookup, Insert, Refuse, Abort
  <2>2. \A q \in Requests : phase'[q] = "moved" => phase[q] = "moved" /\ plan'[q] = plan[q]
      BY <1>0, <1>1, WalkKeepsPlans
  <2> QED
      BY <1>0, <2>1, <2>2 DEF BooksInv, NextIsCurrent, Reconciled, Touched
<1>2. ASSUME NEW r \in Requests, Move(r)
      PROVE  BooksInv'
  <2> DEFINE delta == DeltaOf(r)
  <2>1. /\ plan'[r].delta = delta
        /\ plan'[r].next = [c \in Cells |-> OnHand(c) + delta[c]]
        /\ plan'[r].fresh = {c \in Touched(delta) : balance[c] = <<>>}
      BY <1>0, <1>2 DEF Move, TypeOK
  <2>2. /\ UNCHANGED <<balance, moved>> /\ phase' = [phase EXCEPT ![r] = "moved"]
        /\ \A q \in Requests : q # r => phase'[q] = phase[q] /\ plan'[q] = plan[q]
      BY <1>0, <1>2 DEF Move, Goto, TypeOK
  <2>3. Touched(delta) \subseteq Cells
      BY DEF Touched
  <2> HIDE DEF delta
  <2>4. NextIsCurrent'
      BY <2>1, <2>2, <2>3 DEF BooksInv, NextIsCurrent, OnHand
  <2>5. Reconciled'
      BY <2>2 DEF BooksInv, Reconciled
  <2> QED
      BY <1>0, <2>4, <2>5 DEF BooksInv
<1>3. ASSUME NEW r \in Requests, Commit(r)
      PROVE  BooksInv'
  <2>1. \A q \in Requests : phase'[q] = "moved" => phase[q] = "moved" /\ q # r /\ plan'[q] = plan[q]
      BY <1>0, <1>3 DEF Commit, Goto, TypeOK
  <2>2. NextIsCurrent'
    <3> SUFFICES ASSUME NEW q \in Requests, phase'[q] = "moved",
                        NEW c \in Touched(plan[q].delta) \ plan[q].fresh
                 PROVE  plan[q].next[c] = balance'[c][1] + plan[q].delta[c]
        BY <2>1 DEF NextIsCurrent
    <3> QED
        BY <1>3, <2>1, FirstRowStays DEF BooksInv, NextIsCurrent
  <2>3. Reconciled'
    <3> SUFFICES ASSUME NEW c \in Cells
                 PROVE  Sum(balance'[c]) = Sum([k \in Keys |-> moved'[k][c]])
        BY DEF Reconciled
    <3>1. Sum(balance[c]) = Sum([k \in Keys |-> moved[k][c]])
        BY DEF BooksInv, Reconciled
    <3> QED
        BY <1>3, <3>1, RowsChange, MovementsChange
  <2> QED
      BY <1>0, <2>2, <2>3 DEF BooksInv
<1>4. ASSUME \/ \E c \in Cells, held \in Holds : Reserve(c, held) \/ Release(c, held)
             \/ \E c \in Lenient : SetPolicy(c)
             \/ UNCHANGED vars
      PROVE  BooksInv'
  <2>1. UNCHANGED <<balance, plan, phase, moved>>
      BY <1>4 DEF Reserve, Release, SetPolicy, vars
  <2> QED
      BY <1>0, <2>1 DEF BooksInv, NextIsCurrent, Reconciled, Touched
<1> QED
    BY <1>1, <1>2, <1>3, <1>4 DEF Next

LEMMA BooksInit == Init => BooksInv
<1> SUFFICES ASSUME Init PROVE BooksInv
    OBVIOUS
<1>1. CoverInv
    BY TypeInit DEF Init, CoverInv, RowsMayBeNegative, RowsCoverHolds, PlansCover, LocksAreApart
<1>2. ASSUME NEW c \in Cells
      PROVE  Sum(balance[c]) = Sum([k \in Keys |-> moved[k][c]])
  <2> DEFINE f == [k \in Keys |-> moved[k][c]]
  <2>1. (\A k \in Keys : f[k] = 0) /\ DOMAIN f = Keys
      BY DEF Init, Zero
  <2> HIDE DEF f
  <2>2. Sum(f) = 0
      BY <2>1, SumIsOverDomain, SumZero, KeysAssumption
  <2>3. balance[c] = <<>> /\ DOMAIN <<>> = {}
      BY DEF Init
  <2>4. Sum(balance[c]) = 0
      BY <2>3, SumIsOverDomain, SumEmpty
  <2> QED
      BY <2>2, <2>4 DEF f
<1> QED
    BY <1>1, <1>2 DEF Init, BooksInv, NextIsCurrent, Reconciled

(***************************************************************************)
(* However many requests compute new balances at once, the balance rows of *)
(* a cell add up to its movements, be there one row or several.            *)
(***************************************************************************)
THEOREM BooksBalance == Spec => []Reconciled
<1>1. Init => BooksInv
    BY BooksInit
<1>2. BooksInv /\ [Next]_vars => BooksInv'
    BY BooksStep
<1>3. BooksInv => Reconciled
    BY DEF BooksInv
<1> QED
    BY <1>1, <1>2, <1>3, PTL DEF Spec
-----------------------------------------------------------------------------
(* Refinement.                                                             *)

\* What is torn moves the torn total, and nothing else does.
LEMMA TornTotals ==
    ASSUME WholeInv, TypeOK', NEW k \in Keys, NEW c \in Cells, NEW d \in Int,
           moved'[k][c] = moved[k][c] + d,
           \A x \in Keys : x # k => moved'[x] = moved[x],
           torn \subseteq torn', torn' \subseteq torn \cup {k}
    PROVE  /\ TornTotal(c) \in Int
           /\ k \notin torn' => TornTotal(c)' = TornTotal(c)
           /\ k \in torn => TornTotal(c)' = TornTotal(c) + d
           /\ k \in torn' /\ k \notin torn => TornTotal(c)' = TornTotal(c) + moved'[k][c]
<1> DEFINE f == [x \in torn |-> moved[x][c]]
           g == [x \in torn' |-> moved'[x][c]]
<1>1. /\ torn \subseteq Keys /\ torn' \subseteq Keys
      /\ \A x \in Keys : moved[x][c] \in Int /\ moved'[x][c] \in Int
    BY DEF WholeInv, KeyInv, TypeOK, Deltas
<1>2. IsFiniteSet(torn) /\ IsFiniteSet(torn')
    BY <1>1, KeysAssumption, FS_Subset
<1>3. /\ DOMAIN f = torn /\ DOMAIN g = torn'
      /\ \A x \in torn : f[x] = moved[x][c] /\ f[x] \in Int
      /\ \A x \in torn' : g[x] = moved'[x][c] /\ g[x] \in Int
    BY <1>1
<1>4. TornTotal(c) = Sum(f) /\ TornTotal(c)' = Sum(g)
    BY DEF TornTotal
<1> HIDE DEF f, g
<1>5. Sum(f) = SumFunctionOnSet(f, torn) /\ Sum(g) = SumFunctionOnSet(g, torn')
    BY <1>3, SumIsOverDomain
<1>6. SumFunctionOnSet(f, torn) \in Int
    BY <1>2, <1>3, SumType
<1>7. \A x \in torn : x # k => g[x] = f[x]
    BY <1>1, <1>3
<1>8. k \notin torn => SumFunctionOnSet(g, torn) = SumFunctionOnSet(f, torn)
  <2> SUFFICES ASSUME k \notin torn
               PROVE  SumFunctionOnSet(g, torn) = SumFunctionOnSet(f, torn)
      OBVIOUS
  <2>1. \A x \in torn : g[x] = f[x]
      BY <1>7
  <2> QED
      BY <1>2, <2>1, SumSame
<1>9. k \notin torn' => torn' = torn
    OBVIOUS
<1>10. k \in torn => SumFunctionOnSet(g, torn) = SumFunctionOnSet(f, torn) + d /\ torn' = torn
  <2> SUFFICES ASSUME k \in torn
               PROVE  SumFunctionOnSet(g, torn) = SumFunctionOnSet(f, torn) + d /\ torn' = torn
      OBVIOUS
  <2>1. g[k] = f[k] + d /\ torn' = torn
      BY <1>3
  <2>2. \A x \in torn \ {k} : g[x] = f[x]
      BY <1>7
  <2>3. \A x \in torn : f[x] \in Int
      BY <1>3
  <2> QED
      BY <1>2, <2>1, <2>2, <2>3, SumIncreases
<1>11. k \in torn' /\ k \notin torn =>
          SumFunctionOnSet(g, torn') = SumFunctionOnSet(g, torn) + moved'[k][c]
  <2> SUFFICES ASSUME k \in torn', k \notin torn
               PROVE  SumFunctionOnSet(g, torn') = SumFunctionOnSet(g, torn) + moved'[k][c]
      OBVIOUS
  <2>1. torn' = torn \cup {k} /\ g[k] = moved'[k][c]
      BY <1>3
  <2>2. \A x \in torn \cup {k} : g[x] \in Int
      BY <1>3, <2>1
  <2>3. SumFunctionOnSet(g, torn \cup {k}) = SumFunctionOnSet(g, torn) + g[k]
      BY <1>2, <2>2, SumAdds
  <2> QED
      BY <2>1, <2>3
<1>12. k \notin torn' => Sum(g) = Sum(f)
    BY <1>5, <1>8, <1>9
<1>13. k \in torn => Sum(g) = Sum(f) + d
    BY <1>5, <1>10
<1>14. k \in torn' /\ k \notin torn => Sum(g) = Sum(f) + moved'[k][c]
    BY <1>5, <1>8, <1>11
<1> QED
    BY <1>4, <1>5, <1>6, <1>12, <1>13, <1>14

\* The book, under the mapping.
BookStatus == [k \in Keys |-> IF k \in torn THEN "none" ELSE status[k]]
BookCommand == [k \in Keys |-> IF k \in torn THEN Nothing ELSE command[k]]
BookMoved == [k \in Keys |-> IF k \in torn THEN Zero ELSE moved[k]]
BookOnHand == [c \in Cells |-> Sum(balance[c]) - TornTotal(c)]

\* A commit that only concerns what is torn leaves the book alone.
LEMMA TornCommitIsUnseen ==
    ASSUME WholeInv, BooksInv, TypeOK', NEW r \in Requests, Commit(r), Key[r] \in torn'
    PROVE  UNCHANGED <<BookStatus, BookCommand, BookMoved, BookOnHand>>
<1> DEFINE k == Key[r]
           of == Command[r].of
<1>1. /\ k \in Keys
      /\ \A x \in Keys : x # k => moved'[x] = moved[x] /\ command'[x] = command[x]
      /\ moved'[k] = [c \in Cells |-> moved[k][c] + plan[r].delta[c]]
      /\ r \in inserted => ~Stored(k)
      /\ torn \subseteq torn' /\ torn' \subseteq torn \cup {k}
    BY CommitWrites
<1>2. k \notin torn => ~Stored(k) /\ of \in torn
  <2>1. k \notin torn => r \in inserted
      BY CommitWrites
  <2> QED
      BY <1>1, <2>1 DEF Commit
<1>3. k \in torn => of = None
  <2> SUFFICES ASSUME k \in torn, IsReversal(r)
               PROVE  FALSE
      BY DEF IsReversal
  <2>1. r \in inserted
      BY CommitWrites
  <2> QED
      BY <1>1, <2>1 DEF WholeInv, TornAreStored
<1>4. \A x \in Keys \ torn' : status'[x] = status[x]
  <2>1. \A x \in Keys \ torn' : x # k /\ x # of
      BY <1>1, <1>2, <1>3, KeysAssumption
  <2> QED
      BY <2>1 DEF Commit, StatusAfter
<1>5. k \notin torn => status[k] = "none" /\ command[k] = Nothing /\ moved[k] = Zero
    BY <1>1, <1>2 DEF WholeInv, UnstoredAreEmpty, Stored
<1>6. UNCHANGED <<BookStatus, BookCommand, BookMoved>>
  <2>1. \A x \in Keys : x \in torn' /\ x \notin torn => x = k /\ k \notin torn
      BY <1>1
  <2>2. \A x \in Keys \ torn' : command'[x] = command[x] /\ moved'[x] = moved[x] /\ x \notin torn
      BY <1>1
  <2>3. BookStatus' = BookStatus
      BY <1>1, <1>4, <1>5, <2>1 DEF BookStatus
  <2>4. BookCommand' = BookCommand
      BY <1>1, <1>5, <2>1, <2>2 DEF BookCommand
  <2>5. BookMoved' = BookMoved
      BY <1>1, <1>5, <2>1, <2>2 DEF BookMoved
  <2> QED
      BY <2>3, <2>4, <2>5
<1>7. ASSUME NEW c \in Cells
      PROVE  Sum(balance'[c]) - TornTotal(c)' = Sum(balance[c]) - TornTotal(c)
  <2> DEFINE d == plan[r].delta[c]
  <2>1. d \in Int /\ moved'[k][c] = moved[k][c] + d
      BY <1>1 DEF WholeInv, KeyInv, TypeOK, Deltas
  <2>2. Sum(balance[c]) \in Int /\ Sum(balance'[c]) = Sum(balance[c]) + d
      BY RowsChange
  <2>3. k \notin torn => moved'[k][c] = d
      BY <1>5, <2>1 DEF Zero
  <2> HIDE DEF d
  <2>4. \A x \in Keys : x # k => moved'[x] = moved[x]
      BY <1>1
  <2>5. /\ TornTotal(c) \in Int
        /\ k \in torn => TornTotal(c)' = TornTotal(c) + d
        /\ k \in torn' /\ k \notin torn => TornTotal(c)' = TornTotal(c) + moved'[k][c]
      BY <1>1, <2>1, <2>4, TornTotals
  <2>6. TornTotal(c) \in Int /\ TornTotal(c)' = TornTotal(c) + d
      BY <2>3, <2>5
  <2> QED
      BY <2>1, <2>2, <2>6
<1>8. BookOnHand' = BookOnHand
    BY <1>7 DEF BookOnHand
<1> QED
    BY <1>6, <1>8

\* What the book sees of any other commit.
LEMMA CommitIsSeen ==
    ASSUME WholeInv, BooksInv, TypeOK', NEW r \in Requests, Commit(r), Key[r] \notin torn'
    PROVE  /\ BookStatus[Key[r]] = "none"
           /\ BookStatus' = [BookStatus EXCEPT ![Key[r]] = "confirmed",
                                 ![Command[r].of] = IF IsReversal(r) THEN "reversed" ELSE @]
           /\ BookCommand' = [BookCommand EXCEPT ![Key[r]] = Command[r]]
           /\ BookMoved' = [BookMoved EXCEPT ![Key[r]] = DeltaOf(r)]
           /\ BookOnHand' = [c \in Cells |-> BookOnHand[c] + DeltaOf(r)[c]]
           /\ IsReversal(r) => /\ Command[r].of \in Keys
                               /\ BookStatus[Command[r].of] = "confirmed"
                               /\ BookMoved[Command[r].of] = moved[Command[r].of]
<1> DEFINE k == Key[r]
           of == Command[r].of
<1>1. /\ k \in Keys
      /\ \A x \in Keys : x # k => moved'[x] = moved[x] /\ command'[x] = command[x]
      /\ moved'[k] = [c \in Cells |-> moved[k][c] + plan[r].delta[c]]
      /\ command'[k] = Command[r]
      /\ IsReversal(r) => of \in Keys /\ of # k /\ Stored(of)
    BY CommitWrites
<1>2. /\ r \in inserted /\ ~Stored(k) /\ torn' = torn /\ k \notin torn
      /\ torn \subseteq torn' /\ torn' \subseteq torn \cup {k}
  <2>1. torn \subseteq torn' /\ torn' \subseteq torn \cup {k}
      BY CommitWrites
  <2>2. k \notin torn /\ torn' = torn
      BY <2>1
  <2>3. r \in inserted
      BY <2>2, CommitWrites
  <2>4. ~Stored(k)
      BY <2>3, CommitWrites
  <2> QED
      BY <2>1, <2>2, <2>3, <2>4
<1>3. of \notin torn /\ (of = None \/ of \in Keys)
    BY <1>2, CommandType DEF Commit
<1>4. status[k] = "none" /\ moved[k] = Zero
    BY <1>1, <1>2 DEF WholeInv, UnstoredAreEmpty, Stored
<1>5. plan[r].delta = DeltaOf(r) /\ DeltaOf(r) \in Deltas
    BY <1>3, DeltaType DEF Commit, WholeInv, KeyInv, PlansHold
<1>6. moved'[k] = DeltaOf(r)
  <2>1. DeltaOf(r) = [c \in Cells |-> DeltaOf(r)[c]] /\ \A c \in Cells : DeltaOf(r)[c] \in Int
      BY <1>5 DEF Deltas
  <2> HIDE DEF DeltaOf
  <2> QED
      BY <1>1, <1>4, <1>5, <2>1 DEF Zero
<1>7. \A x \in Keys : status'[x] = IF x = k THEN "confirmed" ELSE IF x = of THEN "reversed" ELSE status[x]
    BY <1>2 DEF Commit, StatusAfter
<1>8. BookStatus' = [BookStatus EXCEPT ![k] = "confirmed",
                         ![of] = IF IsReversal(r) THEN "reversed" ELSE @]
  <2>1. CASE IsReversal(r)
      BY <1>1, <1>2, <1>3, <1>7, <2>1 DEF BookStatus
  <2>2. CASE ~IsReversal(r)
      BY <1>1, <1>2, <1>3, <1>7, <2>2, KeysAssumption DEF BookStatus, IsReversal
  <2> QED
      BY <2>1, <2>2
<1>9. BookCommand' = [BookCommand EXCEPT ![k] = Command[r]]
    BY <1>1, <1>2 DEF BookCommand
<1>10. BookMoved' = [BookMoved EXCEPT ![k] = DeltaOf(r)]
    BY <1>1, <1>2, <1>6 DEF BookMoved
<1>11. BookOnHand' = [c \in Cells |-> BookOnHand[c] + DeltaOf(r)[c]]
  <2> SUFFICES ASSUME NEW c \in Cells
               PROVE  Sum(balance'[c]) - TornTotal(c)' = Sum(balance[c]) - TornTotal(c) + DeltaOf(r)[c]
      BY DEF BookOnHand
  <2> DEFINE d == DeltaOf(r)[c]
  <2>1. d \in Int /\ moved'[k][c] = moved[k][c] + d
    <3>1. d \in Int /\ moved[k][c] = 0
        BY <1>4, <1>5 DEF Deltas, Zero
    <3> QED
        BY <1>6, <3>1
  <2>2. Sum(balance[c]) \in Int /\ Sum(balance'[c]) = Sum(balance[c]) + d
      BY <1>5, RowsChange
  <2> HIDE DEF d
  <2>3. \A x \in Keys : x # k => moved'[x] = moved[x]
      BY <1>1
  <2>4. TornTotal(c) \in Int /\ TornTotal(c)' = TornTotal(c)
      BY <1>1, <1>2, <2>1, <2>3, TornTotals
  <2> QED
      BY <2>1, <2>2, <2>4 DEF d
<1>12. IsReversal(r) => status[of] = "confirmed"
  <2> SUFFICES ASSUME IsReversal(r)
               PROVE  status[of] = "confirmed"
      OBVIOUS
  <2>1. ~Reversed(of) /\ of \in Keys /\ Stored(of)
      BY <1>1, ReversalIsNew DEF WholeInv
  <2> QED
      BY <2>1 DEF WholeInv, KeyInv, ReversedHaveReversals, TypeOK, Stored
<1> QED
    BY <1>1, <1>2, <1>3, <1>4, <1>8, <1>9, <1>10, <1>11, <1>12 DEF BookStatus, BookMoved

\* Any other commit is an entry of the book.
LEMMA CommitIsRecorded ==
    ASSUME WholeInv, BooksInv, TypeOK', NEW r \in Requests, Commit(r), Key[r] \notin torn'
    PROVE  Book!BookNext
<1> DEFINE k == Key[r]
           of == Command[r].of
           postings == {Command[q].delta : q \in Requests}
<1>1. /\ k \in Keys /\ of \in Keys \cup {None} /\ Command[r].delta \in postings
      /\ Command[r] = [delta |-> Command[r].delta, of |-> of]
    BY CommandType DEF Commands
<1>2. /\ BookStatus[k] = "none"
      /\ BookStatus' = [BookStatus EXCEPT ![k] = "confirmed",
                            ![of] = IF IsReversal(r) THEN "reversed" ELSE @]
      /\ BookCommand' = [BookCommand EXCEPT ![k] = Command[r]]
      /\ BookMoved' = [BookMoved EXCEPT ![k] = DeltaOf(r)]
      /\ BookOnHand' = [c \in Cells |-> BookOnHand[c] + DeltaOf(r)[c]]
    BY CommitIsSeen
<1>3. IsReversal(r) => of \in Keys /\ BookStatus[of] = "confirmed" /\ BookMoved[of] = moved[of]
    BY CommitIsSeen
<1>4. \E asked \in postings : BookCommand' = [BookCommand EXCEPT ![k] = [delta |-> asked, of |-> of]]
    BY <1>1, <1>2
<1>5. CASE ~IsReversal(r)
  <2>1. DeltaOf(r) = Command[r].delta /\ of = None
      BY <1>5 DEF DeltaOf, IsReversal
  <2>2. BookStatus' = [BookStatus EXCEPT ![k] = "confirmed"]
      BY <1>1, <1>2, <1>5, <2>1, KeysAssumption DEF BookStatus
  <2>3. BookCommand'[k].delta = Command[r].delta
      BY <1>1, <1>2 DEF BookCommand
  <2>4. Book!Record(k, Command[r].delta, None)
      BY <1>2, <1>4, <2>1 DEF Book!Record, BookCommand, BookMoved, BookOnHand
  <2>5. Book!Post(k, Command[r].delta)
      BY <1>2, <2>2, <2>3, <2>4 DEF Book!Post, BookStatus, BookCommand
  <2> QED
      BY <1>1, <2>5 DEF Book!BookNext
<1>6. CASE IsReversal(r)
  <2>1. DeltaOf(r) = [c \in Cells |-> -BookMoved[of][c]]
      BY <1>3, <1>6 DEF DeltaOf
  <2>2. BookStatus' = [BookStatus EXCEPT ![k] = "confirmed", ![of] = "reversed"]
      BY <1>2, <1>6
  <2>3. Book!Record(k, [c \in Cells |-> -BookMoved[of][c]], of)
      BY <1>2, <1>4, <2>1 DEF Book!Record, BookCommand, BookMoved, BookOnHand
  <2>4. Book!Undo(k, of)
      BY <1>2, <1>3, <1>6, <2>2, <2>3 DEF Book!Undo, BookStatus, BookMoved
  <2> QED
      BY <1>1, <1>3, <1>6, <2>4 DEF Book!BookNext
<1> QED
    BY <1>5, <1>6

\* A refused request that leaves its operation behind leaves the book alone.
LEMMA StoreIsUnseen ==
    ASSUME WholeInv, BooksInv, TypeOK', NEW r \in inserted \ Atomic, Refuse(r)
    PROVE  UNCHANGED <<BookStatus, BookCommand, BookMoved, BookOnHand>>
<1> DEFINE k == Key[r]
<1>1. r \in Requests /\ k \in Keys /\ TypeOK
    BY CommandType DEF WholeInv, KeyInv, TypeOK
<1>2. status[k] = "none" /\ command[k] = Nothing /\ moved[k] = Zero /\ k \notin torn
    BY <1>1 DEF WholeInv, KeyInv, InsertsAreOpen, UnstoredAreEmpty, TornAreStored, Stored
<1>3. /\ UNCHANGED <<moved, balance>>
      /\ torn' = torn \cup {k}
      /\ \A x \in Keys : x # k => status'[x] = status[x] /\ command'[x] = command[x]
    BY <1>1 DEF Refuse, Store, TypeOK
<1>4. UNCHANGED <<BookStatus, BookCommand, BookMoved>>
  <2>1. BookStatus' = BookStatus
      BY <1>2, <1>3 DEF BookStatus
  <2>2. BookCommand' = BookCommand
      BY <1>2, <1>3 DEF BookCommand
  <2>3. BookMoved' = BookMoved
      BY <1>2, <1>3 DEF BookMoved
  <2> QED
      BY <2>1, <2>2, <2>3
<1>5. ASSUME NEW c \in Cells
      PROVE  TornTotal(c)' = TornTotal(c)
  <2>1. moved[k][c] = 0 /\ moved'[k][c] = moved[k][c] + 0 /\ moved'[k][c] = 0
      BY <1>2, <1>3 DEF Zero
  <2>2. TornTotal(c) \in Int /\ TornTotal(c)' = TornTotal(c) + moved'[k][c]
      BY <1>1, <1>2, <1>3, <2>1, TornTotals
  <2> QED
      BY <2>1, <2>2
<1>6. BookOnHand' = BookOnHand
    BY <1>3, <1>5 DEF BookOnHand
<1> QED
    BY <1>4, <1>6

(***************************************************************************)
(* The stock services implement the book: whatever is refused, aborted,    *)
(* retried or reversed, every step of theirs is an operation recorded once *)
(* and whole, or nothing, or concerns an operation that a refused request  *)
(* left without its movement.                                              *)
(***************************************************************************)
THEOREM ImplementsBook == Spec => HonoursBook
<1>1. Init => Book!BookInit
  <2> SUFFICES ASSUME Init
               PROVE  Book!BookInit
      OBVIOUS
  <2>1. BookStatus = [k \in Keys |-> "none"] /\ BookCommand = [k \in Keys |-> Nothing]
        /\ BookMoved = [k \in Keys |-> Zero]
      BY DEF Init, BookStatus, BookCommand, BookMoved
  <2>2. ASSUME NEW c \in Cells
        PROVE  Sum(balance[c]) - TornTotal(c) = 0
    <3> DEFINE f == [k \in torn |-> moved[k][c]]
    <3>1. DOMAIN f = {} /\ balance[c] = <<>> /\ DOMAIN <<>> = {}
        BY DEF Init
    <3>2. TornTotal(c) = Sum(f)
        BY DEF TornTotal
    <3> HIDE DEF f
    <3>3. Sum(f) = 0 /\ Sum(balance[c]) = 0
        BY <3>1, SumIsOverDomain, SumEmpty
    <3> QED
        BY <3>2, <3>3
  <2>3. BookOnHand = [c \in Cells |-> 0]
      BY <2>2 DEF BookOnHand
  <2> QED
      BY <2>1, <2>3 DEF Book!BookInit, BookStatus, BookCommand, BookMoved, BookOnHand, Nothing, Zero
<1>2. WholeInv /\ BooksInv /\ [Next]_vars => [Book!BookNext]_Book!bookVars
  <2> SUFFICES ASSUME WholeInv, BooksInv, [Next]_vars
               PROVE  [Book!BookNext]_Book!bookVars
      OBVIOUS
  <2>0. TypeOK'
      BY TypeStep DEF WholeInv, KeyInv
  <2>1. ASSUME UNCHANGED <<BookStatus, BookCommand, BookMoved, BookOnHand>>
        PROVE  UNCHANGED Book!bookVars
      BY <2>1 DEF Book!bookVars, BookStatus, BookCommand, BookMoved, BookOnHand
  <2>2. ASSUME NEW r \in Requests, Commit(r)
        PROVE  Book!BookNext \/ UNCHANGED Book!bookVars
      BY <2>0, <2>1, <2>2, CommitIsRecorded, TornCommitIsUnseen
  <2>3. ASSUME NEW r \in Requests, Refuse(r), r \in inserted \ Atomic
        PROVE  UNCHANGED Book!bookVars
      BY <2>0, <2>1, <2>3, StoreIsUnseen
  <2>4. ASSUME \/ \E r \in Requests :
                    \/ Begin(r) \/ Lookup(r) \/ Insert(r) \/ Move(r) \/ Abort(r)
                    \/ Refuse(r) /\ r \notin inserted \ Atomic
               \/ \E c \in Cells, held \in Holds : Reserve(c, held) \/ Release(c, held)
               \/ \E c \in Lenient : SetPolicy(c)
               \/ UNCHANGED vars
        PROVE  UNCHANGED Book!bookVars
    <3>1. UNCHANGED <<status, command, moved, balance, torn>>
        BY <2>4 DEF Begin, Lookup, Insert, Move, Refuse, Abort, Reserve, Release, SetPolicy, vars
    <3>2. UNCHANGED <<BookStatus, BookCommand, BookMoved>>
        BY <3>1 DEF BookStatus, BookCommand, BookMoved
    <3>3. \A c \in Cells : TornTotal(c)' = TornTotal(c)
        BY <3>1 DEF TornTotal
    <3>4. BookOnHand' = BookOnHand
        BY <3>1, <3>3 DEF BookOnHand
    <3> QED
        BY <2>1, <3>2, <3>4
  <2> QED
      BY <2>2, <2>3, <2>4 DEF Next
<1>3. WholeInv /\ [Next]_vars => WholeInv'
    BY WholeStep
<1>4. BooksInv /\ [Next]_vars => BooksInv'
    BY BooksStep
<1> QED
    BY WholeInit, BooksInit, <1>1, <1>2, <1>3, <1>4, PTL DEF Spec, HonoursBook, Book!BookSpec
=============================================================================
