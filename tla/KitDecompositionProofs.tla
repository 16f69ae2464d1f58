----------------------- MODULE KitDecompositionProofs -----------------------
(***************************************************************************)
(* Theorems about the outbox and the consumer that decomposes kits, for    *)
(* any messages, tasks and compositions.  LockInv says who may hold a      *)
(* message and what a transaction has of its own; EffectInv relates what   *)
(* is committed to the deliveries, and needs LockInv.                      *)
(***************************************************************************)
EXTENDS KitDecomposition, Sums

USE OutboxAssumption, KitAssumption

LEMMA TypeStep ==
    ASSUME TypeOK, [Next]_vars
    PROVE  TypeOK'
<1> USE DEF TypeOK, OutboxTypeOK, Statuses, Phases, At, Go, Nothing, Discard
<1>1. ASSUME NEW t \in Tasks, Schedule(t) PROVE TypeOK'
    BY <1>1 DEF Schedule, Enqueue, kitVars
<1>2. ASSUME NEW t \in Tasks, Pass(t) PROVE TypeOK'
  <2>1. CASE LookupFails(t) \/ Skip(t)
      BY <1>2, <2>1 DEF Pass, LookupFails, Skip, kitVars
  <2>2. CASE RecordFailure(t)
    <3>1. MessageOf[t] \in Messages
        OBVIOUS
    <3>2. status' \in [Messages -> Statuses] /\ retryCount' \in [Messages -> Nat]
        BY <2>2, <3>1 DEF RecordFailure, StatusAfter
    <3>3. attempt' \in [Tasks -> 0..MaxRetries]
      <4>1. CASE attempt[t] < MaxRetries
        <5>1. attempt[t] + 1 \in 0..MaxRetries
            BY <4>1
        <5> QED
            BY <2>2, <5>1, <4>1 DEF RecordFailure, MayRetry
      <4>2. CASE ~(attempt[t] < MaxRetries)
          BY <2>2, <4>2 DEF RecordFailure, MayRetry
      <4> QED
          BY <4>1, <4>2
    <3>4. phase' \in [Tasks -> Phases]
        BY <2>2 DEF RecordFailure
    <3> QED
        BY <1>2, <2>2, <3>2, <3>3, <3>4 DEF Pass, RecordFailure, kitVars
  <2> QED
      BY <1>2, <2>1, <2>2 DEF Pass
<1>3. ASSUME NEW t \in Tasks, Consume(t) PROVE TypeOK'
    BY <1>3 DEF Consume, Begin
<1>4. ASSUME NEW t \in Tasks, NEW l \in Lines, Ignore(t, l) \/ CheckLine(t, l) PROVE TypeOK'
  <2>1. CASE Ignore(t, l)
      BY <2>1 DEF Ignore, outboxVars
  <2>2. CASE CheckLine(t, l)
      BY <2>2 DEF CheckLine, outboxVars
  <2> QED
      BY <1>4, <2>1, <2>2
<1>5. ASSUME NEW t \in Tasks, IssueLine(t) PROVE TypeOK'
  <2>1. line[t] \in Lines
      BY <1>5 DEF IssueLine
  <2>2. \A c \in Components : taken[t][c] + Quantity(line[t], c) \in Nat
      BY <2>1 DEF Quantity
  <2>3. taken' \in [Tasks -> [Components -> Nat]]
      BY <1>5, <2>2 DEF IssueLine
  <2> QED
      BY <1>5, <2>1, <2>3 DEF IssueLine, outboxVars
<1>6. ASSUME NEW t \in Tasks, Complete(t) PROVE TypeOK'
  <2>1. stock' \in [Components -> Int]
      BY <1>6 DEF Complete
  <2>2. moved' \in [Messages -> [Lines -> Nat]]
      BY <1>6 DEF Complete
  <2>3. OutboxTypeOK'
      BY <1>6 DEF Complete, Publish
  <2> QED
      BY <1>6, <2>1, <2>2, <2>3 DEF Complete
<1>7. ASSUME NEW t \in Tasks, Rollback(t) \/ Die(t) PROVE TypeOK'
  <2>1. CASE Rollback(t)
      BY <2>1 DEF Rollback, HandlerFails
  <2>2. CASE Die(t)
      BY <2>2 DEF Die, Lose
  <2> QED
      BY <1>7, <2>1, <2>2
<1>8. ASSUME NEW c \in Components, Receive(c) PROVE TypeOK'
    BY <1>8 DEF Receive, outboxVars
<1>9. CASE UNCHANGED vars
    BY <1>9 DEF vars, outboxVars, kitVars
<1> QED
    BY <1>1, <1>2, <1>3, <1>4, <1>5, <1>6, <1>7, <1>8, <1>9 DEF Next, TaskStep

(***************************************************************************)
(* Type correctness of every reachable state.                              *)
(***************************************************************************)
THEOREM TypeCorrect == Spec => []TypeOK
<1>1. Init => TypeOK
    BY DEF Init, OutboxInit, TypeOK, OutboxTypeOK, Statuses, Phases, Nothing
<1>2. TypeOK /\ [Next]_vars => TypeOK'
    BY TypeStep
<1> QED
    BY <1>1, <1>2, PTL DEF Spec

-----------------------------------------------------------------------------
\* What a step does to the rows of the outbox: nothing, a publication by the
\* task that holds the message, or a failure recorded on a message nobody holds.
LEMMA OutboxStep ==
    ASSUME TypeOK, [Next]_vars
    PROVE  \/ UNCHANGED <<status, retryCount, delivered>>
           \/ \E t \in Tasks : Complete(t)
           \/ \E t \in Tasks : RecordFailure(t) /\ UNCHANGED kitVars
<1>1. ASSUME NEW t \in Tasks,
             Schedule(t) \/ Consume(t) \/ IssueLine(t) \/ Rollback(t) \/ Die(t)
      PROVE  UNCHANGED <<status, retryCount, delivered>>
    BY <1>1 DEF Schedule, Enqueue, Consume, Begin, IssueLine, Rollback, HandlerFails,
                Die, Lose, outboxVars
<1>2. ASSUME NEW t \in Tasks, Pass(t)
      PROVE  \/ UNCHANGED <<status, retryCount, delivered>>
             \/ RecordFailure(t) /\ UNCHANGED kitVars
    BY <1>2 DEF Pass, LookupFails, Skip
<1>3. ASSUME NEW t \in Tasks, NEW l \in Lines, Ignore(t, l) \/ CheckLine(t, l)
      PROVE  UNCHANGED <<status, retryCount, delivered>>
    BY <1>3 DEF Ignore, CheckLine, outboxVars
<1>4. ASSUME NEW c \in Components, Receive(c)
      PROVE  UNCHANGED <<status, retryCount, delivered>>
    BY <1>4 DEF Receive, outboxVars
<1>5. CASE UNCHANGED vars
    BY <1>5 DEF vars, outboxVars
<1> QED
    BY <1>1, <1>2, <1>3, <1>4, <1>5 DEF Next, TaskStep

(***************************************************************************)
(* The locks.  Two tasks never hold one message; a message that is held    *)
(* stays open; outside its transaction a task has nothing of its own.      *)
(***************************************************************************)
OneHolder ==
    \A t \in Tasks : \A u \in Siblings(t) : ~(phase[t] = "handling" /\ phase[u] = "handling")

HeldIsOpen == \A t \in Tasks : phase[t] = "handling" => status[MessageOf[t]] \in Open

NothingOutside ==
    \A t \in Tasks : phase[t] # "handling" => /\ left[t] = {}
                                              /\ line[t] = NoLine
                                              /\ drawn[t] = {}

LockInv == TypeOK /\ OneHolder /\ HeldIsOpen /\ NothingOutside

LEMMA LockStep ==
    ASSUME LockInv, [Next]_vars
    PROVE  LockInv'
<1>0. TypeOK'
    BY TypeStep DEF LockInv
<1> USE <1>0 DEF LockInv, TypeOK, OutboxTypeOK, OneHolder, HeldIsOpen, NothingOutside,
                 At, Go, Siblings, Open, Discard
<1>1. ASSUME NEW t \in Tasks, Schedule(t) PROVE LockInv'
    BY <1>1 DEF Schedule, Enqueue, kitVars
<1>2. ASSUME NEW t \in Tasks, Pass(t) PROVE LockInv'
  <2>1. CASE LookupFails(t)
      BY <1>2, <2>1 DEF Pass, LookupFails, kitVars
  <2>3. CASE Skip(t)
      BY <1>2, <2>3 DEF Pass, Skip, kitVars
  <2>2. CASE RecordFailure(t)
    <3>1. \A u \in Tasks : phase'[u] = "handling" => phase[u] = "handling" /\ u # t
        BY <2>2 DEF RecordFailure
    <3>2. \A u \in Tasks \ {t} : phase[u] = "handling" => MessageOf[u] # MessageOf[t]
        BY <2>2 DEF RecordFailure, MessageFree
    <3>3. \A m \in Messages : m # MessageOf[t] => status'[m] = status[m]
        BY <2>2 DEF RecordFailure
    <3>4. NothingOutside'
        BY <1>2, <2>2 DEF Pass, RecordFailure, kitVars
    <3>5. OneHolder' /\ HeldIsOpen'
        BY <3>1, <3>2, <3>3
    <3> QED
        BY <3>4, <3>5
  <2> QED
      BY <1>2, <2>1, <2>2, <2>3 DEF Pass
<1>3. ASSUME NEW t \in Tasks, Consume(t) PROVE LockInv'
    BY <1>3 DEF Consume, Begin, MessageFree
<1>4. ASSUME NEW t \in Tasks, NEW l \in Lines, Ignore(t, l) \/ CheckLine(t, l) PROVE LockInv'
    BY <1>4 DEF Ignore, CheckLine, outboxVars
<1>5. ASSUME NEW t \in Tasks, IssueLine(t) PROVE LockInv'
    BY <1>5 DEF IssueLine, outboxVars
<1>6. ASSUME NEW t \in Tasks, Complete(t) PROVE LockInv'
  <2>1. \A u \in Tasks : phase'[u] = "handling" => phase[u] = "handling" /\ u # t
      BY <1>6 DEF Complete, Publish
  <2>2. \A u \in Tasks \ {t} : phase[u] = "handling" => MessageOf[u] # MessageOf[t]
      BY <1>6 DEF Complete, Publish
  <2>3. \A m \in Messages : m # MessageOf[t] => status'[m] = status[m]
      BY <1>6 DEF Complete, Publish
  <2>4. NothingOutside'
      BY <1>6 DEF Complete, Publish
  <2> QED
      BY <2>1, <2>2, <2>3, <2>4
<1>7. ASSUME NEW t \in Tasks, Rollback(t) \/ Die(t) PROVE LockInv'
  <2>1. CASE Rollback(t)
      BY <2>1 DEF Rollback, HandlerFails
  <2>2. CASE Die(t)
      BY <2>2 DEF Die, Lose
  <2> QED
      BY <1>7, <2>1, <2>2
<1>8. ASSUME NEW c \in Components, Receive(c) PROVE LockInv'
    BY <1>8 DEF Receive, outboxVars
<1>9. CASE UNCHANGED vars
    BY <1>9 DEF vars, outboxVars, kitVars
<1> QED
    BY <1>1, <1>2, <1>3, <1>4, <1>5, <1>6, <1>7, <1>8, <1>9 DEF Next, TaskStep

LEMMA Locked == Spec => []LockInv
<1>1. Init => LockInv
    BY DEF Init, OutboxInit, LockInv, TypeOK, OutboxTypeOK, Statuses, Phases, Nothing,
           OneHolder, HeldIsOpen, NothingOutside
<1>2. LockInv /\ [Next]_vars => LockInv'
    BY LockStep
<1> QED
    BY <1>1, <1>2, PTL DEF Spec

-----------------------------------------------------------------------------
(***************************************************************************)
(* A message is a dead letter exactly from its third failure on, and only  *)
(* a delivered one is published: a failure can be recorded on a message    *)
(* that another task has published, but not while a task holds it.         *)
(***************************************************************************)
THEOREM OutboxCorrect == Spec => [](DeadAtLimit /\ PublishedIsDelivered)
<1>1. Init => DeadAtLimit /\ PublishedIsDelivered
    BY DEF Init, OutboxInit, DeadAtLimit, PublishedIsDelivered
<1>2. ASSUME LockInv, DeadAtLimit, PublishedIsDelivered, [Next]_vars
      PROVE  DeadAtLimit' /\ PublishedIsDelivered'
  <2> USE <1>2 DEF DeadAtLimit, PublishedIsDelivered
  <2> TypeOK
      BY DEF LockInv
  <2>1. CASE UNCHANGED <<status, retryCount, delivered>>
      BY <2>1
  <2>2. ASSUME NEW t \in Tasks, Complete(t)
        PROVE  DeadAtLimit' /\ PublishedIsDelivered'
    <3>1. status[MessageOf[t]] \in Open
        BY <2>2 DEF LockInv, HeldIsOpen, Complete, Publish, At
    <3> QED
        BY <2>2, <3>1 DEF Complete, Publish, Open, TypeOK, OutboxTypeOK
  <2>3. ASSUME NEW t \in Tasks, RecordFailure(t)
        PROVE  DeadAtLimit' /\ PublishedIsDelivered'
      BY <2>3 DEF RecordFailure, StatusAfter, TypeOK, OutboxTypeOK
  <2> QED
      BY <2>1, <2>2, <2>3, OutboxStep
<1> QED
    BY <1>1, <1>2, Locked, PTL DEF Spec

(***************************************************************************)
(* No task that is still around revives a dead letter or delivers it.      *)
(***************************************************************************)
THEOREM DeadForGood == Spec => DeadStaysDead
<1> DEFINE Stays == \A m \in Messages :
                      status[m] = "DEAD_LETTER" => /\ status'[m] = "DEAD_LETTER"
                                                   /\ m \in delivered' => m \in delivered
<1>1. ASSUME LockInv, DeadAtLimit, [Next]_vars
      PROVE  [Stays]_outboxVars
  <2> USE <1>1
  <2> TypeOK
      BY DEF LockInv
  <2>1. CASE UNCHANGED <<status, retryCount, delivered>>
      BY <2>1
  <2>2. ASSUME NEW t \in Tasks, Complete(t)
        PROVE  Stays
    <3>1. status[MessageOf[t]] # "DEAD_LETTER"
        BY <2>2 DEF LockInv, HeldIsOpen, Complete, Publish, At, Open
    <3> QED
        BY <2>2, <3>1 DEF Complete, Publish, TypeOK, OutboxTypeOK
  <2>3. ASSUME NEW t \in Tasks, RecordFailure(t)
        PROVE  Stays
      BY <2>3 DEF RecordFailure, StatusAfter, DeadAtLimit, TypeOK, OutboxTypeOK
  <2> HIDE DEF Stays
  <2> QED
      BY <2>1, <2>2, <2>3, OutboxStep DEF Stays
<1> QED
    BY <1>1, Locked, OutboxCorrect, PTL DEF Spec, DeadStaysDead

-----------------------------------------------------------------------------
(***************************************************************************)
(* The effect.  A transaction works on lines of its message only, draws    *)
(* only while nothing of the message is committed, and has drawn or found  *)
(* the key taken once it has passed a line.                                *)
(***************************************************************************)
OfItsMessage ==
    \A t \in Tasks : left[t] \cup drawn[t] \cup ({line[t]} \ {NoLine}) \subseteq KitLines[MessageOf[t]]

DrawsFresh ==
    \A t \in Tasks : drawn[t] # {} \/ line[t] # NoLine
                        => \A l \in Lines : moved[MessageOf[t]][l] = 0

PassedIsTaken ==
    \A t \in Tasks : phase[t] = "handling" /\ left[t] # KitLines[MessageOf[t]]
                        => drawn[t] # {} \/ \E l \in Lines : moved[MessageOf[t]][l] > 0

\* A kit of the message was issued exactly if its delivery is stored.
SomeIssued ==
    \A m \in Messages :
        (\E l \in Lines : moved[m][l] > 0) <=> (m \in delivered /\ KitLines[m] # {})

EffectInv == IssuedOnce /\ SomeIssued /\ OfItsMessage /\ DrawsFresh /\ PassedIsTaken

\* Every step but a commit leaves what is committed of the stock alone.
LEMMA OnlyCompleteMoves ==
    ASSUME TypeOK, [Next]_vars, ~\E t \in Tasks : Complete(t)
    PROVE  UNCHANGED <<moved, delivered>>
<1>1. ASSUME NEW t \in Tasks,
             Schedule(t) \/ Pass(t) \/ Consume(t) \/ IssueLine(t) \/ Rollback(t) \/ Die(t)
      PROVE  UNCHANGED <<moved, delivered>>
    BY <1>1 DEF Schedule, Enqueue, Pass, LookupFails, Skip, RecordFailure, Consume, Begin,
                IssueLine, Rollback, HandlerFails, Die, Lose, outboxVars, kitVars
<1>2. ASSUME NEW t \in Tasks, NEW l \in Lines, Ignore(t, l) \/ CheckLine(t, l)
      PROVE  UNCHANGED <<moved, delivered>>
    BY <1>2 DEF Ignore, CheckLine, outboxVars
<1>3. ASSUME NEW c \in Components, Receive(c)
      PROVE  UNCHANGED <<moved, delivered>>
    BY <1>3 DEF Receive, outboxVars
<1>4. CASE UNCHANGED vars
    BY <1>4 DEF vars, outboxVars, kitVars
<1> QED
    BY <1>1, <1>2, <1>3, <1>4 DEF Next, TaskStep

LEMMA EffectStep ==
    ASSUME LockInv, EffectInv, [Next]_vars
    PROVE  EffectInv'
<1> TypeOK /\ TypeOK'
    BY TypeStep DEF LockInv
<1> USE DEF TypeOK, OutboxTypeOK
<1> DEFINE Own == OfItsMessage' /\ DrawsFresh' /\ PassedIsTaken'
<1>1. ASSUME UNCHANGED <<moved, delivered>>
      PROVE  IssuedOnce' /\ SomeIssued'
    BY <1>1 DEF EffectInv, IssuedOnce, SomeIssued
<1>2. ASSUME UNCHANGED <<moved, left, line, drawn>>, NEW t \in Tasks, NEW p \in Phases \ {"handling"},
             phase' = [phase EXCEPT ![t] = p]
      PROVE  Own
    BY <1>2 DEF EffectInv, OfItsMessage, DrawsFresh, PassedIsTaken
<1>3. ASSUME NEW t \in Tasks, Schedule(t)
      PROVE  Own
    BY <1>2, <1>3 DEF Schedule, Enqueue, Go, Phases, kitVars
<1>4. ASSUME NEW t \in Tasks, Pass(t)
      PROVE  Own
    BY <1>2, <1>4 DEF Pass, LookupFails, Skip, RecordFailure, Go, Phases, kitVars
<1>5. ASSUME NEW t \in Tasks, Consume(t)
      PROVE  Own
    BY <1>5 DEF Consume, Begin, Go, EffectInv, OfItsMessage, DrawsFresh, PassedIsTaken
<1>6. ASSUME NEW t \in Tasks, NEW l \in Lines, Ignore(t, l)
      PROVE  Own
    BY <1>6 DEF Ignore, KeyTaken, outboxVars, EffectInv, OfItsMessage, DrawsFresh, PassedIsTaken
<1>7. ASSUME NEW t \in Tasks, NEW l \in Lines, CheckLine(t, l)
      PROVE  Own
  <2>1. \A k \in Lines : moved[MessageOf[t]][k] = 0
      BY <1>7 DEF CheckLine, KeyTaken
  <2>2. UNCHANGED <<moved, phase, left, drawn>> /\ line' = [line EXCEPT ![t] = l]
      BY <1>7 DEF CheckLine, outboxVars
  <2>3. OfItsMessage'
      BY <1>7, <2>2 DEF CheckLine, EffectInv, OfItsMessage
  <2>4. DrawsFresh'
      BY <2>1, <2>2 DEF EffectInv, DrawsFresh
  <2>5. PassedIsTaken'
      BY <2>2 DEF EffectInv, PassedIsTaken
  <2> QED
      BY <2>3, <2>4, <2>5
<1>8. ASSUME NEW t \in Tasks, IssueLine(t)
      PROVE  Own
    BY <1>8 DEF IssueLine, outboxVars, EffectInv, OfItsMessage, DrawsFresh, PassedIsTaken
<1>9. ASSUME NEW t \in Tasks, Rollback(t) \/ Die(t)
      PROVE  Own
  <2>1. UNCHANGED moved /\ Discard(t) /\ \E p \in Phases \ {"handling"} : Go(t, p)
      BY <1>9 DEF Rollback, HandlerFails, Die, Lose, Phases
  <2>2. \A u \in Tasks : phase'[u] = "handling" => phase[u] = "handling" /\ u # t
      BY <2>1 DEF Go
  <2>3. OfItsMessage'
      BY <2>1 DEF Discard, EffectInv, OfItsMessage
  <2>4. DrawsFresh'
      BY <2>1 DEF Discard, EffectInv, DrawsFresh
  <2>5. PassedIsTaken'
      BY <2>1, <2>2 DEF Discard, EffectInv, PassedIsTaken
  <2> QED
      BY <2>3, <2>4, <2>5
<1>10. ASSUME NEW c \in Components, Receive(c)
       PROVE  Own
    BY <1>10 DEF Receive, outboxVars, EffectInv, OfItsMessage, DrawsFresh, PassedIsTaken
<1>11. CASE UNCHANGED vars
    BY <1>11 DEF vars, outboxVars, kitVars, EffectInv, IssuedOnce, SomeIssued,
                 OfItsMessage, DrawsFresh, PassedIsTaken
<1>12. ASSUME NEW t \in Tasks, Complete(t)
       PROVE  EffectInv'
  <2> DEFINE m == MessageOf[t]
  <2>1. m \in Messages
      OBVIOUS
  <2>2. \A n \in Messages, l \in Lines :
            moved'[n][l] = IF n = m /\ l \in drawn[t] THEN moved[n][l] + 1 ELSE moved[n][l]
      BY <1>12, <2>1 DEF Complete
  <2>3. \A l \in drawn[t] : l \in KitLines[m] /\ moved[m][l] = 0
      BY DEF EffectInv, OfItsMessage, DrawsFresh
  <2>4. IssuedOnce'
    <3> SUFFICES ASSUME NEW n \in Messages, NEW l \in Lines
                 PROVE  moved'[n][l] <= 1
        BY DEF IssuedOnce
    <3>1. CASE n = m /\ l \in drawn[t]
        BY <3>1, <2>2, <2>3
    <3>2. CASE ~(n = m /\ l \in drawn[t])
        BY <3>2, <2>2 DEF EffectInv, IssuedOnce
    <3> QED
        BY <3>1, <3>2
  <2>5. drawn[t] # {} \/ (\E l \in Lines : moved[m][l] > 0) \/ KitLines[m] = {}
      BY <1>12 DEF Complete, Publish, At, EffectInv, PassedIsTaken
  <2>6. delivered' = delivered \cup {m}
      BY <1>12 DEF Complete, Publish
  <2>7. SomeIssued'
    <3> SUFFICES ASSUME NEW n \in Messages
                 PROVE  (\E l \in Lines : moved'[n][l] > 0) <=> (n \in delivered' /\ KitLines[n] # {})
        BY DEF SomeIssued
    <3>1. CASE n # m
        BY <3>1, <2>2, <2>6 DEF EffectInv, SomeIssued
    <3>2. CASE n = m
      <4>1. CASE drawn[t] # {}
        <5>1. PICK l \in drawn[t] : l \in Lines
            BY <4>1
        <5>2. moved'[n][l] > 0 /\ KitLines[n] # {}
            BY <5>1, <2>2, <2>3, <3>2
        <5> QED
            BY <5>1, <5>2, <2>6, <3>2
      <4>2. CASE drawn[t] = {} /\ \E l \in Lines : moved[m][l] > 0
          BY <4>2, <3>2, <2>2, <2>6 DEF EffectInv, SomeIssued
      <4>3. CASE drawn[t] = {} /\ KitLines[m] = {}
          BY <4>3, <3>2, <2>2, <2>6 DEF EffectInv, SomeIssued
      <4> QED
          BY <4>1, <4>2, <4>3, <2>5
    <3> QED
        BY <3>1, <3>2
  <2>8. \A u \in Tasks : phase'[u] = "handling" =>
            phase[u] = "handling" /\ u # t /\ MessageOf[u] # m
      BY <1>12 DEF Complete, Publish, At, Go, LockInv, OneHolder, Siblings
  <2>9. \A u \in Tasks : phase'[u] # "handling" =>
            left'[u] = {} /\ line'[u] = NoLine /\ drawn'[u] = {}
      BY <1>12 DEF Complete, Publish, Discard, At, Go, LockInv, NothingOutside
  <2>10. \A u \in Tasks \ {t} : left'[u] = left[u] /\ line'[u] = line[u] /\ drawn'[u] = drawn[u]
      BY <1>12 DEF Complete, Discard
  <2>11. \A u \in Tasks : phase'[u] = "handling" =>
            \A l \in Lines : moved'[MessageOf[u]][l] = moved[MessageOf[u]][l]
      BY <2>2, <2>8
  <2>12. OfItsMessage'
      BY <2>8, <2>9, <2>10 DEF EffectInv, OfItsMessage
  <2>13. DrawsFresh'
      BY <2>8, <2>9, <2>10, <2>11 DEF EffectInv, DrawsFresh
  <2>14. PassedIsTaken'
    <3> SUFFICES ASSUME NEW u \in Tasks, phase'[u] = "handling", left'[u] # KitLines[MessageOf[u]]
                 PROVE  drawn'[u] # {} \/ \E l \in Lines : moved'[MessageOf[u]][l] > 0
        BY DEF PassedIsTaken
    <3>1. phase[u] = "handling" /\ left[u] # KitLines[MessageOf[u]] /\ drawn'[u] = drawn[u]
        BY <2>8, <2>10
    <3> QED
        BY <3>1, <2>11 DEF EffectInv, PassedIsTaken
  <2> QED
      BY <2>4, <2>7, <2>12, <2>13, <2>14 DEF EffectInv
<1> HIDE DEF Own
<1>13. CASE ~\E t \in Tasks : Complete(t)
  <2>1. UNCHANGED <<moved, delivered>>
      BY <1>13, OnlyCompleteMoves
  <2>2. CASE Own
      BY <2>1, <2>2, <1>1 DEF Own, EffectInv
  <2>3. CASE Next
    <3>1. Own
        BY <2>3, <1>13, <1>3, <1>4, <1>5, <1>6, <1>7, <1>8, <1>9, <1>10 DEF Next, TaskStep
    <3> QED
        BY <3>1, <2>2
  <2> QED
      BY <2>3, <1>11
<1> QED
    BY <1>12, <1>13

LEMMA EffectCorrect == Spec => []EffectInv
<1>1. Init => EffectInv
    BY DEF Init, OutboxInit, EffectInv, IssuedOnce, SomeIssued, OfItsMessage,
           DrawsFresh, PassedIsTaken
<1>2. LockInv /\ EffectInv /\ [Next]_vars => EffectInv'
    BY EffectStep
<1> QED
    BY <1>1, <1>2, Locked, PTL DEF Spec

(***************************************************************************)
(* However tasks of a message overlap, fail, are retried or lost, and even *)
(* when a failure is recorded over its publication, a line of the message  *)
(* is issued at most once.                                                 *)
(***************************************************************************)
THEOREM EffectOnce == Spec => []IssuedOnce
<1>1. EffectInv => IssuedOnce
    BY DEF EffectInv
<1> QED
    BY <1>1, EffectCorrect, PTL

(***************************************************************************)
(* And no more than one: a transaction checks a line only while the key of *)
(* the message is free, and takes the key with the line.                   *)
(***************************************************************************)
ChecksFirst == \A t \in Tasks : line[t] # NoLine => drawn[t] = {}

DrawsOne == \A t \in Tasks : \A k, l \in drawn[t] : k = l

IssuesOne ==
    \A m \in Messages : \A k, l \in Lines :
        moved[m][k] > 0 /\ moved[m][l] > 0 => k = l /\ k \in KitLines[m]

OneLineInv == ChecksFirst /\ DrawsOne /\ IssuesOne

LEMMA OneLineStep ==
    ASSUME TypeOK, EffectInv, OneLineInv, [Next]_vars
    PROVE  OneLineInv'
<1> USE DEF TypeOK
<1> DEFINE Own == ChecksFirst' /\ DrawsOne'
<1>1. ASSUME NEW t \in Tasks, Complete(t)
      PROVE  OneLineInv'
  <2> DEFINE m == MessageOf[t]
  <2>1. \A n \in Messages, l \in Lines :
            moved'[n][l] = IF n = m /\ l \in drawn[t] THEN moved[n][l] + 1 ELSE moved[n][l]
      BY <1>1 DEF Complete
  <2>2. Own
      BY <1>1 DEF Complete, Discard, OneLineInv, ChecksFirst, DrawsOne
  <2>3. IssuesOne'
    <3> SUFFICES ASSUME NEW n \in Messages, NEW k \in Lines, NEW l \in Lines,
                        moved'[n][k] > 0, moved'[n][l] > 0
                 PROVE  k = l /\ k \in KitLines[n]
        BY DEF IssuesOne
    <3>1. CASE n = m /\ drawn[t] # {}
      <4>1. moved[n][k] = 0 /\ moved[n][l] = 0
          BY <3>1 DEF EffectInv, DrawsFresh
      <4>2. k \in drawn[t] /\ l \in drawn[t]
          BY <2>1, <4>1
      <4> QED
          BY <3>1, <4>2 DEF OneLineInv, DrawsOne, EffectInv, OfItsMessage
    <3>2. CASE ~(n = m /\ drawn[t] # {})
      <4>1. moved[n][k] > 0 /\ moved[n][l] > 0
          BY <2>1, <3>2
      <4> QED
          BY <4>1 DEF OneLineInv, IssuesOne
    <3> QED
        BY <3>1, <3>2
  <2> QED
      BY <2>2, <2>3 DEF OneLineInv
<1>2. ASSUME UNCHANGED <<line, drawn>>
      PROVE  Own
    BY <1>2 DEF OneLineInv, ChecksFirst, DrawsOne
<1>3. ASSUME NEW t \in Tasks, Schedule(t) \/ Pass(t) \/ Consume(t)
      PROVE  Own
    BY <1>2, <1>3 DEF Schedule, Pass, Consume, kitVars
<1>4. ASSUME NEW t \in Tasks, NEW l \in Lines, Ignore(t, l) \/ CheckLine(t, l)
      PROVE  Own
  <2>1. CASE Ignore(t, l)
      BY <1>2, <2>1 DEF Ignore
  <2>2. CASE CheckLine(t, l)
      BY <2>2 DEF CheckLine, KeyTaken, OneLineInv, ChecksFirst, DrawsOne
  <2> QED
      BY <1>4, <2>1, <2>2
<1>5. ASSUME NEW t \in Tasks, IssueLine(t)
      PROVE  Own
  <2>1. line[t] # NoLine /\ drawn[t] = {}
      BY <1>5 DEF IssueLine, OneLineInv, ChecksFirst
  <2>2. drawn'[t] = {line[t]} /\ \A u \in Tasks \ {t} : drawn'[u] = drawn[u]
      BY <1>5, <2>1 DEF IssueLine
  <2>3. line'[t] = NoLine /\ \A u \in Tasks \ {t} : line'[u] = line[u]
      BY <1>5 DEF IssueLine
  <2>4. ChecksFirst'
      BY <2>2, <2>3 DEF OneLineInv, ChecksFirst
  <2>5. DrawsOne'
      BY <2>2 DEF OneLineInv, DrawsOne
  <2> QED
      BY <2>4, <2>5
<1>6. ASSUME NEW t \in Tasks, Rollback(t) \/ Die(t)
      PROVE  Own
  <2>1. drawn'[t] = {} /\ \A u \in Tasks \ {t} : drawn'[u] = drawn[u]
      BY <1>6 DEF Rollback, Die, Discard
  <2>2. \A u \in Tasks \ {t} : line'[u] = line[u]
      BY <1>6 DEF Rollback, Die, Discard
  <2>3. ChecksFirst'
      BY <2>1, <2>2 DEF OneLineInv, ChecksFirst
  <2>4. DrawsOne'
      BY <2>1 DEF OneLineInv, DrawsOne
  <2> QED
      BY <2>3, <2>4
<1>7. ASSUME (\E c \in Components : Receive(c)) \/ UNCHANGED vars
      PROVE  Own
    BY <1>2, <1>7 DEF Receive, vars, kitVars
<1> HIDE DEF Own
<1>8. CASE ~\E t \in Tasks : Complete(t)
  <2>1. moved' = moved
      BY <1>8, OnlyCompleteMoves
  <2>2. Own
      BY <1>3, <1>4, <1>5, <1>6, <1>7, <1>8 DEF Next, TaskStep
  <2> QED
      BY <2>1, <2>2 DEF Own, OneLineInv, IssuesOne
<1> QED
    BY <1>1, <1>8

(***************************************************************************)
(* Whatever attempts fail, overlap or are lost, a stored delivery has      *)
(* issued the components of one kit of its message, once, and nothing is   *)
(* issued without a delivery.                                              *)
(***************************************************************************)
THEOREM EffectWithDelivery == Spec => []EffectIsDelivered
<1>1. Init => OneLineInv
    BY DEF Init, OneLineInv, ChecksFirst, DrawsOne, IssuesOne
<1>2. TypeOK /\ EffectInv /\ OneLineInv /\ [Next]_vars => OneLineInv'
    BY OneLineStep
<1>3. ASSUME TypeOK, EffectInv, OneLineInv
      PROVE  EffectIsDelivered
  <2> SUFFICES ASSUME NEW m \in Messages
               PROVE  IF m \in delivered /\ KitLines[m] # {}
                      THEN \E l \in KitLines[m] : moved[m] = [k \in Lines |-> IF k = l THEN 1 ELSE 0]
                      ELSE \A l \in Lines : moved[m][l] = 0
      BY DEF EffectIsDelivered
  <2>1. moved[m] \in [Lines -> Nat] /\ \A l \in Lines : moved[m][l] <= 1
      BY <1>3 DEF TypeOK, EffectInv, IssuedOnce
  <2>2. CASE m \in delivered /\ KitLines[m] # {}
    <3>1. PICK l \in Lines : moved[m][l] > 0
        BY <1>3, <2>2 DEF EffectInv, SomeIssued
    <3>2. l \in KitLines[m] /\ \A k \in Lines : moved[m][k] > 0 => k = l
        BY <1>3, <3>1 DEF OneLineInv, IssuesOne
    <3>3. \A k \in Lines : moved[m][k] = IF k = l THEN 1 ELSE 0
        BY <2>1, <3>1, <3>2
    <3>4. moved[m] = [k \in Lines |-> IF k = l THEN 1 ELSE 0]
        BY <2>1, <3>3
    <3> QED
        BY <2>2, <3>2, <3>4
  <2>3. CASE ~(m \in delivered /\ KitLines[m] # {})
    <3>1. \A l \in Lines : ~(moved[m][l] > 0)
        BY <1>3, <2>3 DEF EffectInv, SomeIssued
    <3> QED
        BY <2>1, <2>3, <3>1
  <2> QED
      BY <2>2, <2>3
<1> QED
    BY <1>1, <1>2, <1>3, TypeCorrect, EffectCorrect, PTL DEF Spec

-----------------------------------------------------------------------------
(***************************************************************************)
(* The balances.  What a transaction took from the balances is what the    *)
(* lines it drew need, because a line is checked before anything is drawn; *)
(* a commit moves that amount from the balances to the movements.          *)
(***************************************************************************)
DrawnOf(t, c) == [l \in Lines |-> IF l \in drawn[t] THEN Needs[l][c] ELSE 0]
MovedOf(m, c) == [l \in Lines |-> moved[m][l] * Needs[l][c]]
IssuedOf(c) == [m \in Messages |-> IssuedFor(m, c)]

TakenIsDrawn ==
    \A t \in Tasks, c \in Components : taken[t][c] = SumFunctionOnSet(DrawnOf(t, c), Lines)

StockInv == TakenIsDrawn /\ ChecksFirst /\ StockReconciled

LEMMA NeedsType ==
    ASSUME NEW l \in Lines, NEW c \in Components
    PROVE  Needs[l][c] \in Nat
BY KitAssumption

LEMMA MovedType ==
    ASSUME EffectInv, TypeOK, NEW m \in Messages, NEW c \in Components, NEW l \in Lines
    PROVE  MovedOf(m, c)[l] \in Int
<1>1. moved[m][l] = 0 \/ moved[m][l] = 1
  <2>1. moved[m][l] <= 1
      BY DEF EffectInv, IssuedOnce
  <2>2. moved[m][l] \in Nat
      BY DEF TypeOK
  <2>3. \A x \in Nat : x <= 1 => x = 0 \/ x = 1
      OBVIOUS
  <2> QED
      BY <2>1, <2>2, <2>3
<1> QED
    BY <1>1, NeedsType DEF MovedOf

LEMMA IssuedType ==
    ASSUME EffectInv, TypeOK, NEW c \in Components
    PROVE  /\ \A m \in Messages : IssuedOf(c)[m] \in Int
           /\ Issued(c) = SumFunctionOnSet(IssuedOf(c), Messages) /\ Issued(c) \in Int
<1>1. ASSUME NEW m \in Messages
      PROVE  IssuedOf(c)[m] \in Int
  <2>1. IssuedOf(c)[m] = SumFunctionOnSet(MovedOf(m, c), Lines)
      BY DEF IssuedOf, IssuedFor, MovedOf
  <2>2. \A l \in Lines : MovedOf(m, c)[l] \in Int
      BY MovedType
  <2> QED
      BY <2>1, <2>2, SumType, KitAssumption
<1>2. Issued(c) = SumFunctionOnSet(IssuedOf(c), Messages)
    BY DEF Issued, IssuedOf
<1> QED
    BY <1>1, <1>2, SumType, KitAssumption

\* Nothing drawn, nothing taken.
LEMMA DrawnOfNone ==
    ASSUME NEW t \in Tasks, NEW c \in Components, drawn[t] = {}
    PROVE  SumFunctionOnSet(DrawnOf(t, c), Lines) = 0
<1>1. \A l \in Lines : DrawnOf(t, c)[l] = 0
    BY DEF DrawnOf
<1> QED
    BY <1>1, SumZero, KitAssumption

\* A line is drawn.
LEMMA DrawnOfLine ==
    ASSUME NEW t \in Tasks, NEW c \in Components, NEW l \in Lines, l \notin drawn[t],
           drawn'[t] = drawn[t] \cup {l}
    PROVE  SumFunctionOnSet(DrawnOf(t, c)', Lines) =
               SumFunctionOnSet(DrawnOf(t, c), Lines) + Needs[l][c]
<1>1. /\ \A k \in Lines : DrawnOf(t, c)[k] \in Int
      /\ DrawnOf(t, c)'[l] = DrawnOf(t, c)[l] + Needs[l][c]
      /\ \A k \in Lines \ {l} : DrawnOf(t, c)'[k] = DrawnOf(t, c)[k]
      /\ Needs[l][c] \in Int
    BY NeedsType DEF DrawnOf
<1> HIDE DEF DrawnOf
<1> QED
    BY <1>1, SumIncreases, KitAssumption

\* A commit of task t adds what it took to what is issued.
LEMMA IssuedGrows ==
    ASSUME EffectInv, TypeOK, TypeOK', StockInv, NEW t \in Tasks, Complete(t),
           NEW c \in Components
    PROVE  Issued(c)' = Issued(c) + taken[t][c]
<1> DEFINE n == MessageOf[t]
<1>1. n \in Messages
    BY DEF TypeOK, OutboxTypeOK, Complete, Publish, At, Go
<1>2. \A m \in Messages, l \in Lines :
          moved'[m][l] = IF m = n /\ l \in drawn[t] THEN moved[m][l] + 1 ELSE moved[m][l]
    BY <1>1 DEF Complete, TypeOK
<1>3. \A l \in drawn[t] : moved[n][l] = 0
    BY DEF EffectInv, DrawsFresh, TypeOK
<1>4. SumFunctionOnSet(MovedOf(n, c)', Lines) =
          SumFunctionOnSet(MovedOf(n, c), Lines) + taken[t][c]
  <2>1. ASSUME NEW l \in Lines
        PROVE  /\ MovedOf(n, c)[l] \in Int /\ DrawnOf(t, c)[l] \in Int
               /\ MovedOf(n, c)'[l] = MovedOf(n, c)[l] + DrawnOf(t, c)[l]
    <3>1. MovedOf(n, c)[l] \in Int /\ Needs[l][c] \in Nat
        BY <1>1, MovedType, NeedsType
    <3>2. CASE l \in drawn[t]
      <4>1. moved[n][l] = 0 /\ moved'[n][l] = 1
          BY <1>1, <1>2, <1>3, <3>2
      <4>2. MovedOf(n, c)[l] = 0 /\ MovedOf(n, c)'[l] = Needs[l][c]
          BY <4>1, <3>1 DEF MovedOf
      <4> QED
          BY <3>1, <3>2, <4>2 DEF DrawnOf
    <3>3. CASE l \notin drawn[t]
      <4>1. moved'[n][l] = moved[n][l]
          BY <1>1, <1>2, <3>3
      <4>2. MovedOf(n, c)'[l] = MovedOf(n, c)[l]
          BY <4>1 DEF MovedOf
      <4> QED
          BY <3>1, <3>3, <4>2 DEF DrawnOf
    <3> QED
        BY <3>2, <3>3
  <2>2. taken[t][c] = SumFunctionOnSet(DrawnOf(t, c), Lines)
      BY DEF StockInv, TakenIsDrawn
  <2> QED
      BY <2>1, <2>2, SumPlus, KitAssumption
<1>5. \A m \in Messages \ {n} : MovedOf(m, c)' = MovedOf(m, c)
    BY <1>2 DEF MovedOf
<1>6. /\ IssuedOf(c)'[n] = IssuedOf(c)[n] + taken[t][c]
      /\ \A m \in Messages \ {n} : IssuedOf(c)'[m] = IssuedOf(c)[m]
  <2>1. \A m \in Messages : /\ IssuedOf(c)[m] = SumFunctionOnSet(MovedOf(m, c), Lines)
                            /\ IssuedOf(c)'[m] = SumFunctionOnSet(MovedOf(m, c)', Lines)
      BY DEF IssuedOf, IssuedFor, MovedOf
  <2> HIDE DEF n
  <2> QED
      BY <1>1, <1>4, <1>5, <2>1
<1>7. taken[t][c] \in Int
    BY DEF TypeOK
<1>8. Issued(c)' = SumFunctionOnSet(IssuedOf(c)', Messages)
    BY DEF Issued, IssuedOf
<1>9. /\ \A m \in Messages : IssuedOf(c)[m] \in Int
      /\ Issued(c) = SumFunctionOnSet(IssuedOf(c), Messages)
    BY IssuedType
<1> HIDE DEF n
<1> QED
    BY <1>1, <1>6, <1>7, <1>8, <1>9, SumIncreases, KitAssumption

LEMMA StockStep ==
    ASSUME TypeOK, TypeOK', EffectInv, StockInv, [Next]_vars
    PROVE  StockInv'
<1> DEFINE Books == UNCHANGED <<stock, moved, received>>
           Keeps(u) == drawn'[u] = drawn[u] /\ taken'[u] = taken[u]
           Drops(u) == drawn'[u] = {} /\ taken'[u] = Nothing /\ line'[u] = NoLine
<1>1. ASSUME Books PROVE StockReconciled'
  <2>1. \A c : Issued(c)' = Issued(c)
      BY <1>1 DEF Issued, IssuedFor
  <2> QED
      BY <1>1, <2>1 DEF StockInv, StockReconciled
<1>2. ASSUME \A u \in Tasks : Keeps(u) \/ Drops(u)
      PROVE  TakenIsDrawn'
  <2> SUFFICES ASSUME NEW u \in Tasks, NEW c \in Components
               PROVE  taken'[u][c] = SumFunctionOnSet(DrawnOf(u, c)', Lines)
      BY DEF TakenIsDrawn
  <2>1. CASE Keeps(u)
    <3>1. DrawnOf(u, c)' = DrawnOf(u, c)
        BY <2>1 DEF DrawnOf
    <3> QED
        BY <2>1, <3>1 DEF StockInv, TakenIsDrawn
  <2>2. CASE Drops(u)
    <3>1. \A l \in Lines : DrawnOf(u, c)'[l] = 0
        BY <2>2 DEF DrawnOf
    <3>2. SumFunctionOnSet(DrawnOf(u, c)', Lines) = 0
        BY <3>1, SumZero, KitAssumption
    <3> QED
        BY <2>2, <3>2 DEF Nothing
  <2> QED
      BY <1>2, <2>1, <2>2
<1>3. ASSUME \A u \in Tasks : (line'[u] = line[u] /\ drawn'[u] = drawn[u]) \/ line'[u] = NoLine
      PROVE  ChecksFirst'
    BY <1>3 DEF StockInv, ChecksFirst
<1>4. ASSUME Books, UNCHANGED <<line, drawn, taken>>
      PROVE  StockInv'
    BY <1>1, <1>2, <1>3, <1>4 DEF StockInv
<1>5. ASSUME NEW t \in Tasks, Schedule(t) \/ Pass(t) \/ Consume(t)
      PROVE  StockInv'
    BY <1>4, <1>5 DEF Schedule, Pass, Consume, kitVars
<1>6. ASSUME NEW t \in Tasks, NEW l \in Lines, Ignore(t, l)
      PROVE  StockInv'
    BY <1>4, <1>6 DEF Ignore
<1>7. ASSUME NEW t \in Tasks, NEW l \in Lines, CheckLine(t, l)
      PROVE  StockInv'
  <2>1. Books /\ UNCHANGED <<drawn, taken>> /\ line' = [line EXCEPT ![t] = l]
      BY <1>7 DEF CheckLine
  <2>2. drawn[t] = {}
      BY <1>7 DEF CheckLine, KeyTaken
  <2>3. ChecksFirst'
      BY <2>1, <2>2 DEF StockInv, ChecksFirst, TypeOK
  <2> QED
      BY <1>1, <1>2, <2>1, <2>3 DEF StockInv
<1>8. ASSUME NEW t \in Tasks, IssueLine(t)
      PROVE  StockInv'
  <2> DEFINE l == line[t]
  <2>1. l \in Lines /\ l \notin drawn[t]
      BY <1>8 DEF IssueLine, TypeOK, StockInv, ChecksFirst
  <2>2. /\ Books /\ drawn'[t] = drawn[t] \cup {l} /\ line'[t] = NoLine
        /\ \A c \in Components : taken'[t][c] = taken[t][c] + Needs[l][c]
        /\ \A u \in Tasks \ {t} : drawn'[u] = drawn[u] /\ taken'[u] = taken[u] /\ line'[u] = line[u]
      BY <1>8 DEF IssueLine, TypeOK, Quantity
  <2> HIDE DEF l
  <2>3. TakenIsDrawn'
    <3> SUFFICES ASSUME NEW u \in Tasks, NEW c \in Components
                 PROVE  taken'[u][c] = SumFunctionOnSet(DrawnOf(u, c)', Lines)
        BY DEF TakenIsDrawn
    <3>1. CASE u = t
      <4>1. SumFunctionOnSet(DrawnOf(t, c)', Lines) =
                SumFunctionOnSet(DrawnOf(t, c), Lines) + Needs[l][c]
          BY <2>1, <2>2, DrawnOfLine
      <4> QED
          BY <2>2, <3>1, <4>1 DEF StockInv, TakenIsDrawn
    <3>2. CASE u # t
      <4>1. DrawnOf(u, c)' = DrawnOf(u, c)
          BY <2>2, <3>2 DEF DrawnOf
      <4> QED
          BY <2>2, <3>2, <4>1 DEF StockInv, TakenIsDrawn
    <3> QED
        BY <3>1, <3>2
  <2>4. ChecksFirst'
      BY <2>2, <1>3
  <2> QED
      BY <1>1, <2>2, <2>3, <2>4 DEF StockInv
<1>9. ASSUME NEW t \in Tasks, Discard(t)
      PROVE  TakenIsDrawn' /\ ChecksFirst'
  <2>1. \A u \in Tasks : IF u = t THEN Drops(u)
                         ELSE Keeps(u) /\ line'[u] = line[u]
      BY <1>9 DEF Discard, TypeOK
  <2> QED
      BY <1>2, <1>3, <2>1
<1>10. ASSUME NEW t \in Tasks, Rollback(t) \/ Die(t)
       PROVE  StockInv'
  <2>1. Books /\ Discard(t)
      BY <1>10 DEF Rollback, Die
  <2> QED
      BY <1>1, <1>9, <2>1 DEF StockInv
<1>11. ASSUME NEW t \in Tasks, Complete(t)
       PROVE  StockInv'
  <2>1. Discard(t) /\ received' = received
        /\ \A c \in Components : stock'[c] = stock[c] - taken[t][c]
      BY <1>11 DEF Complete
  <2>2. StockReconciled'
    <3> SUFFICES ASSUME NEW c \in Components
                 PROVE  stock'[c] = Opening[c] + received'[c] - Issued(c)'
        BY DEF StockReconciled
    <3>1. stock[c] = Opening[c] + received[c] - Issued(c)
        BY DEF StockInv, StockReconciled
    <3>2. Issued(c)' = Issued(c) + taken[t][c] /\ Issued(c) \in Int
        BY <1>11, IssuedGrows, IssuedType
    <3>3. taken[t][c] \in Int /\ Opening[c] \in Int /\ received[c] \in Int
        BY KitAssumption DEF TypeOK
    <3> QED
        BY <2>1, <3>1, <3>2, <3>3
  <2> QED
      BY <1>9, <2>1, <2>2 DEF StockInv
<1>12. ASSUME NEW c \in Components, Receive(c)
       PROVE  StockInv'
  <2>1. UNCHANGED <<moved, line, drawn, taken>>
      BY <1>12 DEF Receive
  <2>2. StockReconciled'
    <3> SUFFICES ASSUME NEW d \in Components
                 PROVE  stock'[d] = Opening[d] + received'[d] - Issued(d)'
        BY DEF StockReconciled
    <3>1. stock[d] = Opening[d] + received[d] - Issued(d)
        BY DEF StockInv, StockReconciled
    <3>2. Issued(d)' = Issued(d) /\ Issued(d) \in Int
        BY <2>1, IssuedType DEF Issued, IssuedFor
    <3>3. /\ stock'[d] = IF d = c THEN stock[d] + 1 ELSE stock[d]
          /\ received'[d] = IF d = c THEN received[d] + 1 ELSE received[d]
        BY <1>12 DEF Receive, TypeOK
    <3>4. Opening[d] \in Int /\ received[d] \in Int
        BY KitAssumption DEF TypeOK
    <3> QED
        BY <3>1, <3>2, <3>3, <3>4
  <2> QED
      BY <1>2, <1>3, <2>1, <2>2 DEF StockInv
<1>13. CASE UNCHANGED vars
    BY <1>4, <1>13 DEF vars, kitVars
<1> QED
    BY <1>5, <1>6, <1>7, <1>8, <1>10, <1>11, <1>12, <1>13 DEF Next, TaskStep

(***************************************************************************)
(* The balance of every component is its opening balance plus the receipts *)
(* less the movements of all messages, whatever attempts were rolled back. *)
(***************************************************************************)
THEOREM BalancesReconciled == Spec => []StockReconciled
<1>1. Init => StockInv
  <2> SUFFICES ASSUME Init PROVE StockInv
      OBVIOUS
  <2>1. TakenIsDrawn
      BY DrawnOfNone DEF Init, Nothing, TakenIsDrawn
  <2>2. StockReconciled
    <3> SUFFICES ASSUME NEW c \in Components
                 PROVE  stock[c] = Opening[c] + received[c] - Issued(c)
        BY DEF StockReconciled
    <3>1. ASSUME NEW m \in Messages PROVE IssuedOf(c)[m] = 0
      <4>1. IssuedOf(c)[m] = SumFunctionOnSet(MovedOf(m, c), Lines)
          BY DEF IssuedOf, IssuedFor, MovedOf
      <4>2. \A l \in Lines : MovedOf(m, c)[l] = 0
          BY NeedsType DEF Init, MovedOf
      <4> QED
          BY <4>1, <4>2, SumZero, KitAssumption
    <3>2. Issued(c) = SumFunctionOnSet(IssuedOf(c), Messages)
        BY DEF Issued, IssuedOf
    <3>3. Issued(c) = 0
        BY <3>1, <3>2, SumZero, KitAssumption
    <3> QED
        BY <3>3, KitAssumption DEF Init, Nothing
  <2> QED
      BY <2>1, <2>2 DEF Init, StockInv, ChecksFirst
<1>2. TypeOK /\ TypeOK' /\ EffectInv /\ StockInv /\ [Next]_vars => StockInv'
    BY StockStep
<1>3. StockInv => StockReconciled
    BY DEF StockInv
<1> QED
    BY <1>1, <1>2, <1>3, TypeCorrect, EffectCorrect, PTL DEF Spec
=============================================================================
