------------------------------ MODULE PdvSync ------------------------------
(***************************************************************************)
(* Sales of the point of sale with and without a connection: the handler   *)
(* of "sale:create", which asks the backend and journals the sale when no  *)
(* answer comes and the monitor says offline, and the synchronisation that *)
(* later sends the journal (pdv/src/main: ipc/sale.ts, services/           *)
(* syncEngine.ts, batchSyncClient.ts, operationJournal.ts).                *)
(*                                                                         *)
(* A request may be lost, its answer may be lost, and it may reach the     *)
(* backend long after the client gave up on it; copies of one request that *)
(* are late together count as one.  The backend is reduced to what the     *)
(* endpoint sales/counter/ does with an idempotency key.                   *)
(***************************************************************************)
EXTENDS Integers, FiniteSets

CONSTANTS Purchases,     \* what a cashier rings up; each may become a sale
          MaxAttempts,   \* attempts of processEntry (10 in the code)
          MaxBatch,      \* MAX_BATCH_SIZE (50 in the code)
          BatchAnswered, \* the batch endpoint can be reached: with the default
                         \* base URL the client asks for a path that has none
          MaxRestarts,   \* bound on abrupt restarts
          None

ASSUME PdvAssumption ==
    /\ MaxAttempts \in Nat \ {0}
    /\ MaxBatch \in Nat \ {0}
    /\ BatchAnswered \in BOOLEAN
    /\ MaxRestarts \in Nat
    /\ None \notin Purchases

VARIABLES asked,    \* the handler of sale:create, for each purchase
          entry,    \* projection status of the journaled event of a purchase
          online,   \* connectivityMonitor.isOnline()
          engine,   \* where the synchronisation is
          todo,     \* its snapshot of the pending entries
          current,  \* entry whose request it waits for
          attempt,  \* attempt of processEntry
          late,     \* keys of requests that nobody waits for any more, but that
                    \* may still reach the backend
          sales,    \* Sale rows of the backend, by idempotency key
          restarts

vars == <<asked, entry, online, engine, todo, current, attempt, late, sales, restarts>>

\* The handler draws a key for its request and the journal another one.
Keys == [of : Purchases, by : {"handler", "journal"}]
Direct(p) == [of |-> p, by |-> "handler"]
Queued(p) == [of |-> p, by |-> "journal"]

Settled == {"synced", "conflict", "failed"}
Projections == {"none", "pending", "syncing"} \cup Settled
Stages == {"new", "asking", "sold", "refused", "queued"}
Places == {"idle", "catalog", "batch", "entries", "posting", "backoff"}

\* Answers of the backend, by their class: done (also for a key it knows),
\* 409, 400 or 422, another client error, a server error.
Answers == {"ok", "conflict", "invalid", "client", "server"}

TypeOK ==
    /\ asked \in [Purchases -> Stages]
    /\ entry \in [Purchases -> Projections]
    /\ online \in BOOLEAN
    /\ engine \in Places
    /\ todo \subseteq Purchases
    /\ current \in Purchases \cup {None}
    /\ attempt \in 0..(MaxAttempts - 1)
    /\ late \subseteq Keys
    /\ sales \in [Keys -> Nat]
    /\ restarts \in 0..MaxRestarts

Init ==
    /\ asked = [p \in Purchases |-> "new"]
    /\ entry = [p \in Purchases |-> "none"]
    /\ online = TRUE
    /\ engine = "idle"
    /\ todo = {}
    /\ current = None
    /\ attempt = 0
    /\ late = {}
    /\ sales = [k \in Keys |-> 0]
    /\ restarts = 0

-----------------------------------------------------------------------------
Mark(p, status) == entry' = [entry EXCEPT ![p] = status]

Pending == {p \in Purchases : entry[p] = "pending"}

(***************************************************************************)
(* The backend answers a request.  A key that has its sale is answered     *)
(* without another one; it may still be refused, because the request is    *)
(* checked before the key is looked up (a product or an operator may not   *)
(* be what it was), and fails after it as well.                            *)
(***************************************************************************)

\* Mutant: the key is not looked up.
ServeAnew(k, answer) ==
    sales' = IF answer = "ok" THEN [sales EXCEPT ![k] = @ + 1] ELSE sales

Serve(k, answer) ==
    sales' = IF answer = "ok" /\ sales[k] = 0 THEN [sales EXCEPT ![k] = @ + 1] ELSE sales

\* A request that the client gave up on reaches the backend, at once (only the
\* answer was lost) or later.  It may also be lost: it stays late.
ServeLate(k, answer) ==
    /\ k \in late
    /\ late' = late \ {k}
    /\ Serve(k, answer)
    /\ UNCHANGED <<asked, entry, online, engine, todo, current, attempt, restarts>>

-----------------------------------------------------------------------------
(* The handler of sale:create.                                             *)

Ask(p) ==
    /\ asked[p] = "new"
    /\ asked' = [asked EXCEPT ![p] = "asking"]
    /\ UNCHANGED <<entry, online, engine, todo, current, attempt, late, sales, restarts>>

Hear(p, answer) ==
    /\ asked[p] = "asking"
    /\ Serve(Direct(p), answer)
    /\ asked' = [asked EXCEPT ![p] = IF answer = "ok" THEN "sold" ELSE "refused"]
    /\ UNCHANGED <<entry, online, engine, todo, current, attempt, late, restarts>>

\* No answer while the monitor says online, or the policy forbids the sale.
GiveUp(p) ==
    /\ asked[p] = "asking"
    /\ asked' = [asked EXCEPT ![p] = "refused"]
    /\ late' = late \cup {Direct(p)}
    /\ UNCHANGED <<entry, online, engine, todo, current, attempt, sales, restarts>>

\* No answer and no connection: queueSale appends the sale to the journal.
Queue(p) ==
    /\ asked[p] = "asking"
    /\ ~online
    /\ asked' = [asked EXCEPT ![p] = "queued"]
    /\ Mark(p, "pending")
    /\ late' = late \cup {Direct(p)}
    /\ UNCHANGED <<online, engine, todo, current, attempt, sales, restarts>>

-----------------------------------------------------------------------------
(* syncEngine.sync().                                                      *)

\* The user asks for it; a run in progress is not started again.
Trigger ==
    /\ engine = "idle"
    /\ engine' = "catalog"
    /\ UNCHANGED <<asked, entry, online, todo, current, attempt, late, sales, restarts>>

\* The monitor finds the backend again, which starts a run too.
Reconnect ==
    /\ ~online
    /\ online' = TRUE
    /\ engine' = IF engine = "idle" THEN "catalog" ELSE engine
    /\ UNCHANGED <<asked, entry, todo, current, attempt, late, sales, restarts>>

Disconnect ==
    /\ online
    /\ online' = FALSE
    /\ UNCHANGED <<asked, entry, engine, todo, current, attempt, late, sales, restarts>>

\* Mutant: everything that is not synced is sent again.
SnapshotUnsynced == {p \in Purchases : entry[p] \notin {"none", "synced"}}

\* getPending, after the catalog was refreshed.
Snapshot == Pending

\* Nothing to send, or no connection: the loop is left at its first entry.
FindNothing ==
    /\ engine = "catalog"
    /\ Snapshot = {} \/ ~online
    /\ engine' = "idle"
    /\ UNCHANGED <<asked, entry, online, todo, current, attempt, late, sales, restarts>>

\* The batch client marks the entries of its batch and posts them.
SendBatch ==
    /\ engine = "catalog"
    /\ Snapshot # {}
    /\ online
    /\ \E batch \in SUBSET Snapshot :
         /\ \/ Cardinality(batch) = MaxBatch
            \/ (batch = Snapshot /\ Cardinality(batch) <= MaxBatch)
         /\ entry' = [p \in Purchases |-> IF p \in batch THEN "syncing" ELSE entry[p]]
    /\ todo' = Snapshot
    /\ engine' = "batch"
    /\ UNCHANGED <<asked, online, current, attempt, late, sales, restarts>>

\* The post raises: the entries are sent one by one.
FallBack ==
    /\ engine = "batch"
    /\ engine' = "entries"
    /\ UNCHANGED <<asked, entry, online, todo, current, attempt, late, sales, restarts>>

\* The post is answered; the client looks for the results under a name that
\* the answer does not have, so that no entry is marked.
AcceptBatch ==
    /\ BatchAnswered
    /\ engine = "batch"
    /\ engine' = "idle"
    /\ todo' = {}
    /\ UNCHANGED <<asked, entry, online, current, attempt, late, sales, restarts>>

\* Mutant: the loop waits for the connection.
EndRunSent ==
    /\ engine = "entries"
    /\ todo = {}
    /\ engine' = "idle"
    /\ UNCHANGED <<asked, entry, online, todo, current, attempt, late, sales, restarts>>

\* All entries were sent, or the connection was lost: the run is over.
EndRun ==
    /\ engine = "entries"
    /\ todo = {} \/ ~online
    /\ engine' = "idle"
    /\ todo' = {}
    /\ UNCHANGED <<asked, entry, online, current, attempt, late, sales, restarts>>

\* processEntry marks the entry and posts it with the key of the journal.
Post(p) ==
    /\ engine = "entries"
    /\ online
    /\ p \in todo
    /\ Mark(p, "syncing")
    /\ todo' = todo \ {p}
    /\ current' = p
    /\ attempt' = 0
    /\ engine' = "posting"
    /\ UNCHANGED <<asked, online, late, sales, restarts>>

Leave == engine' = "entries" /\ current' = None

\* Mutant: a conflict is taken for a sale that the backend already has.
OutcomeKnown(answer) ==
    [ok |-> "synced", conflict |-> "synced", invalid |-> "failed", client |-> "pending"][answer]

\* What processEntry makes of an answer that ends it.
Outcome(answer) ==
    [ok |-> "synced", conflict |-> "conflict", invalid |-> "failed", client |-> "pending"][answer]

HearSync(answer) ==
    /\ engine = "posting"
    /\ Serve(Queued(current), answer)
    /\ \/ /\ answer # "server"
          /\ Mark(current, Outcome(answer))
          /\ Leave
       \/ /\ answer = "server"
          /\ engine' = "backoff"
          /\ UNCHANGED <<entry, current>>
    /\ UNCHANGED <<asked, online, todo, attempt, late, restarts>>

\* No answer: a timeout, or the network raises.
HearNothing ==
    /\ engine = "posting"
    /\ engine' = "backoff"
    /\ late' = late \cup {Queued(current)}
    /\ UNCHANGED <<asked, entry, online, todo, current, attempt, sales, restarts>>

Again == attempt + 1 < MaxAttempts

\* The delay is over: the entry goes back to pending without a connection,
\* and is posted again otherwise.
Retry ==
    /\ engine = "backoff"
    /\ online
    /\ Again
    /\ attempt' = attempt + 1
    /\ engine' = "posting"
    /\ UNCHANGED <<asked, entry, online, todo, current, late, sales, restarts>>

Postpone ==
    /\ engine = "backoff"
    /\ ~online
    /\ Mark(current, "pending")
    /\ Leave
    /\ UNCHANGED <<asked, online, todo, attempt, late, sales, restarts>>

\* After the last attempt the loop just ends; the status stays as it is.
RunOut ==
    /\ engine = "backoff"
    /\ online
    /\ ~Again
    /\ Leave
    /\ UNCHANGED <<asked, entry, online, todo, attempt, late, sales, restarts>>

-----------------------------------------------------------------------------
\* The application dies and comes up: the journal is on disk, the rest is not.
Restart ==
    /\ restarts < MaxRestarts
    /\ restarts' = restarts + 1
    /\ asked' = [p \in Purchases |-> IF asked[p] = "asking" THEN "refused" ELSE asked[p]]
    /\ online' = TRUE
    /\ engine' = "idle"
    /\ todo' = {}
    /\ current' = None
    /\ attempt' = 0
    /\ late' = late \cup {Direct(p) : p \in {q \in Purchases : asked[q] = "asking"}}
                   \cup {Queued(p) : p \in {q \in Purchases : engine = "posting" /\ q = current}}
    /\ UNCHANGED <<entry, sales>>

EngineStep ==
    \/ FindNothing
    \/ SendBatch
    \/ FallBack
    \/ AcceptBatch
    \/ EndRun
    \/ \E p \in Purchases : Post(p)
    \/ \E answer \in Answers : HearSync(answer)
    \/ HearNothing
    \/ Retry
    \/ Postpone
    \/ RunOut

HandlerStep(p) == Ask(p) \/ GiveUp(p) \/ Queue(p) \/ \E answer \in Answers : Hear(p, answer)

NetworkStep ==
    \/ \E k \in Keys, answer \in Answers : ServeLate(k, answer)
    \/ Reconnect
    \/ Disconnect

Next ==
    \/ EngineStep
    \/ Trigger
    \/ \E p \in Purchases : HandlerStep(p)
    \/ NetworkStep
    \/ Restart

Spec == Init /\ [][Next]_vars

\* The timers of the engine run: a request is answered or times out, a delay
\* ends.  Nothing is assumed of the network, the backend or the user.
FairSpec == Spec /\ WF_vars(EngineStep)

-----------------------------------------------------------------------------
\* Retries, requests that arrive late and restarts never give one journaled
\* event two sales (Idempotency-Key of processEntry).
OneSalePerEvent == \A p \in Purchases : sales[Queued(p)] <= 1

\* The journal calls an event synced only if the backend has its sale.
SyncedIsSold == \A p \in Purchases : entry[p] = "synced" => sales[Queued(p)] > 0

\* An outcome that the cashier has seen, or that the journal has recorded, is
\* never taken back: a settled entry is not sent or marked again, by any run.
SettledForGood ==
    [][\A p \in Purchases : /\ entry[p] \in Settled => entry'[p] = entry[p]
                            /\ asked[p] \in {"sold", "queued"} => asked'[p] = asked[p]]_vars

\* A run of the synchronisation comes to its end, so that syncInProgress does
\* not shut later runs out.
RunsEnd == engine # "idle" ~> engine = "idle"

\* An offline sale is recoverable: an event that nobody is sending is pending
\* or settled (NFR-OFFLINE-001).  It is not: it may be left as syncing.
NoneStranded == \A p \in Purchases : entry[p] = "syncing" => engine # "idle"

\* A purchase becomes one sale (TEST-SALE-001).  It may become two: the sale
\* that the handler journals has another key than the request it has sent.
OneSalePerPurchase == \A p \in Purchases : sales[Direct(p)] + sales[Queued(p)] <= 1
=============================================================================
