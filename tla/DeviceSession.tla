---------------------------- MODULE DeviceSession ----------------------------
(***************************************************************************)
(* Who the point of sale is logged in as.  The page (pdv/src/renderer)     *)
(* validates a device's key and keeps the credentials in its local storage *)
(* (AuthContext.tsx); it passes them to the main process by messages, in   *)
(* order but without waiting (ipc/auth.ts), and sends its commands the     *)
(* same way.  The main process uses what its own store holds at each       *)
(* request (services/api.ts) and again when an answer is there             *)
(* (ipc/sale.ts), drops it when a refresh fails, and keeps a catalogue for *)
(* each tenant (services/catalogCache.ts), read page by page.              *)
(***************************************************************************)
EXTENDS Integers, Sequences

CONSTANTS Devices, Tenants, Tenant,  \* the devices of each tenant
          Nobody,
          MaxPages,    \* pages of a tenant's catalogue
          MaxMessages, MaxRestarts  \* bounds

ASSUME SessionAssumption ==
    /\ Tenant \in [Devices -> Tenants]
    /\ Nobody \notin Devices \cup Tenants
    /\ {MaxPages, MaxMessages, MaxRestarts} \subseteq Nat

VARIABLES local,     \* the device in the page's local storage
          asked,     \* the keys that the page has sent for validation
          messages,  \* from the page to the main process
          store,     \* the device in the main process's store
          command,   \* a command that waits for its answer (any of them: it
                     \* changes nothing else): whose page sent it, and the
                     \* devices that logged in on the page meanwhile
          failing,   \* a refresh of the token is on its way
          active,    \* devices that the backend has not revoked
          db,        \* the tenant whose catalogue is open
          run,       \* the refresh of the catalogue, or the last one that was
                     \* written: whether its database is still the open one,
                     \* the tenants whose rows it has got, the other
                     \* tenants that logged in since it began, and whether a
                     \* lookup found one of them in the store
          missed,    \* a restart lost the message of the page's last login
          restarts

session == <<local, asked, messages, store, command, failing, active, missed>>
catalog == <<db, run>>
vars == <<session, catalog, restarts>>

Who == Devices \cup {Nobody}
Whose == Tenants \cup {Nobody}
TenantOf(d) == IF d = Nobody THEN Nobody ELSE Tenant[d]

KeyCheck == [kind : {"check", "login"}, of : Devices]
Message == [kind : {"sync", "call"}, of : Devices] \cup [kind : {"logout"}, of : {Nobody}]
NoCommand == [page |-> Nobody]
Command == [page : Devices, others : SUBSET Devices]
NoRun == [of |-> Nobody]
Run == [of : Tenants, open : BOOLEAN, read : 0..MaxPages, last : Whose,
        got : SUBSET Tenants, others : SUBSET Tenants,
        looked : BOOLEAN, written : BOOLEAN]
Refreshing == run # NoRun /\ ~run.written

TypeOK ==
    /\ {local, store} \subseteq Who
    /\ asked \subseteq KeyCheck
    /\ messages \in Seq(Message) /\ Len(messages) <= MaxMessages
    /\ command \in Command \cup {NoCommand}
    /\ {failing, missed} \subseteq BOOLEAN
    /\ active \subseteq Devices
    /\ db \in Whose
    /\ run \in Run \cup {NoRun}
    /\ restarts \in 0..MaxRestarts

Init ==
    /\ local = Nobody /\ asked = {} /\ messages = <<>>
    /\ store = Nobody /\ command = NoCommand /\ failing = FALSE
    /\ active = Devices
    /\ db = Nobody /\ run = NoRun
    /\ missed = FALSE /\ restarts = 0

-----------------------------------------------------------------------------
(* The page.                                                               *)

Send(kind) ==
    /\ Len(messages) < MaxMessages
    /\ messages' = Append(messages, [kind |-> kind, of |-> local'])

\* The login page is shown when nobody is logged in, a check on its way or not;
\* its button waits for the answer.
AskLogin(d) ==
    /\ local = Nobody /\ \A r \in asked : r.kind # "login"
    /\ asked' = asked \cup {[kind |-> "login", of |-> d]}
    /\ UNCHANGED <<local, messages, store, command, failing, active, missed,
                   catalog, restarts>>

\* The key is valid; an answer that comes after a logout, or after another
\* login, brings its own credentials back.
Accept(r) ==
    /\ r.of \in active
    /\ local' = r.of /\ asked' = asked \ {r}
    /\ Send("sync")
    /\ UNCHANGED <<store, command, failing, active, missed, catalog, restarts>>

\* A refused check drops the credentials and does not tell the main process; a
\* refused login leaves the page as it is.
Reject(r) ==
    /\ r.of \notin active
    /\ local' = (IF r.kind = "check" THEN Nobody ELSE local)
    /\ asked' = asked \ {r}
    /\ UNCHANGED <<messages, store, command, failing, active, missed, catalog,
                   restarts>>

\* No connection.
Unanswered(r) ==
    /\ asked' = asked \ {r}
    /\ UNCHANGED <<local, messages, store, command, failing, active, missed,
                   catalog, restarts>>

Logout ==
    /\ local # Nobody
    /\ local' = Nobody
    /\ Send("logout")
    /\ UNCHANGED <<asked, store, command, failing, active, missed, catalog,
                   restarts>>

\* Any command of a page: a sale, a search, the cash session.
Call ==
    /\ local # Nobody /\ UNCHANGED local
    /\ Send("call")
    /\ UNCHANGED <<asked, store, command, failing, active, missed, catalog,
                   restarts>>

-----------------------------------------------------------------------------
(* The main process.                                                       *)

\* What a login means to a refresh of the catalogue and to a waiting command.
Noted(d) ==
    /\ run' = (IF Refreshing /\ Tenant[d] # run.of
               THEN [run EXCEPT !.others = @ \cup {Tenant[d]}] ELSE run)
    /\ command' = (IF command # NoCommand /\ d # command.page
                THEN [command EXCEPT !.others = @ \cup {d}] ELSE command)

\* Mutant: credentials that are there already are kept.
SyncTokensOnce(d) ==
    /\ store' = (IF store = Nobody THEN d ELSE store)
    /\ missed' = FALSE
    /\ Noted(d)

SyncTokens(d) ==
    /\ store' = d /\ missed' = FALSE
    /\ Noted(d)

ClearAuth ==
    /\ store' = Nobody
    /\ UNCHANGED <<command, missed, run>>

\* The request goes out with what the store holds now.
Execute(d) ==
    /\ command' \in {command, [page |-> d, others |-> {}]}
    /\ command' = command \/ command = NoCommand
    /\ UNCHANGED <<store, missed, run>>

\* Mutant: a refresh on its way holds up the messages.
HandleHeld ==
    /\ messages # <<>> /\ ~failing
    /\ messages' = Tail(messages)
    /\ LET m == Head(messages)
       IN  \/ m.kind = "sync" /\ SyncTokens(m.of)
           \/ m.kind = "logout" /\ ClearAuth
           \/ m.kind = "call" /\ Execute(m.of)
    /\ UNCHANGED <<local, asked, failing, active, db, restarts>>

Handle ==
    /\ messages # <<>>
    /\ messages' = Tail(messages)
    /\ LET m == Head(messages)
       IN  \/ m.kind = "sync" /\ SyncTokens(m.of)
           \/ m.kind = "logout" /\ ClearAuth
           \/ m.kind = "call" /\ Execute(m.of)
    /\ UNCHANGED <<local, asked, failing, active, db, restarts>>

\* The answer of the command is there, or will not come: the store is read once
\* more, for the eligibility that the answer tells or for a sale without a
\* connection.
Resume ==
    /\ command # NoCommand
    /\ command' = NoCommand
    /\ UNCHANGED <<local, asked, messages, store, failing, active, missed,
                   catalog, restarts>>

\* Any request of the main process may find its token expired or revoked: it is
\* answered 401 and a refresh is sent, without the credentials that the backend
\* asks for.
Unauthorized ==
    /\ store # Nobody /\ ~failing
    /\ failing' = TRUE
    /\ UNCHANGED <<local, asked, messages, store, command, active, missed,
                   catalog, restarts>>

\* The refresh fails; whatever the store holds by now is removed.
RefreshFails ==
    /\ failing
    /\ failing' = FALSE
    /\ store' = Nobody
    /\ UNCHANGED <<local, asked, messages, command, active, missed, catalog,
                   restarts>>

Revoke(d) ==
    /\ d \in active
    /\ active' = active \ {d}
    /\ UNCHANGED <<local, asked, messages, store, command, failing, missed,
                   catalog, restarts>>

-----------------------------------------------------------------------------
(* The catalogue.                                                          *)

\* The catalogue of the store's tenant is opened, another one closed; without
\* a tenant in the store the open one is kept.
Ensure(t) == db' = IF t = Nobody THEN db ELSE t

\* A product or a price is looked up for a sale without a connection.
Lookup ==
    /\ Ensure(TenantOf(store))
    /\ run' = (IF Refreshing
               THEN [run EXCEPT !.open = @ /\ db' = db,
                                !.looked = @ \/ TenantOf(store) \notin {run.of, Nobody}]
               ELSE run)
    /\ UNCHANGED <<session, restarts>>

\* A catalogue that no lookup has opened yet is not refreshed.
BeginRefresh ==
    /\ ~Refreshing /\ db # Nobody
    /\ Ensure(TenantOf(store))
    /\ run' = [of |-> db', open |-> TRUE, read |-> 0, last |-> Nobody, got |-> {},
               others |-> {}, looked |-> FALSE, written |-> FALSE]
    /\ UNCHANGED <<session, restarts>>

Discard ==
    /\ Refreshing
    /\ run' = NoRun
    /\ UNCHANGED <<session, db, restarts>>

\* Mutant: a page after the last is asked for.
ReadPagePast ==
    /\ Refreshing /\ run.last = Nobody
    /\ store # Nobody
    /\ run' = [run EXCEPT !.read = @ + 1, !.last = Tenant[store],
                          !.got = @ \cup {Tenant[store]}]
    /\ UNCHANGED <<session, db, restarts>>

\* The next page is that of the tenant in the store by now.
ReadPage ==
    /\ Refreshing /\ run.last = Nobody /\ run.read < MaxPages
    /\ store # Nobody
    /\ run' = [run EXCEPT !.read = @ + 1, !.last = Tenant[store],
                          !.got = @ \cup {Tenant[store]}]
    /\ UNCHANGED <<session, db, restarts>>

\* The prices of a product are found by its own tenant only.
ReadPrices ==
    /\ Refreshing /\ run.last # Nobody
    /\ TenantOf(store) = run.last
    /\ run' = [run EXCEPT !.last = Nobody]
    /\ UNCHANGED <<session, db, restarts>>

\* Mutant: only the tenant of the open catalogue is compared.
WriteSnapshotSameTenant ==
    /\ Refreshing /\ run.last = Nobody /\ run.read = MaxPages
    /\ db = run.of
    /\ run' = [run EXCEPT !.written = TRUE]
    /\ UNCHANGED <<session, db, restarts>>

\* One transaction replaces the catalogue, unless it was closed meanwhile.
WriteSnapshot ==
    /\ Refreshing /\ run.last = Nobody /\ run.read = MaxPages
    /\ db = run.of /\ run.open
    /\ run' = [run EXCEPT !.written = TRUE]
    /\ UNCHANGED <<session, db, restarts>>

-----------------------------------------------------------------------------
\* Local storage, the store and the catalogues survive; the page checks its key.
Restart ==
    /\ restarts < MaxRestarts
    /\ restarts' = restarts + 1
    /\ asked' = {[kind |-> "check", of |-> d] : d \in {local} \ {Nobody}}
    /\ missed' = (missed \/ \E i \in DOMAIN messages : messages[i].kind = "sync")
    /\ messages' = <<>> /\ command' = NoCommand /\ failing' = FALSE
    /\ db' = Nobody /\ run' = NoRun
    /\ UNCHANGED <<local, store, active>>

Next ==
    \/ \E d \in Devices : AskLogin(d) \/ Revoke(d)
    \/ \E r \in asked : Accept(r) \/ Reject(r) \/ Unanswered(r)
    \/ Logout \/ Call \/ Handle \/ Resume
    \/ Unauthorized \/ RefreshFails
    \/ Lookup \/ BeginRefresh \/ Discard \/ ReadPage \/ ReadPrices \/ WriteSnapshot
    \/ Restart

Spec == Init /\ [][Next]_vars

\* The main process takes the messages of the page in turn.
FairSpec == Spec /\ WF_vars(Handle)

-----------------------------------------------------------------------------
(* From its request until its answer, when the store is read once more     *)
(* (ipc/sale.ts, offlineSaleService.ts), a command finds the credentials   *)
(* of the page that sent it, or of a device that logged in on that page    *)
(* while it waited, or none; the messages that pass credentials on are not *)
(* waited for, and refreshes, late checks, restarts and logouts interfere. *)
(* Only a login whose message died with the main process escapes it, until *)
(* the check at the start is answered.                                     *)
OwnCredentials ==
    command # NoCommand => store \in {command.page, Nobody} \cup command.others \/ missed

(* A refresh that writes its rows (catalogCache.refreshCatalogSnapshot) is *)
(* one during which no lookup ran for another tenant, even if a later one  *)
(* opened the catalogue again; rows of another tenant come only from a     *)
(* login that no lookup followed.                                          *)
OwnRows ==
    run # NoRun /\ run.written => ~run.looked /\ run.got \subseteq {run.of} \cup run.others

(* The main process follows the page (ipc/auth.ts, auth:sync-tokens): a    *)
(* page that stays logged in as a device finds the main process logged in  *)
(* as that device, or logged out.                                          *)
MainFollows ==
    \A d \in Devices :
        local = d ~> (local # d \/ store \in {d, Nobody} \/ missed)

(* Not so: a command never meets another device's credentials, and a       *)
(* catalogue has rows of its own tenant only (catalogCache.test.ts, Given  *)
(* a cached product in tenant A).                                          *)
PageCredentials == command # NoCommand => store \in {command.page, Nobody}
TenantRows == run # NoRun /\ run.written => run.got \subseteq {run.of}
=============================================================================
