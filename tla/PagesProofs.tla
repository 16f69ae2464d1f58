----------------------------- MODULE PagesProofs -----------------------------
(***************************************************************************)
(* Theorems about what pages do: whose credentials the main process uses   *)
(* for a page's commands (DeviceSession), for any devices, tenants, queues *)
(* and restarts; what the sale page sells (Till), for any products, prices *)
(* and requests; and why a list page shows an error (WebLists), for any    *)
(* filters and sizes.                                                      *)
(***************************************************************************)
EXTENDS DeviceSession, Till, WebLists, Sums

(***************************************************************************)
(* Whose credentials.                                                      *)
(***************************************************************************)
USE SessionAssumption

LEMMA TenantType == \A d \in Who : TenantOf(d) \in Whose
BY DEF Who, Whose, TenantOf

\* A sequence of messages after one more, and without its first.
LEMMA MessagesType ==
    ASSUME messages \in Seq(Message), Len(messages) <= MaxMessages
    PROVE  /\ \A kind \in {"sync", "logout", "call"} :
                 local' \in (IF kind = "logout" THEN {Nobody} ELSE Devices) /\ Send(kind)
                 => messages' \in Seq(Message) /\ Len(messages') <= MaxMessages
           /\ messages # <<>> => /\ Head(messages) \in Message
                                 /\ Tail(messages) \in Seq(Message)
                                 /\ Len(Tail(messages)) <= MaxMessages
<1>1. Len(messages) \in Nat /\ MaxMessages \in Nat
    OBVIOUS
<1>2. ASSUME NEW kind \in {"sync", "logout", "call"}, Send(kind),
             local' \in (IF kind = "logout" THEN {Nobody} ELSE Devices)
      PROVE  messages' \in Seq(Message) /\ Len(messages') <= MaxMessages
  <2>1. [kind |-> kind, of |-> local'] \in Message
    <3>1. CASE kind = "logout"
        BY <1>2, <3>1 DEF Message
    <3>2. CASE kind # "logout"
      <4>1. kind \in {"sync", "call"} /\ local' \in Devices
          BY <1>2, <3>2
      <4> QED
          BY <4>1 DEF Message
    <3> QED
        BY <3>1, <3>2
  <2> QED
      BY <1>1, <1>2, <2>1 DEF Send
<1>3. ASSUME messages # <<>>
      PROVE  /\ Head(messages) \in Message /\ Tail(messages) \in Seq(Message)
             /\ Len(Tail(messages)) <= MaxMessages
    BY <1>1, <1>3
<1> QED
    BY <1>2, <1>3

LEMMA NoMessages == <<>> \in Seq(Message) /\ Len(<<>>) <= MaxMessages
OBVIOUS

LEMMA NotedType ==
    ASSUME run \in Run \cup {NoRun}, command \in Command \cup {NoCommand}, NEW d \in Devices, Noted(d)
    PROVE  run' \in Run \cup {NoRun} /\ command' \in Command \cup {NoCommand}
<1>1. Tenant[d] \in Tenants
    OBVIOUS
<1>2. CASE Refreshing /\ Tenant[d] # run.of
  <2>1. run \in Run /\ run' = [run EXCEPT !.others = @ \cup {Tenant[d]}]
      BY <1>2 DEF Noted, Refreshing
  <2>2. run' \in Run
      BY <1>1, <2>1 DEF Run
  <2> QED
      BY <2>2 DEF Noted, Command
<1>3. CASE ~(Refreshing /\ Tenant[d] # run.of)
    BY <1>3 DEF Noted, Command
<1> QED
    BY <1>2, <1>3

LEMMA DeviceTypeStep ==
    ASSUME TypeOK, [Next]_vars
    PROVE  TypeOK'
<1> USE DEF TypeOK, Who
<1>1. ASSUME NEW d \in Devices, AskLogin(d) PROVE TypeOK'
  <2>1. asked' \subseteq KeyCheck
      BY <1>1 DEF AskLogin, KeyCheck
  <2> QED
      BY <1>1, <2>1 DEF AskLogin, catalog
<1>2. ASSUME NEW d \in Devices, Revoke(d) PROVE TypeOK'
    BY <1>2 DEF Revoke, catalog
<1>3. ASSUME NEW r \in asked, Accept(r) PROVE TypeOK'
  <2>1. local' \in Devices /\ Send("sync")
      BY <1>3 DEF Accept, KeyCheck
  <2>2. messages' \in Seq(Message) /\ Len(messages') <= MaxMessages
      BY <2>1, MessagesType
  <2> QED
      BY <1>3, <2>1, <2>2 DEF Accept, catalog
<1>4. ASSUME NEW r \in asked, Reject(r) \/ Unanswered(r) PROVE TypeOK'
    BY <1>4 DEF Reject, Unanswered, catalog
<1>5. CASE Logout
  <2>1. messages' \in Seq(Message) /\ Len(messages') <= MaxMessages
      BY <1>5, MessagesType DEF Logout
  <2> QED
      BY <1>5, <2>1 DEF Logout, catalog
<1>6. CASE Call
  <2>1. messages' \in Seq(Message) /\ Len(messages') <= MaxMessages
      BY <1>6, MessagesType DEF Call
  <2> QED
      BY <1>6, <2>1 DEF Call, catalog
<1>7. CASE Handle
  <2> DEFINE m == Head(messages)
  <2>1. m \in Message /\ messages' \in Seq(Message) /\ Len(messages') <= MaxMessages
      BY <1>7, MessagesType DEF Handle
  <2>2. CASE m.kind = "sync" /\ SyncTokens(m.of)
    <3>1. m.of \in Devices
        BY <2>1, <2>2 DEF Message
    <3>2. run' \in Run \cup {NoRun} /\ command' \in Command \cup {NoCommand}
        BY <2>2, <3>1, NotedType DEF SyncTokens
    <3> QED
        BY <1>7, <2>1, <2>2, <3>1, <3>2 DEF Handle, SyncTokens
  <2>3. CASE m.kind = "logout" /\ ClearAuth
      BY <1>7, <2>1, <2>3 DEF Handle, ClearAuth
  <2>4. CASE m.kind = "call" /\ Execute(m.of)
    <3>1. m.of \in Devices
        BY <2>1, <2>4 DEF Message
    <3>2. command' \in Command \cup {NoCommand}
        BY <2>4, <3>1 DEF Execute, Command
    <3> QED
        BY <1>7, <2>1, <2>4, <3>2 DEF Handle, Execute
  <2> QED
      BY <1>7, <2>2, <2>3, <2>4 DEF Handle
<1>8. CASE Resume \/ Unauthorized \/ RefreshFails
    BY <1>8 DEF Resume, Unauthorized, RefreshFails, catalog
<1>9. CASE Lookup
  <2>1. db' \in Whose
      BY <1>9, TenantType DEF Lookup, Ensure
  <2>2. CASE ~Refreshing
      BY <1>9, <2>1, <2>2 DEF Lookup, session
  <2>3. CASE Refreshing
    <3> DEFINE o == run.open /\ db' = db
               l == run.looked \/ TenantOf(store) \notin {run.of, Nobody}
    <3>1. run \in Run /\ run' = [run EXCEPT !.open = o, !.looked = l]
        BY <1>9, <2>3 DEF Lookup, Refreshing
    <3>2. o \in BOOLEAN /\ l \in BOOLEAN
        BY <3>1 DEF Run
    <3> HIDE DEF o, l
    <3>3. run' \in Run
        BY <3>1, <3>2 DEF Run
    <3> QED
        BY <1>9, <2>1, <3>3 DEF Lookup, session
  <2> QED
      BY <2>2, <2>3
<1>10. CASE BeginRefresh
  <2>1. db' \in Tenants
      BY <1>10, TenantType DEF BeginRefresh, Ensure, Whose
  <2>2. run' \in Run
      BY <1>10, <2>1 DEF BeginRefresh, Run, Whose
  <2> QED
      BY <1>10, <2>1, <2>2 DEF BeginRefresh, session, Whose
<1>11. CASE Discard
    BY <1>11 DEF Discard, session
<1>12. CASE ReadPage
  <2>1. run \in Run /\ run.read + 1 \in 0..MaxPages /\ Tenant[store] \in Tenants
      BY <1>12 DEF ReadPage, Refreshing, Run
  <2>2. run' \in Run
      BY <1>12, <2>1 DEF ReadPage, Run, Whose
  <2> QED
      BY <1>12, <2>2 DEF ReadPage, session
<1>13. CASE ReadPrices
  <2>1. run' \in Run
      BY <1>13 DEF ReadPrices, Refreshing, Run, Whose
  <2> QED
      BY <1>13, <2>1 DEF ReadPrices, session
<1>14. CASE WriteSnapshot
  <2>1. run' \in Run
      BY <1>14 DEF WriteSnapshot, Refreshing, Run
  <2> QED
      BY <1>14, <2>1 DEF WriteSnapshot, session
<1>15. CASE Restart
  <2>1. missed' \in BOOLEAN
      BY <1>15 DEF Restart
  <2>2. db' \in Whose /\ restarts' \in 0..MaxRestarts
      BY <1>15 DEF Restart, Whose
  <2>3. messages' \in Seq(Message) /\ Len(messages') <= MaxMessages
      BY <1>15, NoMessages DEF Restart
  <2>4. asked' \subseteq KeyCheck
      BY <1>15 DEF Restart, KeyCheck
  <2> QED
      BY <1>15, <2>1, <2>2, <2>3, <2>4 DEF Restart
<1>16. CASE UNCHANGED vars
    BY <1>16 DEF vars, session, catalog
<1> QED
    BY <1>1, <1>2, <1>3, <1>4, <1>5, <1>6, <1>7, <1>8, <1>9, <1>10, <1>11, <1>12,
       <1>13, <1>14, <1>15, <1>16 DEF Next

(***************************************************************************)
(* Every reachable state of the session and of the catalogue is well       *)
(* typed: no more pages are read than a catalogue has (AuthContext.tsx,    *)
(* ipc/auth.ts, catalogCache.ts).                                          *)
(***************************************************************************)
THEOREM TypeCorrect == Spec => []TypeOK
<1>1. ASSUME Init PROVE TypeOK
  <2>1. messages \in Seq(Message) /\ Len(messages) <= MaxMessages
      BY <1>1, NoMessages DEF Init
  <2>2. db \in Whose /\ restarts \in 0..MaxRestarts
      BY <1>1 DEF Init, Whose
  <2> QED
      BY <1>1, <2>1, <2>2 DEF Init, TypeOK, Who
<1>2. TypeOK /\ [Next]_vars => TypeOK'
    BY DeviceTypeStep
<1> QED
    BY <1>1, <1>2, PTL DEF Spec

-----------------------------------------------------------------------------
(* Refreshes of the catalogue.                                             *)

\* A refresh whose database is still open is one without a lookup for another
\* tenant, and the tenants it read are its own or logged in since it began.
RunFollows ==
    run # NoRun /\ ~run.written =>
        /\ run.open => db = run.of /\ ~run.looked
        /\ run.got \subseteq {run.of} \cup run.others
        /\ TenantOf(store) \in {run.of, Nobody} \cup run.others

LEMMA LoginFollows ==
    ASSUME run \in Run \cup {NoRun}, RunFollows, NEW d \in Devices, Noted(d),
           store' = d, db' = db
    PROVE  RunFollows' /\ (run' # run => ~run'.written)
<1>1. TenantOf(store)' = Tenant[d] /\ Tenant[d] \in Tenants
  <2>1. d # Nobody
      OBVIOUS
  <2> QED
      BY <2>1 DEF TenantOf
<1>2. CASE Refreshing /\ Tenant[d] # run.of
  <2>1. run \in Run /\ run' = [run EXCEPT !.others = @ \cup {Tenant[d]}]
      BY <1>2 DEF Noted, Refreshing
  <2>2. /\ run'.others = run.others \cup {Tenant[d]} /\ run'.of = run.of
        /\ run'.open = run.open /\ run'.looked = run.looked /\ run'.got = run.got
        /\ run'.written = run.written
      BY <2>1 DEF Run
  <2>3. run # NoRun /\ ~run.written
      BY <1>2 DEF Refreshing
  <2> QED
      BY <1>1, <2>2, <2>3 DEF RunFollows
<1>3. CASE ~(Refreshing /\ Tenant[d] # run.of)
  <2>1. run' = run
      BY <1>3 DEF Noted
  <2> QED
      BY <1>1, <1>3, <2>1 DEF RunFollows, Refreshing
<1> QED
    BY <1>2, <1>3

LEMMA RunStep ==
    ASSUME TypeOK, RunFollows, [Next]_vars
    PROVE  RunFollows'
<1>0. run \in Run \cup {NoRun} /\ store \in Who
    BY DEF TypeOK
<1>1. CASE UNCHANGED <<run, db, store>>
    BY <1>1 DEF RunFollows, TenantOf
<1>2. ASSUME run' = run, db' = db, store' = Nobody PROVE RunFollows'
    BY <1>2 DEF RunFollows, TenantOf
<1>3. CASE Handle
  <2>1. CASE \E d \in Who : Execute(d)
      BY <1>1, <1>3, <2>1 DEF Handle, Execute
  <2>2. CASE ClearAuth
      BY <1>2, <1>3, <2>2 DEF Handle, ClearAuth
  <2>3. CASE Head(messages).kind = "sync" /\ SyncTokens(Head(messages).of)
    <3>1. Head(messages) \in Message
        BY <1>3, MessagesType DEF Handle, TypeOK
    <3>2. Head(messages).of \in Devices
        BY <2>3, <3>1 DEF Message
    <3> QED
        BY <1>0, <1>3, <2>3, <3>2, LoginFollows DEF Handle, SyncTokens
  <2>4. Head(messages).of \in Who
      BY <1>3, MessagesType DEF Handle, TypeOK, Message, Who
  <2> QED
      BY <1>3, <2>1, <2>2, <2>3, <2>4 DEF Handle
<1>4. CASE RefreshFails
    BY <1>2, <1>4 DEF RefreshFails, catalog
<1>5. CASE BeginRefresh
  <2>1. /\ run'.of = db' /\ run'.got = {} /\ run'.looked = FALSE /\ store' = store
      BY <1>5 DEF BeginRefresh, session
  <2>2. TenantOf(store) \in {db', Nobody}
      BY <1>5 DEF BeginRefresh, Ensure
  <2>3. TenantOf(store)' = TenantOf(store)
      BY <2>1 DEF TenantOf
  <2> QED
      BY <2>1, <2>2, <2>3 DEF RunFollows
<1>6. CASE Discard \/ WriteSnapshot \/ Restart
  <2>1. CASE WriteSnapshot
    <3>1. run \in Run /\ run' = [run EXCEPT !.written = TRUE]
        BY <1>0, <2>1 DEF WriteSnapshot, Refreshing
    <3>2. run'.written
        BY <3>1 DEF Run
    <3> QED
        BY <3>2 DEF RunFollows
  <2> QED
      BY <1>6, <2>1 DEF Discard, Restart, RunFollows
<1>7. CASE ReadPage
  <2>1. /\ run \in Run /\ UNCHANGED <<store, db>> /\ store # Nobody
        /\ run' = [run EXCEPT !.read = @ + 1, !.last = Tenant[store],
                              !.got = @ \cup {Tenant[store]}]
      BY <1>0, <1>7 DEF ReadPage, Refreshing, session
  <2>2. /\ run'.of = run.of /\ run'.others = run.others /\ run'.open = run.open
        /\ run'.looked = run.looked /\ run'.written = run.written
        /\ run'.got = run.got \cup {Tenant[store]}
      BY <2>1 DEF Run
  <2>3. TenantOf(store) = Tenant[store] /\ Tenant[store] # Nobody
      BY <1>0, <2>1 DEF TenantOf, Who
  <2>4. TenantOf(store)' = TenantOf(store) /\ run # NoRun
      BY <1>7, <2>1 DEF TenantOf, ReadPage, Refreshing
  <2> QED
      BY <2>1, <2>2, <2>3, <2>4 DEF RunFollows
<1>8. CASE ReadPrices
  <2>1. /\ run \in Run /\ UNCHANGED <<store, db>> /\ run' = [run EXCEPT !.last = Nobody]
        /\ run # NoRun
      BY <1>0, <1>8 DEF ReadPrices, Refreshing, session
  <2>2. /\ run'.of = run.of /\ run'.others = run.others /\ run'.open = run.open
        /\ run'.looked = run.looked /\ run'.written = run.written /\ run'.got = run.got
      BY <2>1 DEF Run
  <2>3. TenantOf(store)' = TenantOf(store)
      BY <2>1 DEF TenantOf
  <2> QED
      BY <2>1, <2>2, <2>3 DEF RunFollows
<1>9. CASE Lookup
  <2>0. store' = store /\ TenantOf(store)' = TenantOf(store)
      BY <1>9 DEF Lookup, session, TenantOf
  <2>1. CASE ~Refreshing
    <3>1. run' = run
        BY <1>9, <2>1 DEF Lookup
    <3> QED
        BY <2>1, <3>1 DEF RunFollows, Refreshing
  <2>2. CASE Refreshing
    <3> DEFINE o == run.open /\ db' = db
               l == run.looked \/ TenantOf(store) \notin {run.of, Nobody}
    <3>1. run \in Run /\ run' = [run EXCEPT !.open = o, !.looked = l]
        BY <1>0, <1>9, <2>2 DEF Lookup, Refreshing
    <3>2. run'.open = o /\ run'.looked = l
      <4> HIDE DEF o, l
      <4> QED
          BY <3>1 DEF Run
    <3>3. run'.of = run.of /\ run'.others = run.others /\ run'.got = run.got
      <4> HIDE DEF o, l
      <4> QED
          BY <3>1 DEF Run
    <3>4. db' = (IF TenantOf(store) = Nobody THEN db ELSE TenantOf(store))
        BY <1>9 DEF Lookup, Ensure
    <3>5. /\ run.open => db = run.of /\ ~run.looked
          /\ run.got \subseteq {run.of} \cup run.others
          /\ TenantOf(store) \in {run.of, Nobody} \cup run.others
        BY <2>2 DEF RunFollows, Refreshing
    <3>6. run'.open => db' = run.of /\ ~run'.looked
        BY <3>2, <3>4, <3>5
    <3> QED
        BY <2>0, <3>3, <3>5, <3>6 DEF RunFollows
  <2> QED
      BY <2>1, <2>2
<1> QED
    BY <1>1, <1>3, <1>4, <1>5, <1>6, <1>7, <1>8, <1>9
       DEF Next, AskLogin, Revoke, Accept, Reject, Unanswered, Logout, Call, Resume,
           Unauthorized, vars, session, catalog

\* The last refresh that was written stays as it was written.
LEMMA WrittenStays ==
    ASSUME TypeOK, [Next]_vars, ~WriteSnapshot, run' # NoRun, run'.written
    PROVE  run' = run
<1>0. run \in Run \cup {NoRun}
    BY DEF TypeOK
<1>1. CASE Handle
  <2>1. ASSUME NEW d \in Who, Noted(d), Refreshing, run # NoRun, run \in Run PROVE run' = run
    <3>1. run'.written = run.written
        BY <2>1 DEF Noted, Run
    <3> QED
        BY <2>1, <3>1 DEF Refreshing
  <2>2. Head(messages).of \in Who
      BY <1>1, MessagesType DEF Handle, TypeOK, Message, Who
  <2>3. CASE ~Refreshing
      BY <1>1, <2>3 DEF Handle, SyncTokens, ClearAuth, Execute, Noted
  <2> QED
      BY <1>0, <1>1, <2>1, <2>2, <2>3
         DEF Handle, SyncTokens, ClearAuth, Execute, Refreshing
<1>2. CASE BeginRefresh
    BY <1>2 DEF BeginRefresh
<1>3. CASE Lookup
  <2>1. CASE Refreshing
    <3>1. run \in Run
        BY <1>0, <2>1 DEF Refreshing
    <3>2. run'.written = run.written
        BY <1>3, <2>1, <3>1 DEF Lookup, Run
    <3> QED
        BY <2>1, <3>2 DEF Refreshing
  <2> QED
      BY <1>3, <2>1 DEF Lookup
<1>4. CASE ReadPage \/ ReadPrices
  <2>1. run \in Run /\ Refreshing
      BY <1>0, <1>4 DEF ReadPage, ReadPrices, Refreshing
  <2>2. run'.written = run.written
      BY <1>4, <2>1 DEF ReadPage, ReadPrices, Run
  <2> QED
      BY <2>1, <2>2 DEF Refreshing
<1> QED
    BY <1>1, <1>2, <1>3, <1>4
       DEF Next, AskLogin, Revoke, Accept, Reject, Unanswered, Logout, Call, Resume,
           Unauthorized, RefreshFails, Discard, Restart, vars, catalog

(***************************************************************************)
(* A refresh that a lookup for another tenant came across is never         *)
(* written, not even when the catalogue was opened again since; and the    *)
(* rows that are written are those of its own tenant or of one that logged *)
(* in meanwhile and looked nothing up, for any number of pages, tenants    *)
(* and logins (catalogCache.refreshCatalogSnapshot, ensureTenantDatabase). *)
(***************************************************************************)
THEOREM RowsApart == Spec => []OwnRows
<1>1. Init => RunFollows /\ OwnRows
    BY DEF Init, RunFollows, OwnRows
<1>2. TypeOK /\ RunFollows /\ OwnRows /\ [Next]_vars => RunFollows' /\ OwnRows'
  <2> SUFFICES ASSUME TypeOK, RunFollows, OwnRows, [Next]_vars
               PROVE  OwnRows'
      BY RunStep
  <2>1. CASE WriteSnapshot
    <3>1. run \in Run /\ run' = [run EXCEPT !.written = TRUE] /\ run.open /\ Refreshing
        BY <2>1 DEF WriteSnapshot, Refreshing, TypeOK
    <3>2. /\ run'.looked = run.looked /\ run'.got = run.got /\ run'.of = run.of
          /\ run'.others = run.others
        BY <3>1 DEF Run
    <3> QED
        BY <3>1, <3>2 DEF Refreshing, RunFollows, OwnRows
  <2>2. CASE ~WriteSnapshot
      BY <2>2, WrittenStays DEF OwnRows
  <2> QED
      BY <2>1, <2>2
<1> QED
    BY <1>1, <1>2, TypeCorrect, PTL DEF Spec

-----------------------------------------------------------------------------
(* Commands.                                                               *)

NoSync(m, first, last) == \A k \in first .. last : m[k].kind # "sync"

\* What the main process has handled before message i of the queue m: the last
\* login it passes on is that of d, or it passes none on and the store has d,
\* nobody, or a device whose successor's message was lost.
Follows(m, i, d) ==
    \/ \E j \in 1 .. i - 1 :
          m[j].kind = "sync" /\ m[j].of = d /\ NoSync(m, j + 1, i - 1)
    \/ NoSync(m, 1, i - 1) /\ (store \in {d, Nobody} \/ missed)

\* Every command on its way will find the credentials of its page, and so
\* would the next one.
MessagesFollow ==
    /\ \A i \in 1 .. Len(messages) :
          messages[i].kind = "call" => Follows(messages, i, messages[i].of)
    /\ local # Nobody => Follows(messages, Len(messages) + 1, local)

\* What was sent earlier does not depend on what is sent now, and nothing that
\* removes the store's credentials breaks it.
LEMMA SentFollows ==
    ASSUME messages \in Seq(Message),
           \A k \in 1 .. Len(messages) : messages'[k] = messages[k],
           missed' = missed, store' \in {store, Nobody},
           NEW i \in 1 .. Len(messages) + 1, NEW d, Follows(messages, i, d)
    PROVE  Follows(messages, i, d)'
<1>1. Len(messages) \in Nat /\ i - 1 \in 0 .. Len(messages)
    OBVIOUS
<1>2. \A k \in 1 .. i - 1 : messages'[k] = messages[k]
    BY <1>1
<1>3. ASSUME NEW j \in 1 .. i - 1, messages[j].kind = "sync", messages[j].of = d,
             NoSync(messages, j + 1, i - 1)
      PROVE  Follows(messages, i, d)'
  <2>1. messages'[j].kind = "sync" /\ messages'[j].of = d
      BY <1>2, <1>3
  <2>2. \A k \in j + 1 .. i - 1 : k \in 1 .. i - 1
      BY <1>1
  <2>3. \A k \in j + 1 .. i - 1 : messages'[k].kind # "sync"
      BY <1>2, <1>3, <2>2 DEF NoSync
  <2> QED
      BY <2>1, <2>3 DEF Follows, NoSync
<1>4. CASE NoSync(messages, 1, i - 1) /\ (store \in {d, Nobody} \/ missed)
  <2>1. \A k \in 1 .. i - 1 : messages'[k].kind # "sync"
      BY <1>2, <1>4 DEF NoSync
  <2> QED
      BY <1>4, <2>1 DEF Follows, NoSync
<1> QED
    BY <1>3, <1>4 DEF Follows

\* What is left when the first message is handled.
LEMMA TailEntries ==
    ASSUME NEW m \in Seq(Message), m # <<>>
    PROVE  /\ Len(m) \in Nat \ {0} /\ Head(m) = m[1]
           /\ Len(Tail(m)) = Len(m) - 1
           /\ \A k \in 1 .. Len(m) - 1 : Tail(m)[k] = m[k + 1]
OBVIOUS

LEMMA HandleFollows ==
    ASSUME messages \in Seq(Message), Handle,
           NEW i \in 2 .. Len(messages) + 1, NEW d, Follows(messages, i, d)
    PROVE  Follows(messages, i - 1, d)'
<1>1. /\ Len(messages) \in Nat \ {0} /\ Head(messages) = messages[1]
      /\ \A k \in 1 .. i - 2 : messages'[k] = messages[k + 1]
    BY TailEntries DEF Handle
<1>2. ASSUME NEW j \in 1 .. i - 1, messages[j].kind = "sync", messages[j].of = d,
             NoSync(messages, j + 1, i - 1)
      PROVE  Follows(messages, i - 1, d)'
  <2>1. CASE j = 1
    <3>1. Head(messages).kind = "sync" /\ Head(messages).of = d
        BY <1>1, <1>2, <2>1
    <3>2. store' = d
        BY <3>1 DEF Handle, SyncTokens
    <3>3. \A k \in 1 .. i - 2 : messages'[k].kind # "sync"
        BY <1>1, <1>2, <2>1 DEF NoSync
    <3> QED
        BY <3>2, <3>3 DEF Follows, NoSync
  <2>2. CASE j # 1
    <3>1. j - 1 \in 1 .. i - 2 /\ messages'[j - 1] = messages[j]
        BY <1>1, <2>2
    <3>2. \A k \in j .. i - 2 : messages'[k] = messages[k + 1] /\ k + 1 \in j + 1 .. i - 1
        BY <1>1
    <3>3. \A k \in j .. i - 2 : messages'[k].kind # "sync"
        BY <1>2, <3>2 DEF NoSync
    <3> DEFINE n == j - 1
    <3>4. n \in 1 .. (i - 1) - 1 /\ messages'[n].kind = "sync" /\ messages'[n].of = d
          /\ \A k \in n + 1 .. (i - 1) - 1 : messages'[k].kind # "sync"
        BY <1>2, <3>1, <3>3
    <3> HIDE DEF n
    <3> QED
        BY <3>4 DEF Follows, NoSync
  <2> QED
      BY <2>1, <2>2
<1>3. CASE NoSync(messages, 1, i - 1) /\ (store \in {d, Nobody} \/ missed)
  <2>1. Head(messages).kind # "sync"
      BY <1>1, <1>3 DEF NoSync
  <2>2. UNCHANGED <<store, missed>> \/ store' = Nobody
      BY <2>1 DEF Handle, ClearAuth, Execute
  <2>3. \A k \in 1 .. i - 2 : messages'[k].kind # "sync"
      BY <1>1, <1>3 DEF NoSync
  <2> QED
      BY <1>3, <2>2, <2>3 DEF Follows, NoSync
<1> QED
    BY <1>2, <1>3 DEF Follows

LEMMA MessagesStep ==
    ASSUME TypeOK, MessagesFollow, [Next]_vars
    PROVE  MessagesFollow'
<1>0. messages \in Seq(Message) /\ Len(messages) \in Nat
    BY DEF TypeOK
<1>1. ASSUME messages' = messages, missed' = missed, store' \in {store, Nobody},
             local' \in {local, Nobody}
      PROVE  MessagesFollow'
  <2>1. \A i \in 1 .. Len(messages) + 1 : \A d :
            Follows(messages, i, d) => Follows(messages, i, d)'
      BY <1>0, <1>1, SentFollows
  <2> QED
      BY <1>0, <1>1, <2>1 DEF MessagesFollow
<1>2. ASSUME NEW kind \in {"sync", "logout", "call"}, Send(kind),
             UNCHANGED <<store, missed>>,
             kind = "call" => local' = local /\ local # Nobody,
             kind = "logout" => local' = Nobody
      PROVE  MessagesFollow'
  <2>0. PICK n \in Nat \ {0} : n = Len(messages) + 1
      BY <1>0
  <2>1. /\ Len(messages') = n
        /\ \A k \in 1 .. Len(messages) : messages'[k] = messages[k]
        /\ messages'[n] = [kind |-> kind, of |-> local']
      BY <1>0, <1>2, <2>0 DEF Send
  <2>2. \A i \in 1 .. n : \A d : Follows(messages, i, d) => Follows(messages, i, d)'
      BY <1>0, <1>2, <2>0, <2>1, SentFollows
  <2>3. n \in Nat \ {0} /\ Len(messages) = n - 1
      BY <1>0, <2>0
  <2>4. ASSUME NEW i \in 1 .. n, messages'[i].kind = "call"
        PROVE  Follows(messages, i, messages[i].of)'
    <3>1. CASE i = n
      <4>1. kind = "call" /\ messages'[n].of = local
          BY <1>2, <2>1, <2>4, <3>1
      <4>2. Follows(messages, n, local)
          BY <1>2, <4>1, <2>0 DEF MessagesFollow
      <4> QED
          BY <2>2, <2>3, <3>1, <4>1, <4>2
    <3>2. CASE i # n
      <4>1. i \in 1 .. Len(messages) /\ messages'[i] = messages[i]
          BY <2>1, <2>3, <3>2
      <4>2. Follows(messages, i, messages[i].of)
          BY <2>4, <4>1 DEF MessagesFollow
      <4> QED
          BY <2>2, <4>1, <4>2
    <3> QED
        BY <3>1, <3>2
  <2>5. ASSUME local' # Nobody
        PROVE  Follows(messages, Len(messages) + 1, local)'
    <3>1. CASE kind = "sync"
      <4>1. messages'[n].kind = "sync" /\ messages'[n].of = local'
          BY <2>1, <3>1
      <4>2. n \in 1 .. (n + 1) - 1 /\ \A k \in n + 1 .. (n + 1) - 1 : FALSE
          BY <2>3
      <4> QED
          BY <2>1, <4>1, <4>2 DEF Follows, NoSync
    <3>2. CASE kind = "call"
      <4>1. Follows(messages, n, local)' /\ messages'[n].kind # "sync"
        <5>1. Follows(messages, n, local)
            BY <1>2, <2>5, <3>2, <2>0 DEF MessagesFollow
        <5> QED
            BY <1>2, <2>1, <2>2, <2>3, <3>2, <5>1
      <4>2. \A j \in Nat : \A k \in j .. (n + 1) - 1 : k = n \/ k \in j .. n - 1
          BY <2>3
      <4>3. \A j \in 1 .. n - 1 : j \in 1 .. (n + 1) - 1 /\ j + 1 \in Nat
          BY <2>3
      <4> QED
          BY <2>1, <4>1, <4>2, <4>3 DEF Follows, NoSync
    <3> QED
        BY <1>2, <2>5, <3>1, <3>2
  <2> QED
      BY <2>1, <2>4, <2>5 DEF MessagesFollow
<1>3. CASE Handle
  <2>1. /\ Len(messages) \in Nat \ {0} /\ Len(messages') = Len(messages) - 1
        /\ \A k \in 1 .. Len(messages) - 1 : messages'[k] = messages[k + 1]
        /\ local' = local
      BY <1>0, <1>3, TailEntries DEF Handle
  <2>2. \A i \in 2 .. Len(messages) + 1 : \A d :
            Follows(messages, i, d) => Follows(messages, i - 1, d)'
      BY <1>0, <1>3, HandleFollows
  <2>3. ASSUME NEW i \in 1 .. Len(messages'), messages'[i].kind = "call"
        PROVE  Follows(messages, i, messages[i].of)'
    <3>1. i + 1 \in 2 .. Len(messages) + 1 /\ i + 1 \in 1 .. Len(messages)
          /\ messages'[i] = messages[i + 1] /\ (i + 1) - 1 = i
        BY <2>1
    <3>2. Follows(messages, i + 1, messages[i + 1].of)
        BY <2>3, <3>1 DEF MessagesFollow
    <3>3. \A d : Follows(messages, i + 1, d) => Follows(messages, i, d)'
        BY <2>2, <3>1
    <3> QED
        BY <3>1, <3>2, <3>3
  <2>4. ASSUME local' # Nobody
        PROVE  Follows(messages, Len(messages) + 1, local)'
    <3>1. Follows(messages, Len(messages) + 1, local)
        BY <2>1, <2>4 DEF MessagesFollow
    <3>2. Len(messages) + 1 \in 2 .. Len(messages) + 1
          /\ Len(messages') + 1 = (Len(messages) + 1) - 1
        BY <2>1
    <3> QED
        BY <2>1, <2>2, <3>1, <3>2
  <2> QED
      BY <2>3, <2>4 DEF MessagesFollow
<1>4. CASE Restart
  <2>1. messages' = <<>> /\ local' = local /\ store' = store
        /\ missed' = (missed \/ \E i \in DOMAIN messages : messages[i].kind = "sync")
      BY <1>4 DEF Restart
  <2>2. Len(messages') = 0
      BY <2>1
  <2>3. ASSUME local' # Nobody
        PROVE  store' \in {local', Nobody} \/ missed'
    <3>1. Follows(messages, Len(messages) + 1, local)
        BY <2>1, <2>3 DEF MessagesFollow
    <3>2. ASSUME NEW j \in 1 .. (Len(messages) + 1) - 1, messages[j].kind = "sync"
          PROVE  missed'
      <4>1. j \in DOMAIN messages
          BY <1>0
      <4>2. \E i \in DOMAIN messages : messages[i].kind = "sync"
          BY <3>2, <4>1
      <4> QED
          BY <2>1, <4>2
    <3> QED
        BY <2>1, <3>1, <3>2 DEF Follows
  <2>4. 1 .. Len(messages') = {} /\ \A k \in 1 .. (Len(messages') + 1) - 1 : FALSE
      BY <2>2
  <2> QED
      BY <2>3, <2>4 DEF MessagesFollow, Follows, NoSync
<1>5. ASSUME NEW d \in Devices, AskLogin(d) \/ Revoke(d) PROVE MessagesFollow'
    BY <1>1, <1>5 DEF AskLogin, Revoke
<1>6. ASSUME NEW r \in asked, Accept(r) PROVE MessagesFollow'
    BY <1>2, <1>6 DEF Accept
<1>7. CASE Logout
    BY <1>2, <1>7 DEF Logout
<1>8. CASE Call
    BY <1>2, <1>8 DEF Call
<1>9. ASSUME NEW r \in asked, Reject(r) \/ Unanswered(r) PROVE MessagesFollow'
    BY <1>1, <1>9 DEF Reject, Unanswered
<1>10. CASE Resume \/ Unauthorized \/ RefreshFails
    BY <1>1, <1>10 DEF Resume, Unauthorized, RefreshFails
<1>11. CASE Lookup \/ BeginRefresh \/ Discard \/ ReadPage \/ ReadPrices \/ WriteSnapshot
    BY <1>1, <1>11 DEF Lookup, BeginRefresh, Discard, ReadPage, ReadPrices, WriteSnapshot,
                       session
<1>12. CASE UNCHANGED vars
    BY <1>1, <1>12 DEF vars, session
<1> QED
    BY <1>3, <1>4, <1>5, <1>6, <1>7, <1>8, <1>9, <1>10, <1>11, <1>12 DEF Next

LEMMA SaleStep ==
    ASSUME TypeOK, MessagesFollow, OwnCredentials, [Next]_vars
    PROVE  OwnCredentials'
<1>0. command \in Command \cup {NoCommand}
    BY DEF TypeOK
<1>1. ASSUME UNCHANGED <<command, missed>>, store' \in {store, Nobody} PROVE OwnCredentials'
    BY <1>1 DEF OwnCredentials
<1>2. CASE Handle
  <2>1. CASE ClearAuth
      BY <1>1, <2>1 DEF ClearAuth
  <2>2. CASE Head(messages).kind = "sync" /\ SyncTokens(Head(messages).of)
    <3> DEFINE d == Head(messages).of
    <3>1. store' = d /\ Noted(d)
        BY <2>2 DEF SyncTokens
    <3> HIDE DEF d
    <3>2. CASE command # NoCommand /\ d # command.page
      <4>1. command \in Command /\ command' = [command EXCEPT !.others = @ \cup {d}]
          BY <1>0, <3>1, <3>2 DEF Noted
      <4>2. command'.others = command.others \cup {d}
          BY <4>1 DEF Command
      <4> QED
          BY <3>1, <4>2 DEF OwnCredentials
    <3>3. CASE ~(command # NoCommand /\ d # command.page)
        BY <3>1, <3>3 DEF Noted, OwnCredentials
    <3> QED
        BY <3>2, <3>3
  <2>3. CASE Head(messages).kind = "call" /\ Execute(Head(messages).of)
    <3>1. /\ 1 \in 1 .. Len(messages) /\ Head(messages) = messages[1]
        BY <1>2, TailEntries DEF Handle, TypeOK
    <3>2. Follows(messages, 1, messages[1].of)
        BY <2>3, <3>1 DEF MessagesFollow
    <3>3. store \in {messages[1].of, Nobody} \/ missed
        BY <3>2 DEF Follows
    <3>4. UNCHANGED <<store, missed>>
        BY <2>3 DEF Execute
    <3>5. CASE command' = command
        BY <3>4, <3>5 DEF OwnCredentials
    <3>6. CASE command' = [page |-> messages[1].of, others |-> {}]
        BY <3>3, <3>4, <3>6 DEF OwnCredentials
    <3> QED
        BY <2>3, <3>1, <3>5, <3>6 DEF Execute
  <2> QED
      BY <1>2, <2>1, <2>2, <2>3 DEF Handle
<1>3. CASE Resume \/ Restart
    BY <1>3 DEF Resume, Restart, OwnCredentials
<1> QED
    BY <1>1, <1>2, <1>3
       DEF Next, AskLogin, Revoke, Accept, Reject, Unanswered, Logout, Call,
           Unauthorized, RefreshFails, Lookup, BeginRefresh, Discard, ReadPage,
           ReadPrices, WriteSnapshot, vars, session

(***************************************************************************)
(* While a command is on its way, it finds the credentials of the page     *)
(* that sent it, those of a login on that page in the meantime, or none,   *)
(* however long the queue of messages is and whatever late checks, logins, *)
(* logouts, rejections, failing refreshes and restarts lie between; but    *)
(* for the one login whose message died with the main process              *)
(* (AuthContext.tsx, ipc/auth.ts, ipc/sale.ts, services/api.ts).           *)
(***************************************************************************)
THEOREM CredentialsApart == Spec => []OwnCredentials
<1>1. Init => MessagesFollow /\ OwnCredentials
    BY DEF Init, MessagesFollow, OwnCredentials
<1>2. TypeOK /\ MessagesFollow /\ OwnCredentials /\ [Next]_vars
        => MessagesFollow' /\ OwnCredentials'
    BY MessagesStep, SaleStep
<1> QED
    BY <1>1, <1>2, TypeCorrect, PTL DEF Spec

HIDE SessionAssumption

-----------------------------------------------------------------------------
(***************************************************************************)
(* What the sale page sells.                                               *)
(***************************************************************************)
USE TillAssumption

LEMMA CartType ==
    ASSUME NEW c \in Carts
    PROVE  /\ DOMAIN c \subseteq Products /\ IsFiniteSet(DOMAIN c)
           /\ \A p \in DOMAIN c : c[p] \in Line
           /\ c = [p \in DOMAIN c |-> c[p]]
<1>1. PICK S \in SUBSET Products : c \in [S -> Line]
    BY DEF Carts
<1> QED
    BY <1>1, FS_Subset

LEMMA ACart ==
    ASSUME NEW S \in SUBSET Products, NEW c \in [S -> Line]
    PROVE  c \in Carts
BY DEF Carts

LEMMA TotalType ==
    ASSUME NEW line \in Line, NEW price \in Price
    PROVE  Total(line, price) \in Int
<1>1. line.quantity \in 1 .. MaxQuantity /\ line.discount \in Discounts /\ price \in 1 .. MaxPrice
    BY DEF Line, Price
<1>2. line.quantity \in Int /\ line.discount \in Int /\ price \in Int
  <2>1. Discounts \subseteq Int
      OBVIOUS
  <2>2. \A n : 1 .. n \subseteq Int
      OBVIOUS
  <2> QED
      BY <1>1, <2>1, <2>2
<1>3. line.quantity * price \in Int
    BY <1>2
<1> QED
    BY <1>2, <1>3 DEF Total

LEMMA NetType == \A c \in Carts : Net(c) \in Int
<1> SUFFICES ASSUME NEW c \in Carts PROVE Net(c) \in Int
    OBVIOUS
<1> DEFINE f == [p \in DOMAIN c |-> Total(c[p], c[p].price)]
<1>1. \A p \in DOMAIN c : f[p] \in Int
    BY CartType, TotalType DEF Line
<1>2. IsFiniteSet(DOMAIN c) /\ DOMAIN f = DOMAIN c
    BY CartType
<1>3. Net(c) = SumFunctionOnSet(f, DOMAIN f)
    BY DEF Net, Sum
<1> HIDE DEF f
<1> QED
    BY <1>1, <1>2, <1>3, SumType

LEMMA NetNowType ==
    ASSUME prices \in [Products -> Price], NEW r \in Request
    PROVE  NetNow(r) \in Int
<1> DEFINE c == r.cart
           f == [p \in DOMAIN c |-> Total(c[p], prices[p])]
<1>0. c \in Carts
    BY DEF Request
<1>1. \A p \in DOMAIN c : f[p] \in Int
    BY <1>0, CartType, TotalType
<1>2. IsFiniteSet(DOMAIN c) /\ DOMAIN f = DOMAIN c
    BY <1>0, CartType
<1>3. NetNow(r) = SumFunctionOnSet(f, DOMAIN f)
    BY DEF NetNow, Sum
<1> HIDE DEF f
<1> QED
    BY <1>1, <1>2, <1>3, SumType

LEMMA PaidType ==
    ASSUME payments \in Seq(Nat \ {0})
    PROVE  Paid \in Nat
<1>1. DOMAIN payments = 1 .. Len(payments) /\ Len(payments) \in Nat
      /\ \A i \in DOMAIN payments : payments[i] \in Nat
    OBVIOUS
<1>2. IsFiniteSet(DOMAIN payments)
    BY <1>1, FS_Interval
<1> QED
    BY <1>1, <1>2, SumNatural DEF Paid, Sum

\* Removing an entry leaves a sequence of what is left.
LEMMA RemoveAtType ==
    ASSUME NEW S, NEW s \in Seq(S), NEW i \in DOMAIN s
    PROVE  RemoveAt(s, i) \in Seq(S) /\ Len(RemoveAt(s, i)) <= Len(s)
<1>1. i \in 1 .. Len(s) /\ Len(s) \in Nat
    OBVIOUS
<1>2. SubSeq(s, 1, i - 1) \in Seq(S) /\ SubSeq(s, i + 1, Len(s)) \in Seq(S)
    BY <1>1
<1>3. Len(SubSeq(s, 1, i - 1)) = i - 1 /\ Len(SubSeq(s, i + 1, Len(s))) = Len(s) - i
    BY <1>1
<1>4. \A a, b \in Seq(S) : a \o b \in Seq(S) /\ Len(a \o b) = Len(a) + Len(b)
    OBVIOUS
<1>5. Len(RemoveAt(s, i)) = (i - 1) + (Len(s) - i)
    BY <1>2, <1>3, <1>4 DEF RemoveAt
<1>6. RemoveAt(s, i) \in Seq(S)
    BY <1>2, <1>4 DEF RemoveAt
<1> QED
    BY <1>1, <1>5, <1>6

\* An answer is waited for, and a round takes a request of its own.
Counted ==
    /\ waiting = 0 => answer = "none"
    /\ waiting <= sent /\ round <= sent
    /\ waiting # 0 => round < sent

LEMMA EditType ==
    ASSUME TillTypeOK, Counted, Edit
    PROVE  TillTypeOK' /\ Counted'
<1> USE DEF TillTypeOK
<1>1. ASSUME cart' \in Carts,
             UNCHANGED <<payments, round, waiting, network, backend, cashSession>>
      PROVE  TillTypeOK' /\ Counted'
    BY <1>1 DEF Counted, network, backend, cashSession
<1>2. \A p \in DOMAIN cart : cart[p] \in Line /\ p \in Products
    BY CartType
<1>3. DOMAIN cart \subseteq Products /\ cart = [p \in DOMAIN cart |-> cart[p]]
    BY CartType
<1>4. ASSUME NEW p \in Products, NEW price \in Found, Select(p, price)
      PROVE  TillTypeOK' /\ Counted'
  <2>1. CASE p \in DOMAIN cart
    <3>1. cart[p].quantity < MaxQuantity /\ cart' = [cart EXCEPT ![p].quantity = @ + 1]
        BY <1>4, <2>1 DEF Select
    <3>2. [cart[p] EXCEPT !.quantity = @ + 1] \in Line
      <4>1. cart[p] \in Line
          BY <1>2, <2>1
      <4>2. cart[p].quantity \in 1 .. MaxQuantity
          BY <4>1 DEF Line
      <4>3. MaxQuantity \in Nat
          OBVIOUS
      <4>4. \A n \in 1 .. MaxQuantity : n < MaxQuantity => n + 1 \in 1 .. MaxQuantity
          BY <4>3
      <4>5. cart[p].quantity + 1 \in 1 .. MaxQuantity
          BY <3>1, <4>2, <4>4
      <4> QED
          BY <4>1, <4>5 DEF Line
    <3>3. cart' \in [DOMAIN cart -> Line]
        BY <1>2, <1>3, <3>1, <3>2
    <3> QED
        BY <1>1, <1>3, <1>4, <3>3, ACart DEF Select
  <2>2. CASE p \notin DOMAIN cart
    <3>1. [quantity |-> 1, price |-> price, discount |-> 0] \in Line
        BY DEF Line, Found
    <3>2. cart' \in [DOMAIN cart \cup {p} -> Line]
        BY <1>2, <1>4, <2>2, <3>1 DEF Select, WithLine
    <3>3. DOMAIN cart \cup {p} \in SUBSET Products
        BY <1>3
    <3> QED
        BY <1>1, <1>4, <3>2, <3>3, ACart DEF Select
  <2> QED
      BY <2>1, <2>2
<1>5. ASSUME NEW p \in Products, NEW n \in 0 .. MaxQuantity, Quantity(p, n)
      PROVE  TillTypeOK' /\ Counted'
  <2>1. CASE n <= 0
    <3>1. cart' \in [DOMAIN cart \ {p} -> Line]
        BY <1>2, <1>5, <2>1 DEF Quantity, Without
    <3>2. DOMAIN cart \ {p} \in SUBSET Products
        BY <1>3
    <3> QED
        BY <1>1, <1>5, <3>1, <3>2, ACart DEF Quantity
  <2>2. CASE ~(n <= 0)
    <3>1. p \in DOMAIN cart /\ cart' = [cart EXCEPT ![p].quantity = n] /\ n \in 1 .. MaxQuantity
        BY <1>5, <2>2 DEF Quantity
    <3>2. [cart[p] EXCEPT !.quantity = n] \in Line
      <4>1. cart[p] \in Line
          BY <1>2, <3>1
      <4> QED
          BY <3>1, <4>1 DEF Line
    <3>3. cart' \in [DOMAIN cart -> Line]
        BY <1>2, <1>3, <3>1, <3>2
    <3> QED
        BY <1>1, <1>3, <1>5, <3>3, ACart DEF Quantity
  <2> QED
      BY <2>1, <2>2
<1>6. ASSUME NEW p \in Products, NEW d \in Discounts, Discount(p, d)
      PROVE  TillTypeOK' /\ Counted'
  <2>1. p \in DOMAIN cart /\ cart' = [cart EXCEPT ![p].discount = d]
      BY <1>6 DEF Discount
  <2>2. [cart[p] EXCEPT !.discount = d] \in Line
    <3>1. cart[p] \in Line
        BY <1>2, <2>1
    <3> QED
        BY <3>1 DEF Line
  <2>3. cart' \in [DOMAIN cart -> Line]
      BY <1>2, <1>3, <2>1, <2>2
  <2> QED
      BY <1>1, <1>3, <1>6, <2>3, ACart DEF Discount
<1>7. CASE Clear
  <2>1. cart' = << >> /\ {} \in SUBSET Products
      BY <1>7 DEF Clear
  <2>2. << >> \in [{} -> Line]
      OBVIOUS
  <2> QED
      BY <1>1, <1>7, <2>1, <2>2, ACart DEF Clear
<1>8. ASSUME NEW a \in 1 .. Net(cart), AddPayment(a)
      PROVE  TillTypeOK' /\ Counted'
  <2>1. a \in Nat \ {0}
      BY <1>8, NetType
  <2>2. payments' \in Seq(Nat \ {0}) /\ Len(payments') <= MaxPayments
      BY <1>8, <2>1 DEF AddPayment
  <2> QED
      BY <1>8, <2>2 DEF AddPayment, Counted, network, backend, cashSession
<1>9. ASSUME NEW i \in DOMAIN payments, RemovePayment(i)
      PROVE  TillTypeOK' /\ Counted'
  <2> DEFINE Amount == Nat \ {0}
  <2>1. payments \in Seq(Amount) /\ Len(payments) \in Nat
      OBVIOUS
  <2> HIDE DEF Amount
  <2>2. payments' \in Seq(Amount) /\ Len(payments') <= Len(payments) /\ Len(payments') \in Nat
      BY <1>9, <2>1, RemoveAtType DEF RemovePayment
  <2>3. payments' \in Seq(Nat \ {0}) /\ Len(payments') <= MaxPayments
      BY <2>2 DEF Amount
  <2> QED
      BY <1>9, <2>3 DEF RemovePayment, Counted, network, backend, cashSession
<1> QED
    BY <1>4, <1>5, <1>6, <1>7, <1>8, <1>9 DEF Edit

LEMMA SellType ==
    ASSUME TillTypeOK, Counted, Sell
    PROVE  TillTypeOK' /\ Counted'
<1> USE DEF TillTypeOK
<1>0. MaxRequests \in Nat /\ {round, sent, waiting} \subseteq 0 .. MaxRequests
    OBVIOUS
<1>1. CASE Submit
  <2>1. Paid \in Nat /\ Net(cart) \in Int
      BY PaidType, NetType
  <2>2. sent' \in 1 .. MaxRequests /\ sent' = sent + 1 /\ waiting' = sent'
      BY <1>0, <1>1 DEF Submit
  <2>3. [key |-> sent', round |-> round, cart |-> cart, paid |-> Paid, shown |-> Net(cart)]
          \in Request
      BY <1>0, <2>1, <2>2 DEF Request
  <2>4. requests' \subseteq Request
      BY <1>1, <2>3 DEF Submit
  <2>5. {round', sent', waiting'} \subseteq 0 .. MaxRequests /\ Counted'
      BY <1>0, <1>1, <2>2 DEF Submit, Counted
  <2> QED
      BY <1>1, <2>4, <2>5 DEF Submit, backend, cashSession
<1>2. ASSUME NEW r \in requests, HandleSale(r)
      PROVE  TillTypeOK' /\ Counted'
  <2>1. r \in Request
      OBVIOUS
  <2>2. NetNow(r) \in Int
      BY <2>1, NetNowType
  <2>3. [key |-> r.key, round |-> r.round, net |-> NetNow(r), paid |-> r.paid,
         shown |-> r.shown] \in Sale
      BY <2>1, <2>2 DEF Request, Sale
  <2>4. sales' \subseteq Sale /\ prices' = prices
      BY <1>2, <2>3 DEF HandleSale, CreateCounterSale, RefuseSale, backend
  <2>5. r.key # 0
      BY <2>1 DEF Request
  <2>6. answer' \in {"none", "made", "refused"} /\ Counted'
      BY <1>2, <2>5 DEF HandleSale, Counted, salePage
  <2> QED
      BY <1>2, <2>4, <2>6 DEF HandleSale, salePage, cashSession
<1>3. CASE Confirm
  <2>1. << >> \in Carts
    <3>1. {} \in SUBSET Products /\ << >> \in [{} -> Line]
        OBVIOUS
    <3> QED
        BY <3>1, ACart
  <2>2. << >> \in Seq(Nat \ {0}) /\ Len(<< >>) = 0 /\ 0 <= MaxPayments
      OBVIOUS
  <2>3. round' \in 0 .. MaxRequests /\ Counted'
      BY <1>0, <1>3 DEF Confirm, Counted
  <2>4. cart' \in Carts /\ payments' \in Seq(Nat \ {0}) /\ Len(payments') <= MaxPayments
      BY <1>3, <2>1, <2>2 DEF Confirm
  <2>5. {round', sent', waiting'} \subseteq 0 .. MaxRequests
      BY <1>0, <1>3, <2>3 DEF Confirm
  <2>6. /\ answer' \in {"none", "made", "refused"}
        /\ UNCHANGED <<requests, unanswered, prices, sales, opened, isOpen, shown, reads>>
      BY <1>3 DEF Confirm, backend, cashSession
  <2> QED
      BY <2>3, <2>4, <2>5, <2>6
<1>4. CASE Refused
    BY <1>0, <1>4 DEF Refused, Counted, backend, cashSession
<1>5. CASE GiveUp
  <2>1. round \in 0 .. MaxRequests /\ sent \in 0 .. MaxRequests /\ 0 \in 0 .. MaxRequests
      BY <1>0
  <2>2. unanswered \cup {round} \subseteq 0 .. MaxRequests
      BY <2>1
  <2>3. {round', sent', waiting'} \subseteq 0 .. MaxRequests
      BY <1>5, <2>1 DEF GiveUp
  <2> QED
      BY <1>5, <2>2, <2>3 DEF GiveUp, Counted, backend, cashSession
<1>6. ASSUME NEW p \in Products, NEW x \in Price, Reprice(p, x)
      PROVE  TillTypeOK' /\ Counted'
    BY <1>6 DEF Reprice, Counted, salePage, network, cashSession
<1> QED
    BY <1>1, <1>2, <1>3, <1>4, <1>5, <1>6 DEF Sell

LEMMA SessionType ==
    ASSUME TillTypeOK, Counted, Session
    PROVE  TillTypeOK' /\ Counted'
<1> USE DEF TillTypeOK
<1>0. MaxSessions \in Nat /\ opened \in 0 .. MaxSessions
    OBVIOUS
<1>1. ASSUME opened' \in 0 .. MaxSessions, isOpen' \in BOOLEAN, shown' \in 0 .. MaxSessions,
             reads' \in Seq(0 .. MaxSessions), Len(reads') <= MaxReads,
             UNCHANGED <<salePage, network, backend>>
      PROVE  TillTypeOK' /\ Counted'
    BY <1>1 DEF Counted, salePage, network, backend
<1>2. ASSUME NEW s \in 0 .. MaxSessions, Answer(s)
      PROVE  reads' \in Seq(0 .. MaxSessions) /\ Len(reads') <= MaxReads
    BY <1>2 DEF Answer
<1>3. ASSUME NEW i \in DOMAIN reads, reads' = RemoveAt(reads, i)
      PROVE  reads' \in Seq(0 .. MaxSessions) /\ Len(reads') <= MaxReads
  <2> DEFINE Shown == 0 .. MaxSessions
  <2>1. reads \in Seq(Shown) /\ Len(reads) \in Nat
      OBVIOUS
  <2> HIDE DEF Shown
  <2>2. reads' \in Seq(Shown) /\ Len(reads') <= Len(reads) /\ Len(reads') \in Nat
      BY <1>3, <2>1, RemoveAtType
  <2> QED
      BY <2>2 DEF Shown
<1>4. CASE OpenSession
  <2>1. opened' \in 0 .. MaxSessions
      BY <1>0, <1>4 DEF OpenSession
  <2>2. reads' \in Seq(0 .. MaxSessions) /\ Len(reads') <= MaxReads
      BY <1>2, <1>4, <2>1 DEF OpenSession
  <2> QED
      BY <1>1, <1>4, <2>1, <2>2 DEF OpenSession
<1>5. CASE CloseSession
  <2>1. reads' \in Seq(0 .. MaxSessions) /\ Len(reads') <= MaxReads
      BY <1>0, <1>2, <1>5 DEF CloseSession
  <2> QED
      BY <1>1, <1>5, <2>1 DEF CloseSession
<1>6. CASE ClosedElsewhere
    BY <1>1, <1>6 DEF ClosedElsewhere
<1>7. CASE GetCurrentSession
  <2>1. Current \in 0 .. MaxSessions
      BY <1>0 DEF Current
  <2>2. reads' \in Seq(0 .. MaxSessions) /\ Len(reads') <= MaxReads
      BY <1>2, <1>7, <2>1 DEF GetCurrentSession
  <2> QED
      BY <1>1, <1>7, <2>2 DEF GetCurrentSession
<1>8. ASSUME NEW i \in DOMAIN reads, ShowSession(i) \/ LoseAnswer(i)
      PROVE  TillTypeOK' /\ Counted'
  <2>1. reads' \in Seq(0 .. MaxSessions) /\ Len(reads') <= MaxReads
      BY <1>3, <1>8 DEF ShowSession, LoseAnswer
  <2>2. reads[i] \in 0 .. MaxSessions
      OBVIOUS
  <2> QED
      BY <1>1, <1>8, <2>1, <2>2 DEF ShowSession, LoseAnswer
<1> QED
    BY <1>4, <1>5, <1>6, <1>7, <1>8 DEF Session

(***************************************************************************)
(* The page, what it has sent and what the backend holds stay of their     *)
(* types: no sale is numbered past the requests that were made (Sale.tsx,  *)
(* CashSessionContext.tsx, sales/services.py).                             *)
(***************************************************************************)
THEOREM TillTypeCorrect == TillSpec => [](TillTypeOK /\ Counted)
<1>1. TillInit => TillTypeOK /\ Counted
  <2> SUFFICES ASSUME TillInit PROVE TillTypeOK /\ Counted
      OBVIOUS
  <2>1. cart \in Carts
    <3>1. {} \in SUBSET Products /\ << >> \in [{} -> Line]
        OBVIOUS
    <3> QED
        BY <3>1, ACart DEF TillInit
  <2>2. {MaxRequests, MaxSessions, MaxPayments, MaxReads} \subseteq Nat
      OBVIOUS
  <2>3. payments \in Seq(Nat \ {0}) /\ Len(payments) <= MaxPayments
        /\ reads \in Seq(0 .. MaxSessions) /\ Len(reads) <= MaxReads
      BY <2>2 DEF TillInit
  <2>4. {round, sent, waiting} \subseteq 0 .. MaxRequests /\ opened \in 0 .. MaxSessions
        /\ shown \in 0 .. MaxSessions
      BY <2>2 DEF TillInit
  <2>5. /\ requests \subseteq Request /\ sales \subseteq Sale /\ unanswered = {}
        /\ answer \in {"none", "made", "refused"} /\ prices \in [Products -> Price] /\ Counted
      BY DEF TillInit, Counted
  <2>6. isOpen \in BOOLEAN
      BY DEF TillInit
  <2> QED
      BY <2>1, <2>3, <2>4, <2>5, <2>6 DEF TillTypeOK
<1>2. TillTypeOK /\ Counted /\ [TillNext]_tillVars => TillTypeOK' /\ Counted'
  <2> SUFFICES ASSUME TillTypeOK, Counted, [TillNext]_tillVars
               PROVE  TillTypeOK' /\ Counted'
      OBVIOUS
  <2>1. CASE UNCHANGED tillVars
      BY <2>1 DEF TillTypeOK, Counted, tillVars, salePage, network, backend, cashSession
  <2> QED
      BY <2>1, EditType, SellType, SessionType DEF TillNext
<1> QED
    BY <1>1, <1>2, PTL DEF TillSpec

\* All else that a till does leaves requests, answers and sales as they are.
LEMMA SaleSteps ==
    ASSUME [TillNext]_tillVars
    PROVE  \/ Submit \/ (\E r \in requests : HandleSale(r)) \/ Confirm \/ Refused \/ GiveUp
           \/ UNCHANGED <<round, waiting, sent, requests, answer, unanswered, sales>>
<1>1. CASE Edit
    BY <1>1 DEF Edit, Select, Quantity, Discount, Clear, AddPayment, RemovePayment,
                network, backend
<1>2. CASE Sell
    BY <1>2 DEF Sell, Reprice, salePage, network
<1>3. CASE Session
    BY <1>3 DEF Session, OpenSession, CloseSession, ClosedElsewhere, GetCurrentSession,
                ShowSession, LoseAnswer, salePage, network, backend
<1>4. CASE UNCHANGED tillVars
    BY <1>4 DEF tillVars, salePage, network, backend
<1> QED
    BY <1>1, <1>2, <1>3, <1>4 DEF TillNext

\* What a request becomes at the backend.
LEMMA SoldOf ==
    ASSUME NEW r \in requests, HandleSale(r), NEW s \in sales', s \notin sales
    PROVE  /\ s.key = r.key /\ s.round = r.round
           /\ r.key = waiting => answer' = "made"
<1>1. CreateCounterSale(r) /\ answer' = (IF r.key = waiting THEN "made" ELSE answer)
    BY DEF HandleSale, RefuseSale, backend
<1>2. s = [key |-> r.key, round |-> r.round, net |-> NetNow(r), paid |-> r.paid,
           shown |-> r.shown]
    BY <1>1 DEF CreateCounterSale
<1> QED
    BY <1>1, <1>2

LEMMA SalesStay ==
    ASSUME NEW r \in requests, HandleSale(r)
    PROVE  /\ sales \subseteq sales' /\ requests' = requests \ {r}
           /\ UNCHANGED <<round, waiting, sent, unanswered>>
BY DEF HandleSale, CreateCounterSale, RefuseSale, backend, salePage

-----------------------------------------------------------------------------
(* A round is sold once because the page waits with one key at a time: what *)
(* it sent in the round that is on the page is the request it waits for,    *)
(* unless the round is one in which it gave up an answer.                   *)

Known == \A x \in requests \cup sales : x.key \in 1 .. sent

Keyed ==
    /\ \A r, q \in requests : r.key = q.key => r = q
    /\ \A r \in requests, s \in sales : r.key # s.key

RequestRounds ==
    /\ \A r \in requests : r.round \in unanswered \/ (r.round = round /\ r.key = waiting)
    /\ answer # "none" => \A r \in requests : r.key # waiting

SaleRounds ==
    \A s \in sales : \/ s.round \in unanswered
                     \/ s.round < round
                     \/ s.round = round /\ s.key = waiting /\ answer = "made"

RoundsInv == Known /\ Keyed /\ RequestRounds /\ SaleRounds /\ OneSaleEach

LEMMA SubmitRound ==
    ASSUME TillTypeOK, Counted, RoundsInv, Submit
    PROVE  RoundsInv'
<1> DEFINE new == [key |-> sent', round |-> round, cart |-> cart, paid |-> Paid,
                   shown |-> Net(cart)]
<1>1. /\ waiting = 0 /\ answer = "none" /\ sent' = sent + 1 /\ waiting' = sent'
      /\ requests' = requests \cup {new} /\ sent \in Nat
      /\ UNCHANGED <<round, answer, unanswered, sales>>
    BY DEF Submit, Counted, TillTypeOK, backend
<1>2. new.key = sent' /\ new.round = round
    OBVIOUS
<1> HIDE DEF new
<1>3. \A x \in requests \cup sales : x.key \in 1 .. sent /\ x.key # sent' /\ x.key # 0
    BY <1>1 DEF RoundsInv, Known
<1>4. Known'
    BY <1>1, <1>2, <1>3 DEF Known
<1>5. Keyed'
    BY <1>1, <1>2, <1>3 DEF RoundsInv, Keyed
<1>6. RequestRounds'
    BY <1>1, <1>2, <1>3 DEF RoundsInv, RequestRounds
<1>7. SaleRounds' /\ OneSaleEach'
    BY <1>1 DEF RoundsInv, SaleRounds, OneSaleEach
<1> QED
    BY <1>4, <1>5, <1>6, <1>7 DEF RoundsInv

LEMMA HandleRound ==
    ASSUME TillTypeOK, Counted, RoundsInv, NEW r \in requests, HandleSale(r)
    PROVE  RoundsInv'
<1>1. /\ sales \subseteq sales' /\ requests' = requests \ {r}
      /\ UNCHANGED <<round, waiting, sent, unanswered>>
    BY SalesStay
<1>2. \A s \in sales' : s \notin sales =>
          s.key = r.key /\ s.round = r.round /\ (r.key = waiting => answer' = "made")
    BY SoldOf
<1>3. r.key # waiting => answer' = answer
    BY DEF HandleSale
<1>4. \A q \in requests' : q \in requests /\ q.key # r.key
    BY <1>1 DEF RoundsInv, Keyed
<1>5. r.round \in unanswered \/ (r.round = round /\ r.key = waiting)
    BY DEF RoundsInv, RequestRounds
<1>6. Known'
    BY <1>1, <1>2 DEF RoundsInv, Known
<1>7. Keyed'
    BY <1>1, <1>2, <1>4 DEF RoundsInv, Keyed
<1>8. RequestRounds'
    BY <1>1, <1>3, <1>4 DEF RoundsInv, RequestRounds
<1>9. \A s \in sales : s.key # r.key
    BY DEF RoundsInv, Keyed
<1>10. SaleRounds'
    BY <1>1, <1>2, <1>3, <1>5, <1>9 DEF RoundsInv, SaleRounds
<1>11. ASSUME NEW s \in sales', s \notin sales, NEW t \in sales, s.round = t.round
       PROVE  s.round \in unanswered
  <2> SUFFICES ASSUME s.round \notin unanswered PROVE FALSE
      OBVIOUS
  <2>1. t.round = round /\ r.key = waiting
      BY <1>2, <1>5, <1>11
  <2>2. ~(t.round < round)
      BY <2>1 DEF TillTypeOK
  <2> QED
      BY <1>9, <1>11, <2>1, <2>2 DEF RoundsInv, SaleRounds
<1>12. ASSUME NEW s \in sales', s \notin sales, NEW t \in sales', t \notin sales
       PROVE  s = t
    BY <1>12 DEF HandleSale, CreateCounterSale, RefuseSale, backend
<1>13. OneSaleEach'
    BY <1>1, <1>11, <1>12 DEF RoundsInv, OneSaleEach
<1> QED
    BY <1>6, <1>7, <1>8, <1>10, <1>13 DEF RoundsInv

LEMMA RoundsStep ==
    ASSUME TillTypeOK, Counted, RoundsInv, [TillNext]_tillVars
    PROVE  RoundsInv'
<1>1. CASE Confirm
  <2>1. /\ answer = "made" /\ round' = round + 1 /\ waiting' = 0 /\ answer' = "none"
        /\ UNCHANGED <<sent, requests, unanswered, sales>>
      BY <1>1 DEF Confirm, backend
  <2>2. round \in Nat /\ \A s \in sales : s.round \in Nat
    <3>1. \A s \in sales : s.round \in 0 .. MaxRequests
        BY DEF TillTypeOK, Sale
    <3> QED
        BY <3>1 DEF TillTypeOK
  <2>3. RequestRounds'
      BY <2>1 DEF RoundsInv, RequestRounds
  <2>4. SaleRounds'
      BY <2>1, <2>2 DEF RoundsInv, SaleRounds
  <2> QED
      BY <2>1, <2>3, <2>4 DEF RoundsInv, Known, Keyed, OneSaleEach
<1>2. CASE Refused
  <2>1. /\ answer = "refused" /\ waiting' = 0 /\ answer' = "none"
        /\ UNCHANGED <<round, sent, requests, unanswered, sales>>
      BY <1>2 DEF Refused, backend
  <2> QED
      BY <2>1 DEF RoundsInv, Known, Keyed, RequestRounds, SaleRounds, OneSaleEach
<1>3. CASE GiveUp
  <2>1. /\ answer' = "none" /\ unanswered' = unanswered \cup {round}
        /\ UNCHANGED <<round, sent, requests, sales>>
      BY <1>3 DEF GiveUp, backend
  <2> QED
      BY <2>1 DEF RoundsInv, Known, Keyed, RequestRounds, SaleRounds, OneSaleEach
<1>4. CASE UNCHANGED <<round, waiting, sent, requests, answer, unanswered, sales>>
    BY <1>4 DEF RoundsInv, Known, Keyed, RequestRounds, SaleRounds, OneSaleEach
<1> QED
    BY <1>1, <1>2, <1>3, <1>4, SaleSteps, SubmitRound, HandleRound

(***************************************************************************)
(* What is on the page is sold once, however often the button is pressed,  *)
(* whatever is edited while an answer is on its way and in whatever order  *)
(* requests are handled, unless the page gave up an answer (Sale.tsx       *)
(* isProcessing, clearSale; sales/services.py create_counter_sale).        *)
(***************************************************************************)
THEOREM OneSalePerRound == TillSpec => []OneSaleEach
<1>1. TillInit => RoundsInv
    BY DEF TillInit, RoundsInv, Known, Keyed, RequestRounds, SaleRounds, OneSaleEach
<1>2. TillTypeOK /\ Counted /\ RoundsInv /\ [TillNext]_tillVars => RoundsInv'
    BY RoundsStep
<1>3. RoundsInv => OneSaleEach
    BY DEF RoundsInv
<1> QED
    BY <1>1, <1>2, <1>3, TillTypeCorrect, PTL DEF TillSpec

\* The rounds counted so far are sold, and so is the one whose answer is there.
Told ==
    /\ \A n \in 0 .. round - 1 : \E s \in sales : s.round = n
    /\ answer = "made" => \E s \in sales : s.round = round
    /\ \A r \in requests : r.key = waiting => r.round = round

(***************************************************************************)
(* For any number of requests and in whatever order they are handled, what *)
(* the page counts as confirmed was sold, and a sale is confirmed, about   *)
(* to be, or one whose answer the page gave up: no refusal is shown for a  *)
(* sale that was made (Sale.tsx handleSubmit, services.py                  *)
(* create_counter_sale).                                                   *)
(***************************************************************************)
THEOREM ToldAsSold == TillSpec => []AsTold
<1>1. TillInit => RoundsInv /\ Told
    BY DEF TillInit, RoundsInv, Known, Keyed, RequestRounds, SaleRounds, OneSaleEach, Told
<1>2. TillTypeOK /\ Counted /\ RoundsInv /\ Told /\ [TillNext]_tillVars => Told'
  <2> SUFFICES ASSUME TillTypeOK, Counted, RoundsInv, Told, [TillNext]_tillVars
               PROVE  Told'
      OBVIOUS
  <2>0. round \in Nat /\ \A x \in requests \cup sales : x.key # 0 /\ x.key <= sent
      BY DEF TillTypeOK, RoundsInv, Known, Request, Sale
  <2>1. CASE Submit
    <3> DEFINE new == [key |-> sent', round |-> round, cart |-> cart, paid |-> Paid,
                       shown |-> Net(cart)]
    <3>1. /\ waiting = 0 /\ sent' = sent + 1 /\ waiting' = sent'
          /\ requests' = requests \cup {new} /\ sent \in Nat
          /\ UNCHANGED <<round, answer, sales>>
        BY <2>1 DEF Submit, TillTypeOK, backend
    <3>2. new.round = round
        OBVIOUS
    <3> HIDE DEF new
    <3>3. \A r \in requests : r.key # waiting'
        BY <2>0, <3>1 DEF RoundsInv, Known
    <3> QED
        BY <3>1, <3>2, <3>3 DEF Told
  <2>2. ASSUME NEW r \in requests, HandleSale(r)
        PROVE  Told'
    <3>1. /\ sales \subseteq sales' /\ requests' = requests \ {r}
          /\ UNCHANGED <<round, waiting>>
        BY <2>2, SalesStay
    <3>2. ASSUME answer' = "made" PROVE \E s \in sales' : s.round = round
      <4>1. CASE answer = "made"
          BY <3>1, <4>1 DEF Told
      <4>2. CASE answer # "made"
        <5>1. r.key = waiting /\ CreateCounterSale(r)
            BY <2>2, <3>2, <4>2 DEF HandleSale
        <5> DEFINE new == [key |-> r.key, round |-> r.round, net |-> NetNow(r),
                           paid |-> r.paid, shown |-> r.shown]
        <5>3. new \in sales' /\ new.round = r.round
            BY <5>1 DEF CreateCounterSale
        <5> HIDE DEF new
        <5>2. PICK s \in sales' : s.round = r.round
            BY <5>3
        <5> QED
            BY <5>1, <5>2 DEF Told
      <4> QED
          BY <4>1, <4>2
    <3> QED
        BY <3>1, <3>2 DEF Told
  <2>3. CASE Confirm
    <3>1. /\ answer = "made" /\ round' = round + 1 /\ waiting' = 0 /\ answer' = "none"
          /\ UNCHANGED <<requests, sales>>
        BY <2>3 DEF Confirm, backend
    <3>2. \A n \in 0 .. round' - 1 : n \in 0 .. round - 1 \/ n = round
        BY <2>0, <3>1
    <3>3. \A n \in 0 .. round' - 1 : \E s \in sales' : s.round = n
        BY <3>1, <3>2 DEF Told
    <3> QED
        BY <2>0, <3>1, <3>3 DEF Told
  <2>4. CASE Refused \/ GiveUp
    <3>1. /\ waiting' = 0 /\ answer' = "none" /\ UNCHANGED <<requests, sales, round>>
        BY <2>4 DEF Refused, GiveUp, backend
    <3> QED
        BY <2>0, <3>1 DEF Told
  <2>5. CASE UNCHANGED <<round, waiting, sent, requests, answer, unanswered, sales>>
      BY <2>5 DEF Told
  <2> QED
      BY <2>1, <2>2, <2>3, <2>4, <2>5, SaleSteps
<1>3. RoundsInv /\ Told => AsTold
    BY DEF RoundsInv, SaleRounds, Told, AsTold
<1>4. TillTypeOK /\ Counted /\ RoundsInv /\ [TillNext]_tillVars => RoundsInv'
    BY RoundsStep
<1> QED
    BY <1>1, <1>2, <1>3, <1>4, TillTypeCorrect, PTL DEF TillSpec

HIDE TillAssumption

-----------------------------------------------------------------------------
(***************************************************************************)
(* What a list page asks for.                                              *)
(***************************************************************************)
USE ListAssumption

LEMMA TimesMonotone ==
    ASSUME NEW a \in Int, NEW b \in Int, NEW k \in Nat, a <= b
    PROVE  k * a <= k * b
OBVIOUS

LEMMA Quotient ==
    ASSUME NEW n \in Nat, NEW k \in Nat \ {0}
    PROVE  n \div k \in Nat /\ k * (n \div k) <= n /\ n < k * ((n \div k) + 1)
<1>1. n \div k \in Nat
    OBVIOUS
<1>2. k * (n \div k) <= n
    OBVIOUS
<1>3. n < k * (n \div k) + k
    OBVIOUS
<1>4. \A q \in Nat : k * (q + 1) = k * q + k
    OBVIOUS
<1> QED
    BY <1>1, <1>2, <1>3, <1>4

\* The page after one that totalPages counts as not the last has a row.
LEMMA PageHasRow ==
    ASSUME NEW n \in Nat, NEW p \in Nat, p < TotalPages(n)
    PROVE  p * PageSize < n
<1>1. PageSize \in Nat \ {0}
    OBVIOUS
<1>2. PICK k \in Nat \ {0} : k = PageSize
    BY <1>1
<1>3. n + k - 1 \in Nat /\ TotalPages(n) = (n + k - 1) \div k
    BY <1>2 DEF TotalPages
<1>4. PICK q \in Nat : q = (n + k - 1) \div k /\ k * q <= n + k - 1
    BY <1>3, Quotient
<1>5. k * (p + 1) <= k * q
  <2>1. p + 1 <= q
      BY <1>3, <1>4
  <2> QED
      BY <2>1, TimesMonotone
<1>6. k * (p + 1) = p * k + k
    OBVIOUS
<1>7. p * k \in Nat /\ k * q \in Nat
    OBVIOUS
<1> QED
    BY <1>2, <1>4, <1>5, <1>6, <1>7

LEMMA LastPageBound ==
    /\ LastPage \in Nat \ {0}
    /\ \A n \in Sizes, p \in Nat : p * PageSize < n => p + 1 <= LastPage
<1>1. PICK k \in Nat \ {0} : k = PageSize
    OBVIOUS
<1>2. PICK m \in Sizes :
          m = (CHOOSE n \in Sizes : \A o \in Sizes : o <= n) /\ \A o \in Sizes : o <= m
    OBVIOUS
<1>3. m \in Nat /\ Sizes \subseteq Nat
    OBVIOUS
<1>4. PICK q \in Nat : q = m \div k /\ m < k * (q + 1)
    BY <1>3, Quotient
<1>5. LastPage = 1 + q
    BY <1>1, <1>2, <1>4 DEF LastPage
<1>6. ASSUME NEW n \in Sizes, NEW p \in Nat, p * k < n
      PROVE  p + 1 <= 1 + q
  <2> SUFFICES ASSUME q + 1 <= p PROVE FALSE
      OBVIOUS
  <2>1. k * (q + 1) <= k * p
      BY TimesMonotone
  <2>2. k * p = p * k /\ p * k \in Nat /\ k * (q + 1) \in Nat
      OBVIOUS
  <2>3. n <= m /\ n \in Nat
      BY <1>2, <1>3
  <2> QED
      BY <1>3, <1>4, <1>6, <2>1, <2>2, <2>3
<1> QED
    BY <1>1, <1>5, <1>6

Asked ==
    /\ page \in 1 .. LastPage /\ choice \in Settings
    /\ rows \in Rows /\ held \in [Keys -> Sizes \cup {Unknown}]
    /\ faults \in Nat /\ fewer \in BOOLEAN

\* Nothing that was answered has gone: the page that is asked for has a row.
Sound ==
    /\ failed = {} /\ There
    /\ \A k \in Keys : held[k] # Unknown => held[k] <= rows[k[1]]

Caused == faults > 0 \/ fewer \/ Sound

LEMMA KeyType ==
    ASSUME Asked
    PROVE  /\ Key \in Keys /\ Key[1] = choice
           /\ rows[choice] \in Sizes /\ rows[choice] \in Nat /\ rows[choice] # Unknown
           /\ held[Key] # Unknown => held[Key] \in Sizes /\ held[Key] \in Nat
<1>1. Key \in Keys /\ Key[1] = choice
    BY DEF Asked, Key, Keys
<1>2. rows[choice] \in Sizes
    BY DEF Asked, Rows
<1>3. held[Key] # Unknown => held[Key] \in Sizes
    BY <1>1 DEF Asked
<1> QED
    BY <1>1, <1>2, <1>3

LEMMA ArriveStep ==
    ASSUME Asked, Caused, Arrive, UNCHANGED <<list, server, choice, page, faults, seeks>>
    PROVE  Asked' /\ Caused'
<1>0. UNCHANGED <<list, rows, choice, page, faults>> /\ (fewer <=> fewer')
      /\ fewer' \in BOOLEAN
    BY DEF server, Asked
<1>1. held' \in [Keys -> Sizes \cup {Unknown}]
    BY KeyType DEF Arrive, Asked
<1>2. Asked'
    BY <1>0, <1>1 DEF Asked, Rows, Keys
<1>3. ASSUME Sound PROVE Sound'
  <2>1. There /\ failed = {}
      BY <1>3 DEF Sound
  <2>2. held' = [held EXCEPT ![Key] = rows[choice]] /\ failed' = {}
      BY <2>1 DEF Arrive
  <2>3. There'
      BY <1>0, <2>1 DEF There
  <2>4. ASSUME NEW k \in Keys, held'[k] # Unknown
        PROVE  held'[k] <= rows[k[1]]
    <3>1. CASE k = Key
        BY <2>2, <3>1, KeyType DEF Asked
    <3>2. CASE k # Key
        BY <1>3, <2>2, <2>4, <3>2 DEF Asked, Sound
    <3> QED
        BY <3>1, <3>2
  <2> QED
      BY <1>0, <2>2, <2>3, <2>4 DEF Sound, Keys
<1> QED
    BY <1>0, <1>2, <1>3 DEF Caused

LEMMA GoStep ==
    ASSUME Asked, Caused, NEW c \in Settings, NEW p \in 1 .. LastPage, Go(c, p),
           Sound => list.by = "cursor" \/ p = 1 \/ (p - 1) * PageSize < rows[c]
    PROVE  Asked' /\ Caused'
<1>0. /\ choice' = c /\ page' = p /\ UNCHANGED <<list, rows, held, faults>>
      /\ failed' \subseteq failed
      /\ (fewer <=> fewer') /\ fewer' \in BOOLEAN
    BY DEF Go, server, Asked
<1>1. Asked'
    BY <1>0 DEF Asked, Rows, Keys
<1>2. ASSUME Sound PROVE Sound'
  <2>1. failed' = {}
      BY <1>0, <1>2 DEF Sound
  <2>2. There'
      BY <1>0, <1>2 DEF There
  <2> QED
      BY <1>0, <1>2, <2>1, <2>2 DEF Sound, Keys
<1> QED
    BY <1>0, <1>1, <1>2 DEF Caused

LEMMA TurnStep ==
    ASSUME Asked, Caused, NEW p \in 1 .. LastPage, TurnTo(p),
           Sound => list.by = "cursor" \/ (p - 1) * PageSize < rows[choice]
    PROVE  Asked' /\ Caused'
<1>1. 1 \in 1 .. LastPage /\ choice \in Settings
    BY LastPageBound DEF Asked
<1>2. CASE list.turns = "moves"
    BY <1>1, <1>2, GoStep DEF TurnTo
<1>3. CASE list.turns # "moves"
  <2>1. Go(choice, 1)
      BY <1>3 DEF TurnTo
  <2> QED
      BY <1>1, <2>1, GoStep
<1> QED
    BY <1>2, <1>3

LEMMA TurnOnStep ==
    ASSUME Asked, Caused, TurnOn
    PROVE  Asked' /\ Caused'
<1>1. page \in Nat /\ page \in 1 .. LastPage /\ LastPage \in Nat
    BY LastPageBound DEF Asked
<1>2. held[Key] # Unknown /\ page * PageSize < held[Key]
    BY <1>1, PageHasRow, KeyType DEF TurnOn, NextDrawn
<1>3. page + 1 \in 1 .. LastPage
    BY <1>1, <1>2, KeyType, LastPageBound
<1>4. ASSUME Sound PROVE ((page + 1) - 1) * PageSize < rows[choice]
  <2>1. held[Key] <= rows[choice]
      BY <1>2, <1>4, KeyType DEF Sound
  <2>2. (page + 1) - 1 = page /\ page * PageSize \in Nat
      BY <1>1
  <2> QED
      BY <1>2, <2>1, <2>2, KeyType
<1> QED
    BY <1>3, <1>4, TurnStep DEF TurnOn

LEMMA TurnBackStep ==
    ASSUME Asked, Caused, TurnBack
    PROVE  Asked' /\ Caused'
<1>1. page \in Nat /\ page > 1 /\ page <= LastPage /\ LastPage \in Nat
    BY LastPageBound DEF Asked, TurnBack, PreviousDrawn
<1>2. page - 1 \in 1 .. LastPage
    BY <1>1
<1>3. ASSUME Sound, list.by # "cursor"
      PROVE  ((page - 1) - 1) * PageSize < rows[choice]
  <2>1. (page - 1) * PageSize < rows[choice]
      BY <1>1, <1>3 DEF Sound, There
  <2>2. PICK k \in Nat : k = PageSize
      OBVIOUS
  <2>3. PICK a \in Nat : page = a + 2
      BY <1>1
  <2>4. k * a <= k * (a + 1) /\ k * a = a * k /\ k * (a + 1) = (a + 1) * k
        /\ a * k \in Nat /\ (a + 1) * k \in Nat
      BY TimesMonotone
  <2>5. page - 1 = a + 1 /\ (page - 1) - 1 = a
      BY <2>3
  <2> QED
      BY <2>1, <2>2, <2>4, <2>5, KeyType
<1> QED
    BY <1>2, <1>3, TurnStep DEF TurnBack

(***************************************************************************)
(* A list page is never an error of its own making: whatever filters and   *)
(* page buttons its user goes through, while rows come and change on the   *)
(* server, the page that it asks for is there, unless a request failed or  *)
(* rows went away (setPage(1), totalPages and disabled of the list pages). *)
(***************************************************************************)
THEOREM ErrorsAreCaused == ListSpec => []ErrorHasCause
<1>1. ListInit => Asked /\ Caused
  <2> SUFFICES ASSUME ListInit PROVE Asked /\ Caused
      OBVIOUS
  <2>1. Asked
    <3>1. page \in 1 .. LastPage /\ choice \in Settings /\ rows \in Rows /\ faults \in Nat
        BY LastPageBound DEF ListInit, Settings
    <3>2. held \in [Keys -> Sizes \cup {Unknown}]
        BY DEF ListInit
    <3>3. fewer \in BOOLEAN
        BY DEF ListInit
    <3> QED
        BY <3>1, <3>2, <3>3 DEF Asked
  <2>2. Sound
      BY DEF ListInit, Sound, There
  <2> QED
      BY <2>1, <2>2 DEF Caused
<1>2. Asked /\ Caused /\ [ListNext]_listVars => Asked' /\ Caused'
  <2> SUFFICES ASSUME Asked, Caused, [ListNext]_listVars
               PROVE  Asked' /\ Caused'
      OBVIOUS
  <2>1. CASE Load \/ Refetch
      BY <2>1, ArriveStep DEF Load, Refetch
  <2>2. CASE Fail
    <3>1. faults' \in Nat /\ faults' > 0 /\ UNCHANGED <<page, choice, rows, held>>
          /\ fewer' \in BOOLEAN
        BY <2>2 DEF Fail, server, Asked
    <3> QED
        BY <3>1 DEF Asked, Caused, Rows, Keys
  <2>3. ASSUME NEW c \in Settings, Choose(c)
        PROVE  Asked' /\ Caused'
    <3>1. Go(c, 1) /\ 1 \in 1 .. LastPage
        BY <2>3, LastPageBound DEF Choose
    <3> QED
        BY <3>1, GoStep
  <2>4. CASE Reopen
    <3>1. /\ choice' = All /\ page' = 1 /\ UNCHANGED <<list, rows, faults>>
          /\ held' = held \/ held' = [k \in Keys |-> Unknown]
          /\ failed' \subseteq failed
          /\ (fewer <=> fewer') /\ fewer' \in BOOLEAN
        BY <2>4 DEF Reopen, server, Asked
    <3>2. Asked'
        BY <3>1, LastPageBound DEF Asked, Rows, Keys, Settings
    <3>3. ASSUME Sound PROVE Sound'
        BY <3>1, <3>3 DEF Sound, There, Keys
    <3> QED
        BY <3>1, <3>2, <3>3 DEF Caused
  <2>5. CASE Change
    <3>1. /\ rows' \in Rows /\ UNCHANGED <<list, choice, page, held, failed, faults>>
          /\ fewer' \in BOOLEAN
          /\ ~fewer' => ~fewer /\ \A c \in Settings : ~(rows'[c] < rows[c])
        BY <2>5 DEF Change, Asked
    <3>2. Asked'
        BY <3>1 DEF Asked, Rows, Keys
    <3>3. ASSUME Sound, ~fewer' PROVE Sound'
      <4>1. \A c \in Settings : rows[c] \in Nat /\ rows'[c] \in Nat
          BY <3>1 DEF Asked, Rows
      <4>2. \A c \in Settings : rows[c] <= rows'[c]
          BY <3>1, <3>3, <4>1
      <4>3. There'
        <5>1. \A n \in Int : n < rows[choice] => n < rows'[choice]
            BY <4>1, <4>2 DEF Asked
        <5>2. (page - 1) * PageSize \in Int
            BY LastPageBound DEF Asked
        <5> QED
            BY <3>1, <3>3, <5>1, <5>2 DEF Sound, There
      <4>4. ASSUME NEW k \in Keys, held[k] # Unknown
            PROVE  held[k] <= rows'[k[1]]
        <5>1. k[1] \in Settings
            BY DEF Keys
        <5>2. held[k] \in Nat /\ held[k] <= rows[k[1]]
            BY <3>3, <4>4 DEF Asked, Sound
        <5> QED
            BY <4>1, <4>2, <5>1, <5>2
      <4> QED
          BY <3>1, <3>3, <4>3, <4>4 DEF Sound, Keys
    <3> QED
        BY <3>1, <3>2, <3>3 DEF Caused
  <2>6. CASE Seek \/ UNCHANGED listVars
    <3>1. UNCHANGED <<list, rows, choice, page, held, failed, faults>> /\ fewer' \in BOOLEAN
          /\ (fewer <=> fewer')
        BY <2>6 DEF Seek, listVars, server, Asked
    <3> QED
        BY <3>1 DEF Asked, Caused, Sound, There, Rows, Keys
  <2> QED
      BY <2>1, <2>2, <2>3, <2>4, <2>5, <2>6, TurnOnStep, TurnBackStep DEF ListNext
<1>3. Caused => ErrorHasCause
    BY DEF Caused, Sound, ErrorHasCause, Errs
<1> QED
    BY <1>1, <1>2, <1>3, PTL DEF ListSpec

HIDE ListAssumption
=============================================================================
