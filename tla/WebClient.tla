----------------------------- MODULE WebClient -----------------------------
(***************************************************************************)
(* How a page of the web front end shows what the backend has, and how a   *)
(* form changes it: the query cache (TanStack Query, as main.tsx sets it   *)
(* up), the requests (api/client.ts), the switch of tenants                *)
(* (tenant/TenantProvider.tsx) and the end of a login                      *)
(* (auth/AuthProvider.tsx).  One query and one form that writes what the   *)
(* query reads are followed at a time; `kind' holds what WebPages says of  *)
(* the pair.                                                               *)
(***************************************************************************)
EXTENDS Integers, FiniteSets, WebPages

CONSTANTS Tenants,
          Choices,                             \* what the filters may be set to
          MaxRequests,
          MaxMoves                             \* openings, logouts and switches

ASSUME WebAssumption ==
    /\ {MaxRequests, MaxMoves} \subseteq Nat
    /\ Choices # {} /\ Tenants # {}

VARIABLES kind,      \* the pair: what the form and the query are like
          tenant,    \* selectedTenant
          switches,  \* changes of tenant and logouts so far
          cache,     \* what the cache holds for a tenant and a choice
          fetch,     \* the fetch under way for it
          overtaken, \* a change was answered while that fetch was under way
          shown,     \* the page with the query is mounted
          choice,    \* its filters
          open,      \* the form is mounted
          opening,   \* how often it was
          intent,    \* changes the form was told are made, plus one
          requests   \* the requests of the form

queries == <<cache, fetch, overtaken>>
page == <<shown, choice>>
form == <<open, opening, intent>>
vars == <<kind, tenant, switches, queries, page, form, requests>>

Keys == Tenants \X Choices
Ids == 1..MaxRequests

Entry == [rows : SUBSET Ids, fresh : BOOLEAN]
None == [rows |-> {}]
Idle == [stage |-> "idle"]
Asked == [stage |-> "asked"]
Answered == [stage : {"answered"}, rows : SUBSET Ids]
Request == [id : Ids, tenant : Tenants, scope : Tenants, opening : 0..MaxMoves,
            intent : Nat, effect : BOOLEAN,
            state : {"sent", "made", "refused", "told"},
            answer : {"awaited", "left", "lost"}]

TypeOK ==
    /\ tenant \in Tenants /\ switches \in 0..MaxMoves
    /\ cache \in [Keys -> Entry \cup {None}]
    /\ fetch \in [Keys -> Answered \cup {Idle, Asked}]
    /\ overtaken \subseteq Keys
    /\ shown \in BOOLEAN /\ choice \in Choices
    /\ open \in BOOLEAN /\ opening \in 0..MaxMoves
    /\ intent \in Nat
    /\ requests \subseteq Request

Init ==
    /\ kind \in Kinds
    /\ tenant \in Tenants /\ switches = 0
    /\ cache = [k \in Keys |-> None]
    /\ fetch = [k \in Keys |-> Idle]
    /\ overtaken = {}
    /\ shown = FALSE /\ choice \in Choices
    /\ open = FALSE /\ opening = 0 /\ intent = 1
    /\ requests = {}

-----------------------------------------------------------------------------
(* The cache.                                                              *)

Key == <<tenant, choice>>

Held(k) == cache[k] # None
Rows(t) == {r.id : r \in {q \in requests : q.tenant = t /\ q.effect}}

\* A query that is mounted is fetched unless it has fresh data.
Start(f, k) ==
    IF f[k] # Idle \/ (Held(k) /\ cache[k].fresh) THEN f
    ELSE [f EXCEPT ![k] = Asked]
\* One that nobody looks at any more is called off if its function takes a signal.
Leave(f, k) == IF kind.signal THEN [f EXCEPT ![k] = Idle] ELSE f

Fetch(f) == fetch' = f /\ overtaken' = {k \in overtaken : f[k] = fetch[k]}

Mount ==
    /\ ~shown /\ shown' = TRUE
    /\ Fetch(Start(fetch, Key))
    /\ UNCHANGED <<kind, tenant, switches, cache, choice, form, requests>>

Unmount ==
    /\ shown /\ shown' = FALSE
    /\ Fetch(Leave(fetch, Key))
    /\ UNCHANGED <<kind, tenant, switches, cache, choice, form, requests>>

Choose(c) ==
    /\ shown /\ c # choice
    /\ choice' = c
    /\ Fetch(Start(Leave(fetch, Key), <<tenant, c>>))
    /\ UNCHANGED <<kind, tenant, switches, cache, shown, form, requests>>

\* The backend answers with the rows of the tenant the request names.
Read(k) ==
    /\ fetch[k].stage = "asked"
    /\ fetch' = [fetch EXCEPT ![k] = [stage |-> "answered", rows |-> Rows(k[1])]]
    /\ UNCHANGED <<kind, tenant, switches, cache, overtaken, page, form, requests>>

Arrive(k) ==
    /\ fetch[k].stage = "answered"
    /\ cache' = [cache EXCEPT ![k] = [rows |-> fetch[k].rows, fresh |-> TRUE]]
    /\ fetch' = [fetch EXCEPT ![k] = Idle]
    /\ UNCHANGED <<kind, tenant, switches, overtaken, page, form, requests>>

\* No answer comes; what was held stays, as stale as it was.
Fail(k) ==
    /\ fetch[k].stage = "asked"
    /\ Fetch([fetch EXCEPT ![k] = Idle])
    /\ UNCHANGED <<kind, tenant, switches, cache, page, form, requests>>

\* Half a minute has passed.
Expire(k) ==
    /\ Held(k) /\ cache[k].fresh
    /\ cache' = [cache EXCEPT ![k].fresh = FALSE]
    /\ UNCHANGED <<kind, tenant, switches, fetch, overtaken, page, form, requests>>

\* invalidateQueries: what is held is stale.  The query on the page is fetched
\* anew, but a first load that is under way is left alone, and so is a fetch
\* whose page is gone: what they bring counts as fresh.
Invalidate(t) ==
    LET Of == {k \in Keys : k[1] = t}
        OnPage(k) == shown /\ k = Key
        Restarted(k) == OnPage(k) /\ Held(k)
    IN /\ cache' = [k \in Keys |-> IF k \in Of /\ Held(k)
                                   THEN [cache[k] EXCEPT !.fresh = FALSE]
                                   ELSE cache[k]]
       /\ fetch' = [k \in Keys |-> IF k \in Of /\ Restarted(k)
                                   THEN Asked ELSE fetch[k]]
       /\ overtaken' = (overtaken \ {k \in Of : Restarted(k)})
                           \cup {k \in Of : ~Restarted(k) /\ fetch[k] # Idle}

\* setQueryData: the answer of the request goes in front of the list that is
\* held, if one is, and the list is fresh.
Put(t, id) ==
    LET Of == {k \in Keys : k[1] = t}
    IN /\ cache' = [k \in Keys |-> IF k \in Of /\ Held(k)
                                   THEN [cache[k] EXCEPT !.rows = @ \cup {id},
                                                         !.fresh = TRUE]
                                   ELSE cache[k]]
       /\ overtaken' = overtaken \cup {k \in Of : fetch[k] # Idle}
       /\ UNCHANGED fetch

-----------------------------------------------------------------------------
(* The form.                                                               *)

Open ==
    /\ ~open /\ opening + switches < MaxMoves
    /\ open' = TRUE /\ opening' = opening + 1
    /\ UNCHANGED <<kind, tenant, switches, queries, page, intent, requests>>

Waits(r) == r.state # "told" /\ r.answer = "awaited"
Mine(r) == open /\ r.opening = opening
Left == {IF Mine(r) /\ Waits(r) THEN [r EXCEPT !.answer = "left"] ELSE r
            : r \in requests}

\* The dialogs do not close while they wait, but the user may go to another page;
\* a request that is on its way then goes on, and so does what its answer does.
Close ==
    /\ open /\ open' = FALSE
    /\ requests' = Left
    /\ UNCHANGED <<kind, tenant, switches, queries, page, opening, intent>>

Free == Ids \ {r.id : r \in requests}

Submit ==
    /\ open /\ Free # {}
    /\ kind.locked => ~\E r \in requests : Mine(r) /\ Waits(r)
    /\ requests' = requests \cup
         {[id |-> CHOOSE i \in Free : TRUE, tenant |-> tenant, scope |-> tenant,
           opening |-> opening, intent |-> intent, effect |-> FALSE,
           state |-> "sent", answer |-> "awaited"]}
    /\ UNCHANGED <<kind, tenant, switches, queries, page, form>>

Becomes(r, new) == requests' = (requests \ {r}) \cup {new}

\* A request with the key of one that was made is answered as that one was.
Made(r) == \E q \in requests : /\ kind.kept /\ q.effect
                               /\ q.tenant = r.tenant /\ q.opening = r.opening

\* Mutant: the key is not looked at.
HandleAnew(r) ==
    /\ r.state = "sent"
    /\ Becomes(r, [r EXCEPT !.state = "made", !.effect = TRUE])
    /\ UNCHANGED <<kind, tenant, switches, queries, page, form>>

Handle(r) ==
    /\ r.state = "sent"
    /\ Becomes(r, [r EXCEPT !.state = "made", !.effect = ~Made(r)])
    /\ UNCHANGED <<kind, tenant, switches, queries, page, form>>

\* A change in two requests may stop after the first.
Refuse(r) ==
    /\ r.state = "sent"
    /\ \E half \in (IF kind.steps = 1 THEN {FALSE} ELSE BOOLEAN) :
            Becomes(r, [r EXCEPT !.state = "refused", !.effect = half])
    /\ UNCHANGED <<kind, tenant, switches, queries, page, form>>

\* onSuccess, also of a form that is no longer there: with the tenant it had when
\* it was last drawn.
Succeed(r) ==
    /\ r.state = "made" /\ r.answer # "lost"
    /\ Becomes(r, [r EXCEPT !.state = "told"])
    /\ intent' = intent + 1
    /\ open' = (open /\ (kind.stays \/ ~Mine(r)))
    /\ IF kind.reached THEN Invalidate(r.scope)
       ELSE IF kind.put THEN Put(r.scope, r.id)
       ELSE UNCHANGED queries
    /\ UNCHANGED <<kind, tenant, switches, page, opening>>

\* onError: a refusal, or no answer, whatever becomes of the request.
Problem(r) ==
    /\ Waits(r)
    /\ Becomes(r, [r EXCEPT !.answer = "lost"])
    /\ UNCHANGED <<kind, tenant, switches, queries, page, form>>

-----------------------------------------------------------------------------
(* The tenant and the login.                                               *)

Cleared == /\ cache' = [k \in Keys |-> None]
           /\ overtaken' = {}

\* selectTenant: what was under way arrives at a query that is gone; a form that
\* is there is drawn anew.
SelectTenant(t) ==
    /\ t # tenant /\ opening + switches < MaxMoves
    /\ tenant' = t /\ switches' = switches + 1
    /\ Cleared
    /\ fetch' = [k \in Keys |-> IF shown /\ k = <<t, choice>>
                                THEN Asked ELSE Idle]
    /\ requests' = {IF Mine(r) THEN [r EXCEPT !.scope = t] ELSE r : r \in requests}
    /\ UNCHANGED <<kind, page, form>>

\* logout, whether or not the backend answered; the login that follows may be as
\* the same tenant.
Logout ==
    /\ opening + switches < MaxMoves /\ switches' = switches + 1
    /\ Cleared
    /\ fetch' = [k \in Keys |-> Idle]
    /\ shown' = FALSE /\ open' = FALSE
    /\ requests' = Left
    /\ UNCHANGED <<kind, tenant, choice, opening, intent>>

-----------------------------------------------------------------------------
QueryStep ==
    \/ Mount \/ Unmount
    \/ \E c \in Choices : Choose(c)
    \/ \E k \in Keys : Read(k) \/ Arrive(k) \/ Fail(k) \/ Expire(k)

FormStep ==
    \/ Open \/ Close \/ Submit
    \/ \E r \in requests : Handle(r) \/ Refuse(r) \/ Succeed(r) \/ Problem(r)

Next == QueryStep \/ FormStep \/ Logout \/ \E t \in Tenants : SelectTenant(t)
Spec == Init /\ [][Next]_vars

-----------------------------------------------------------------------------
\* The rows of changes that the form was told of, under any request that did it.
Known(t) ==
    {q.id : q \in {p \in requests : /\ p.effect /\ p.tenant = t
                       /\ \E r \in requests : /\ r.state = "told" /\ r.scope = t
                                              /\ r.tenant = t
                                              /\ r.opening = p.opening
                                              /\ r = p \/ kind.kept}}

\* Every form and query that share rows: the form reaches the query, is listed as
\* one that does not, or puts its answer there (WebPages).
EachAccounted == \A k \in Kinds : k.reached \/ k.unreached \/ k.put

\* A list that counts as fresh shows every change that a form was told is made
\* (onSuccess of the pages' mutations), whichever page either of them is on and
\* however the tenant was changed in between - except the lists that WebPages says
\* the form does not reach or puts its answer into, fetches that were under way when
\* the answer came, and a form that stood open when the tenant was changed: it tells
\* the lists of the new one.
Refreshed ==
    \A k \in Keys :
        /\ Held(k) /\ cache[k].fresh
        /\ k \notin overtaken /\ ~kind.unreached /\ ~kind.put
        => Known(k[1]) \subseteq cache[k].rows

\* A change is made once for the user who wants it once (mutation.isPending on the
\* buttons, the keys of the dialogs).  Under a key that a form keeps while it is open
\* that is so however often the change is sent and whatever answers are lost; behind
\* a button that is disabled while the form waits, once more at most for every attempt
\* whose answer did not come, or that was refused halfway.
Effects(i, t) == {r \in requests : r.intent = i /\ r.tenant = t /\ r.effect}
Unsure(i) == {r \in requests : /\ r.intent = i /\ r.answer # "awaited"
                               /\ r.state = "refused" => r.effect}
KeptOnce == kind.kept =>
    \A r, s \in requests : r.effect /\ s.effect /\ r.tenant = s.tenant
                               /\ r.opening = s.opening => r = s
OneEffect ==
    /\ KeptOnce
    /\ kind.adds /\ kind.locked => \A i \in 1..MaxRequests + 1, t \in Tenants :
           Cardinality(Effects(i, t)) <= 1 + Cardinality(Unsure(i))

-----------------------------------------------------------------------------
(* What the plans of the repository say of the pages, and the code does    *)
(* not do.                                                                 *)

\* "Mutations requiring Idempotency-Key generate UUID v4 once per user submission and
\* preserve it across manual retry" (sprint 18): a change under a key is made once
\* for as long as the form that sends it is open.
OneKeyPerSubmission ==
    kind.keyed /\ kind.adds => \A i \in 1..MaxRequests + 1, t \in Tenants, o \in 0..MaxMoves :
        Cardinality({r \in Effects(i, t) : r.opening = o}) <= 1

\* A list shows rows of its own tenant only (selectTenant clears, the keys hold the
\* tenant): a form that puts its answer into a list itself does so under the tenant
\* of the moment, not of the request.
OwnTenant == \A k \in Keys : cache[k].rows \subseteq Rows(k[1])

=============================================================================
