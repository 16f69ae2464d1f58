----------------------------- MODULE Contingency -----------------------------
(***************************************************************************)
(* Selling without a connection (pdv/src/main/services/                    *)
(* contingencyPolicy.ts).  Every answer of the backend leaves an anchor:   *)
(* the server's time, the standing of the device and of the operator, the  *)
(* process's monotonic clock.  A sale made offline is judged by the last   *)
(* anchor, the cached price and the payments.  Answers may be late and out *)
(* of order, the wall clock may be set, the machine may sleep, the process *)
(* may restart, devices and operators are revoked at the backend.  The      *)
(* backend may be reachable or not at any step.                            *)
(***************************************************************************)
EXTENDS Integers, Sequences, FiniteSets, Functions

CONSTANTS Devices,    \* devices that may log in on this machine
          NoDevice,
          Offsets,    \* what the wall clock may be ahead of the true time
          Prices,     \* prices of the product that the backend may send
          Payments,   \* payments a cashier may enter
          Discounts,  \* discounts on the item
          Window,     \* OFFLINE_WINDOW_MS
          PriceAge,   \* PRICE_CACHE_MAX_AGE_MS
          MaxDelay,   \* time limit of a request, 30 s
          Zone,       \* by how much local time is behind UTC
          MaxAnswers, MaxSleep, MaxBoots, Horizon  \* bounds

Methods == {"cash", "external", "external unconfirmed", "pix"}
PriceType == [amount : Nat, from : Int, until : Int]

ASSUME ContingencyAssumption ==
    /\ NoDevice \notin Devices /\ "operator" \notin Devices
    /\ 0 \in Offsets /\ Offsets \subseteq Int
    /\ Prices \subseteq PriceType
    /\ Payments \subseteq Seq([method : Methods, amount : Int])
    /\ Discounts \subseteq Nat
    /\ {Window, PriceAge, MaxDelay, Zone} \subseteq Nat
    /\ {MaxAnswers, MaxSleep, Horizon} \subseteq Nat /\ MaxBoots \in Nat \ {0}

VARIABLES now,      \* the true time, that of the server
          mono,     \* performance.now() of the process
          slept,    \* time the machine slept, which mono may miss
          offset,   \* wall clock minus the true time
          boot,     \* sessionId of the process
          login,    \* the device whose credentials are stored
          answers,  \* answers on their way to the client
          revoked,  \* when the backend revoked each subject
          anchor,   \* offline_contingency_anchor in the store
          cached,   \* the row of the product in the price cache
          sale      \* the last sale queued offline

policyVars == <<now, mono, slept, offset, boot, login, answers, revoked,
          anchor, cached, sale>>

Subjects == Devices \cup {"operator"}
Never == Horizon + 1
Times == 0..Horizon
Standings == {"active", "revoked", "untold"}

\* An answer: the standings it tells, and the device it names, if it does.
\* One that does not tell the device's standing leaves no anchor, as if lost.
AnswerType == [at : Times, sent : Times, named : Devices \cup {NoDevice},
               device : Standings \ {"untold"}, operator : Standings]
AnchorType == [server : Times, wall : Int, mono : Times, boot : 1..MaxBoots,
               of : Devices, device : Standings \ {"untold"}, operator : Standings]
NoAnchor == [server |-> -1]
CachedType == [fetched : Times, ahead : Offsets, price : Prices]
NoPrice == [fetched |-> -1]
SaleType == [at : Times, of : Devices, fetched : Times, ahead : Offsets,
             price : Prices, total : Nat, paid : Payments]
NoSale == [at |-> -1]

PolicyTypeOK ==
    /\ now \in Times /\ mono \in Times /\ slept \in 0..MaxSleep
    /\ offset \in Offsets
    /\ boot \in 1..MaxBoots
    /\ login \in Devices \cup {NoDevice}
    /\ answers \subseteq AnswerType
    /\ revoked \in [Subjects -> 0..Never]
    /\ anchor \in AnchorType \cup {NoAnchor}
    /\ cached \in CachedType \cup {NoPrice}
    /\ sale \in SaleType \cup {NoSale}

PolicyInit ==
    /\ now = 0 /\ mono = 0 /\ slept = 0 /\ offset = 0 /\ boot = 1
    /\ login = NoDevice
    /\ answers = {}
    /\ revoked = [s \in Subjects |-> Never]
    /\ anchor = NoAnchor
    /\ cached = NoPrice
    /\ sale = NoSale

-----------------------------------------------------------------------------
(* Time, the machine and the backend.                                      *)

Tick ==
    /\ now < Horizon
    /\ now' = now + 1 /\ mono' = mono + 1
    /\ UNCHANGED <<slept, offset, boot, login, answers, revoked,
                   anchor, cached, sale>>

\* The monotonic clock stands still while the machine sleeps.
Sleep ==
    /\ now < Horizon /\ slept < MaxSleep
    /\ now' = now + 1 /\ slept' = slept + 1
    /\ UNCHANGED <<mono, offset, boot, login, answers, revoked,
                   anchor, cached, sale>>

SetClock ==
    /\ offset' \in Offsets \ {offset}
    /\ UNCHANGED <<now, mono, slept, boot, login, answers, revoked,
                   anchor, cached, sale>>

\* Only what is in the store survives; the monotonic clock starts anew.
RestartClient ==
    /\ boot < MaxBoots
    /\ boot' = boot + 1 /\ mono' = 0 /\ answers' = {}
    /\ UNCHANGED <<now, slept, offset, login, revoked, anchor,
                   cached, sale>>

Revoke(s) ==
    /\ revoked[s] = Never
    /\ revoked' = [revoked EXCEPT ![s] = now]
    /\ UNCHANGED <<now, mono, slept, offset, boot, login, answers,
                   anchor, cached, sale>>

-----------------------------------------------------------------------------
(* Credentials.                                                            *)

\* The backend validates the key of an active device only.
Login(d) ==
    /\ revoked[d] = Never
    /\ login' = d
    /\ UNCHANGED <<now, mono, slept, offset, boot, answers, revoked,
                   anchor, cached, sale>>

\* The credentials are removed; the anchor stays in the store.
Logout ==
    /\ login # NoDevice
    /\ login' = NoDevice
    /\ UNCHANGED <<now, mono, slept, offset, boot, answers, revoked,
                   anchor, cached, sale>>

-----------------------------------------------------------------------------
(* Answers of the backend, and the anchor they leave.                      *)

Standing(s) == IF revoked[s] = Never THEN "active" ELSE "revoked"

\* What an answer tells of the operator; a list may tell of no single one.
Told == {Standing("operator"), "untold"}

\* Any request of the till and its answer, which may leave out the device's
\* identity.
Request ==
    /\ login # NoDevice
    /\ \E n \in {login, NoDevice}, o \in Told :
          answers' = answers \cup {[at |-> now, sent |-> mono, named |-> n,
                                    device |-> Standing(login), operator |-> o]}
    /\ Cardinality(answers') <= MaxAnswers
    /\ UNCHANGED <<now, mono, slept, offset, boot, login, revoked,
                   anchor, cached, sale>>

\* Mutant: the operator's standing is kept when an answer does not tell it.
AnchoredKeeping(a, d) ==
    [server |-> a.at, wall |-> now + offset, mono |-> mono, boot |-> boot,
     of |-> d, device |-> a.device,
     operator |-> IF a.operator = "untold" /\ anchor # NoAnchor
                  THEN anchor.operator ELSE a.operator]

\* What an answer leaves: a standing that it does not tell is not kept from
\* an earlier anchor.
Anchored(a, d) ==
    [server |-> a.at, wall |-> now + offset, mono |-> mono, boot |-> boot,
     of |-> d, device |-> a.device, operator |-> a.operator]

\* An answer that names no device is taken to be about the device that is
\* logged in when it arrives.
Of(a) == IF a.named # NoDevice THEN a.named ELSE login

HearAnswer(a) ==
    /\ a \in answers /\ mono - a.sent <= MaxDelay
    /\ answers' = answers \ {a}
    /\ anchor' = IF Of(a) = NoDevice THEN anchor
                 ELSE Anchored(a, Of(a))
    /\ UNCHANGED <<now, mono, slept, offset, boot, login, revoked,
                   cached, sale>>

\* The answer is lost, or the request timed out before it arrived.
Lose(a) ==
    /\ a \in answers
    /\ answers' = answers \ {a}
    /\ UNCHANGED <<now, mono, slept, offset, boot, login, revoked,
                   anchor, cached, sale>>

-----------------------------------------------------------------------------
(* The price cache.                                                        *)

\* A refresh writes the row that the backend has, stamped by the wall clock
\* (the backend sends no updated_at), or finds none.
Refresh ==
    /\ login # NoDevice
    /\ cached' \in {NoPrice} \cup
          {[fetched |-> now, ahead |-> offset, price |-> p] : p \in Prices}
    /\ UNCHANGED <<now, mono, slept, offset, boot, login, answers,
                   revoked, anchor, sale>>

-----------------------------------------------------------------------------
(* The judgement of an offline sale.                                       *)

Elapsed == mono - anchor.mono
ProjectedTime == anchor.server + Elapsed

\* Neither clock went back since the anchor, which is one of this process
\* and not older than the window.
Timely ==
    /\ now + offset >= anchor.wall
    /\ anchor.boot = boot
    /\ Elapsed \in 0..Window

\* A standing lasts for the window from the server's time.
Trusted ==
    /\ anchor.of = login
    /\ anchor.device = "active" /\ anchor.operator = "active"
    /\ ProjectedTime <= anchor.server + Window

\* The row is stamped by the wall clock.
Stamp == cached.fetched + cached.ahead

\* Mutant: the age of the row is not checked.
PricedAnyAge ==
    /\ cached # NoPrice
    /\ cached.price.from - Zone <= ProjectedTime /\ ProjectedTime < cached.price.until - Zone
\* The validity is compared as text: the backend writes it in local time
\* with an offset, the client in UTC.
Priced ==
    /\ cached # NoPrice
    /\ cached.price.from - Zone <= ProjectedTime /\ ProjectedTime < cached.price.until - Zone
    /\ ProjectedTime - Stamp <= PriceAge

Total(discount) ==
    IF discount > cached.price.amount THEN 0 ELSE cached.price.amount - discount

Sum(payments, methods) ==
    SumFunctionOnSet([i \in DOMAIN payments |-> payments[i].amount],
                     {i \in DOMAIN payments : payments[i].method \in methods})

\* Mutant: any excess is given back as change.
CoversAnyExcess(payments, total) ==
    /\ \A i \in DOMAIN payments : /\ payments[i].method \in {"cash", "external"}
                                   /\ payments[i].amount > 0
    /\ Sum(payments, Methods) >= total
    /\ Sum(payments, {"cash"}) = 0 => Sum(payments, Methods) = total

\* What external confirmations pay is exact; only cash may exceed the total.
Covers(payments, total) ==
    /\ \A i \in DOMAIN payments : /\ payments[i].method \in {"cash", "external"}
                                   /\ payments[i].amount > 0
    /\ Sum(payments, Methods) >= total
    /\ Sum(payments, {"cash"}) = 0 => Sum(payments, Methods) = total
    /\ Sum(payments, {"external"}) <= total

\* When the backend does not answer and the monitor sees no connection.
Sell(payments, discount) ==
    /\ login # NoDevice /\ anchor # NoAnchor
    /\ Timely /\ Trusted /\ Priced
    /\ Covers(payments, Total(discount))
    /\ sale' = [at |-> now, of |-> login, fetched |-> cached.fetched,
                ahead |-> cached.ahead, price |-> cached.price, total |-> Total(discount),
                paid |-> payments]
    /\ UNCHANGED <<now, mono, slept, offset, boot, login, answers,
                   revoked, anchor, cached>>

-----------------------------------------------------------------------------
PolicyNext ==
    \/ Tick \/ Sleep \/ SetClock \/ RestartClient
    \/ \E s \in Subjects : Revoke(s)
    \/ \E d \in Devices : Login(d)
    \/ Logout \/ Request \/ Refresh
    \/ \E a \in answers : HearAnswer(a) \/ Lose(a)
    \/ \E p \in Payments, d \in Discounts : Sell(p, d)

PolicySpec == PolicyInit /\ [][PolicyNext]_policyVars

-----------------------------------------------------------------------------
\* How far the client's idea of the time may lag.
Lag == MaxDelay + slept

(* A revoked device or operator cannot sell offline for longer than the    *)
(* window after the revocation (contingencyPolicy.evaluateOfflineSale),    *)
(* whatever restarts, logins of other devices, answers that overtake each  *)
(* other and settings of the wall clock lie in between.                    *)
RevocationBites ==
    sale # NoSale =>
        \A s \in {sale.of, "operator"} : sale.at <= revoked[s] + Window + Lag

(* A sale queued offline has a price fetched within the age limit and not  *)
(* past its validity (contingencyPolicy.calculateSaleTotal).  The age is   *)
(* that of the row's stamp: it is wrong by as much as the wall clock was   *)
(* ahead when the row was fetched, and by nothing else, however the clock  *)
(* is set before and after.                                                *)
PriceHolds ==
    sale # NoSale => /\ sale.at <= sale.fetched + sale.ahead + PriceAge + Lag
                     /\ sale.at < sale.price.until + Lag

(* The change of a queued sale comes out of the cash the customer gave,    *)
(* never out of a card or Pix payment (contingencyPolicy.validatePayments).*)
ChangeIsCash ==
    sale # NoSale =>
        Sum(sale.paid, Methods) - sale.total \in 0..Sum(sale.paid, {"cash"})
=============================================================================
