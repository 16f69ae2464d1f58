---------------------------- MODULE MCContingency ----------------------------
EXTENDS Contingency, TLC

Pay(m, a) == [method |-> m, amount |-> a]

\* Too little, exact, in excess, mixed, and not accepted offline.
MCPayments == {<<Pay("cash", 3)>>, <<Pay("external", 2)>>, <<Pay("external", 3)>>,
               <<Pay("external", 3), Pay("cash", 1)>>,
               <<Pay("external", 1), Pay("cash", 2)>>,
               <<Pay("external unconfirmed", 2)>>, <<Pay("pix", 2)>>}

MCPrices == {[amount |-> 2, from |-> 0, until |-> u] : u \in {2, 9}}

\* The wall clock is right, or ahead until it is set back.
MCOffsets == {0, 1}

\* The devices that the client knows of.
Known == ({login} \cup {a.named : a \in answers}
          \cup (IF anchor = NoAnchor THEN {} ELSE {anchor.of})) \ {NoDevice}

\* A queued sale is judged once, and nothing that follows changes the
\* judgement.  One revocation is enough, as a second one forbids no less, and
\* that of a device which the client does not know of only forbids its login.
\* The machine sleeps or the process restarts, not both.  With two devices or
\* two answers it does neither, the clock is right, and the row of the product
\* is fetched at the moment of the sale.
Bounded ==
    /\ sale = NoSale
    /\ Cardinality({s \in Subjects : revoked[s] # Never}) <= 1
    /\ \A d \in Devices \ Known : revoked[d] = Never
    /\ boot = 1 \/ slept = 0
    /\ \/ Cardinality(Known) <= 1 /\ Cardinality(answers) <= 1
       \/ /\ boot = 1 /\ slept = 0 /\ offset = 0
          /\ cached = NoPrice \/ (answers = {} /\ cached.fetched = now)

Machines == Permutations(Devices)
=============================================================================
