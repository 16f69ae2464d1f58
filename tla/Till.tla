-------------------------------- MODULE Till --------------------------------
(***************************************************************************)
(* The till: the sale page of the point of sale (pdv/src/renderer/pages/   *)
(* Sale.tsx), with the cash session that its pages show                    *)
(* (CashSessionContext.tsx), against the backend that prices, checks and   *)
(* makes the sale (sales/services.py, create_counter_sale).  The page adds *)
(* prices it read earlier and the backend adds its own; a session may be   *)
(* closed from another till; an answer may be late, lost or out of order.  *)
(* How the main process carries a sale without a connection is PdvSync's   *)
(* subject: here a request is made, refused, or unanswered.                *)
(***************************************************************************)
EXTENDS Integers, Sequences, FiniteSets, Functions, SequencesExt

CONSTANTS Products,
          Discounts,  \* amounts to choose from
          MaxQuantity, MaxPrice, MaxPayments, MaxRequests, MaxSessions,
          MaxReads    \* bounds

ASSUME TillAssumption ==
    /\ {MaxPrice, MaxPayments, MaxRequests, MaxSessions, MaxReads} \subseteq Nat
    /\ MaxQuantity \in Nat \ {0}
    /\ Discounts \subseteq Nat /\ 0 \in Discounts
    /\ IsFiniteSet(Products)

VARIABLES cart,        \* items: a line for each product on the page
          payments,    \* the amounts entered
          round,       \* sales confirmed on the page so far
          sent,        \* requests sent so far: the key of the last
          waiting,     \* processing: the key whose answer the page waits for, or 0
          requests,    \* requests on their way to the backend
          answer,      \* the answer on its way to the page
          unanswered,  \* rounds in which the page gave up a request
          prices,      \* the backend's prices
          sales,       \* the backend's sales
          opened,      \* sessions opened so far; the last is the one that may be open
          isOpen,
          shown,       \* the session on the page, 0 for none
          reads        \* answers about the session on their way to the page

salePage == <<cart, payments, round, waiting>>
network == <<sent, requests, answer, unanswered>>
backend == <<prices, sales>>
cashSession == <<opened, isOpen, shown, reads>>
tillVars == <<salePage, network, backend, cashSession>>

Price == 1..MaxPrice
Line == [quantity : 1..MaxQuantity, price : Price, discount : Discounts]
Carts == UNION {[S -> Line] : S \in SUBSET Products}

Sum(amounts) == SumFunctionOnSet(amounts, DOMAIN amounts)
Total(line, price) == line.quantity * price - line.discount
Net(c) == Sum([p \in DOMAIN c |-> Total(c[p], c[p].price)])
Paid == Sum(payments)

Request == [key : 1..MaxRequests, round : 0..MaxRequests, cart : Carts, paid : Nat,
            shown : Int]
Sale == [key : 1..MaxRequests, round : 0..MaxRequests, net : Int, paid : Nat,
         shown : Int]

TillTypeOK ==
    /\ cart \in Carts
    /\ payments \in Seq(Nat \ {0}) /\ Len(payments) <= MaxPayments
    /\ prices \in [Products -> Price]
    /\ {round, sent, waiting} \subseteq 0..MaxRequests
    /\ requests \subseteq Request
    /\ answer \in {"none", "made", "refused"}
    /\ unanswered \subseteq 0..MaxRequests
    /\ sales \subseteq Sale
    /\ opened \in 0..MaxSessions /\ isOpen \in BOOLEAN
    /\ shown \in 0..MaxSessions
    /\ reads \in Seq(0..MaxSessions) /\ Len(reads) <= MaxReads

TillInit ==
    /\ cart = << >> /\ payments = << >>
    /\ prices \in [Products -> Price]
    /\ round = 0 /\ sent = 0 /\ waiting = 0
    /\ requests = {} /\ answer = "none" /\ unanswered = {}
    /\ sales = {}
    /\ opened = 0 /\ isOpen = FALSE /\ shown = 0 /\ reads = << >>

-----------------------------------------------------------------------------
(* Editing the sale.  Nothing here waits for the answer of a request: items *)
(* and payments may be edited while a sale is being processed.              *)

WithLine(p, line) == [q \in DOMAIN cart \cup {p} |-> IF q = p THEN line ELSE cart[q]]
Without(p) == [q \in DOMAIN cart \ {p} |-> cart[q]]

\* The answer of an older search may overwrite that of a newer one, and stay:
\* the price on the page is one that the product has, or had.
Found == Price

\* The line of a product that is there already keeps its first price.
Select(p, price) ==
    /\ IF p \in DOMAIN cart
       THEN /\ cart[p].quantity < MaxQuantity
            /\ cart' = [cart EXCEPT ![p].quantity = @ + 1]
       ELSE cart' = WithLine(p, [quantity |-> 1, price |-> price, discount |-> 0])
    /\ UNCHANGED <<payments, round, waiting, network, backend, cashSession>>

\* A new quantity does not look at the discount: the line may go below zero.
Quantity(p, n) ==
    /\ p \in DOMAIN cart
    /\ cart' = IF n <= 0 THEN Without(p) ELSE [cart EXCEPT ![p].quantity = n]
    /\ UNCHANGED <<payments, round, waiting, network, backend, cashSession>>

Discount(p, d) ==
    /\ p \in DOMAIN cart
    /\ cart[p].quantity * cart[p].price - d >= 0
    /\ cart' = [cart EXCEPT ![p].discount = d]
    /\ UNCHANGED <<payments, round, waiting, network, backend, cashSession>>

\* "Limpar" empties the cart and keeps the payments.
Clear ==
    /\ cart' = << >>
    /\ UNCHANGED <<payments, round, waiting, network, backend, cashSession>>

\* No amount above what remains: cash is cut to it, another method is refused.
AddPayment(amount) ==
    /\ Len(payments) < MaxPayments
    /\ 0 < amount /\ amount <= Net(cart) - Paid
    /\ payments' = Append(payments, amount)
    /\ UNCHANGED <<cart, round, waiting, network, backend, cashSession>>

RemovePayment(i) ==
    /\ payments' = RemoveAt(payments, i)
    /\ UNCHANGED <<cart, round, waiting, network, backend, cashSession>>

-----------------------------------------------------------------------------
(* Making the sale.                                                        *)

\* Mutant: the button is not disabled while a sale is being processed.
SubmitAgain ==
    /\ sent < MaxRequests
    /\ DOMAIN cart # {} /\ payments # << >>
    /\ Paid >= Net(cart)
    /\ shown # 0
    /\ sent' = sent + 1 /\ waiting' = sent'
    /\ requests' = requests \cup {[key |-> sent', round |-> round, cart |-> cart,
                                   paid |-> Paid, shown |-> Net(cart)]}
    /\ UNCHANGED <<cart, payments, round, answer, unanswered, backend, cashSession>>

\* handleSubmit and the button that calls it.
Submit ==
    /\ waiting = 0 /\ sent < MaxRequests
    /\ DOMAIN cart # {} /\ payments # << >>
    /\ Paid >= Net(cart)
    /\ shown # 0
    /\ sent' = sent + 1 /\ waiting' = sent'
    /\ requests' = requests \cup {[key |-> sent', round |-> round, cart |-> cart,
                                   paid |-> Paid, shown |-> Net(cart)]}
    /\ UNCHANGED <<cart, payments, round, answer, unanswered, backend, cashSession>>

\* create_counter_sale: an open session, its own prices, no line below zero, the
\* exact amount.
NetNow(r) == Sum([p \in DOMAIN r.cart |-> Total(r.cart[p], prices[p])])
Acceptable(r) ==
    /\ isOpen
    /\ \A p \in DOMAIN r.cart : Total(r.cart[p], prices[p]) >= 0
    /\ NetNow(r) = r.paid

CreateCounterSale(r) ==
    /\ sales' = sales \cup {[key |-> r.key, round |-> r.round, net |-> NetNow(r),
                             paid |-> r.paid, shown |-> r.shown]}
    /\ UNCHANGED prices

RefuseSale == UNCHANGED backend

\* What else the backend looks at (the stock of a line, its effective price, the
\* operator, lots) may refuse an acceptable sale: the transaction leaves nothing.
HandleSale(r) ==
    /\ \/ Acceptable(r) /\ CreateCounterSale(r)
          /\ answer' = IF r.key = waiting THEN "made" ELSE answer
       \/ RefuseSale
          /\ answer' = IF r.key = waiting THEN "refused" ELSE answer
    /\ requests' = requests \ {r}
    /\ UNCHANGED <<salePage, sent, unanswered, cashSession>>

\* Mutant: the answer's success is not looked at.
ConfirmAny ==
    /\ answer # "none"
    /\ cart' = << >> /\ payments' = << >>
    /\ round' = round + 1
    /\ waiting' = 0 /\ answer' = "none"
    /\ UNCHANGED <<sent, requests, unanswered, backend, cashSession>>

\* Items and payments go, those added while the request was on its way too.
Confirm ==
    /\ answer = "made"
    /\ cart' = << >> /\ payments' = << >>
    /\ round' = round + 1
    /\ waiting' = 0 /\ answer' = "none"
    /\ UNCHANGED <<sent, requests, unanswered, backend, cashSession>>

Refused ==
    /\ answer = "refused"
    /\ waiting' = 0 /\ answer' = "none"
    /\ UNCHANGED <<cart, payments, round, sent, requests, unanswered, backend,
                   cashSession>>

\* The cart stays, and with it the button: a second attempt has a new key.
GiveUp ==
    /\ waiting # 0
    /\ waiting' = 0 /\ answer' = "none"
    /\ unanswered' = unanswered \cup {round}
    /\ UNCHANGED <<cart, payments, round, sent, requests, backend, cashSession>>

\* Another user changes a price.
Reprice(p, x) ==
    /\ prices' = [prices EXCEPT ![p] = x]
    /\ UNCHANGED <<salePage, network, sales, cashSession>>

-----------------------------------------------------------------------------
(* The session.  Every answer overwrites what the page shows; several may   *)
(* be on their way, and they come in any order.                             *)

Current == IF isOpen THEN opened ELSE 0
Answer(s) == Len(reads) < MaxReads /\ reads' = Append(reads, s)

OpenSession ==
    /\ ~isOpen /\ opened < MaxSessions
    /\ opened' = opened + 1 /\ isOpen' = TRUE
    /\ Answer(opened')
    /\ UNCHANGED <<shown, salePage, network, backend>>

\* closeSession: of the session that the page shows.
CloseSession ==
    /\ shown # 0 /\ shown = Current
    /\ isOpen' = FALSE
    /\ Answer(0)
    /\ UNCHANGED <<opened, shown, salePage, network, backend>>

ClosedElsewhere ==
    /\ isOpen /\ isOpen' = FALSE
    /\ UNCHANGED <<opened, shown, reads, salePage, network, backend>>

GetCurrentSession ==
    /\ Answer(Current)
    /\ UNCHANGED <<opened, isOpen, shown, salePage, network, backend>>

ShowSession(i) ==
    /\ shown' = reads[i] /\ reads' = RemoveAt(reads, i)
    /\ UNCHANGED <<opened, isOpen, salePage, network, backend>>

LoseAnswer(i) ==
    /\ reads' = RemoveAt(reads, i)
    /\ UNCHANGED <<opened, isOpen, shown, salePage, network, backend>>

-----------------------------------------------------------------------------
Edit ==
    \/ \E p \in Products, price \in Found : Select(p, price)
    \/ \E p \in Products, n \in 0..MaxQuantity : Quantity(p, n)
    \/ \E p \in Products, d \in Discounts : Discount(p, d)
    \/ Clear
    \/ \E a \in 1..Net(cart) : AddPayment(a)
    \/ \E i \in DOMAIN payments : RemovePayment(i)

Sell ==
    \/ Submit \/ Confirm \/ Refused \/ GiveUp
    \/ \E r \in requests : HandleSale(r)
    \/ \E p \in Products, x \in Price : Reprice(p, x)

Session ==
    \/ OpenSession \/ CloseSession \/ ClosedElsewhere \/ GetCurrentSession
    \/ \E i \in DOMAIN reads : ShowSession(i) \/ LoseAnswer(i)

TillNext == Edit \/ Sell \/ Session
TillSpec == TillInit /\ [][TillNext]_tillVars

-----------------------------------------------------------------------------
\* The operator is told what happened, whatever late, lost and refused answers
\* lie between and whatever is edited meanwhile (Sale.tsx handleSubmit): each
\* sale that the page counts as confirmed was made, and none was made that the
\* page shows as refused, or not at all, unless it gave up the answer.
AsTold ==
    /\ \A n \in 0..round - 1 : \E s \in sales : s.round = n
    /\ \A s \in sales : \/ s.round < round \/ s.round \in unanswered
                        \/ s.round = round /\ s.key = waiting /\ answer = "made"

\* What is on the page is sold once, however often the button is pressed and
\* whatever else is edited meanwhile - unless the page gave up an answer.
OneSaleEach ==
    \A s, t \in sales : s.round = t.round => s = t \/ s.round \in unanswered

=============================================================================
