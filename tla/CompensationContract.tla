-------------------------- MODULE CompensationContract --------------------------
(***************************************************************************)
(* What the sales service promises about one sale after the fact, without  *)
(* payment methods, keys, sessions, locks or stock: a sale is worth a      *)
(* total and a quantity of goods; money goes back in parts and never       *)
(* exceeds the total, goods come back in parts and never exceed what was   *)
(* sold, and a cancellation gives back everything that is still out, only  *)
(* while no goods have come back, and ends the story.                      *)
(***************************************************************************)
EXTENDS Integers

CONSTANTS Sales, Lines

VARIABLES state, total, goods, paidBack, takenBack

contractVars == <<state, total, goods, paidBack, takenBack>>

NoGoods == [l \in Lines |-> 0]

Init ==
    /\ state = [s \in Sales |-> "none"]
    /\ total = [s \in Sales |-> 0]
    /\ goods = [s \in Sales |-> NoGoods]
    /\ paidBack = [s \in Sales |-> 0]
    /\ takenBack = [s \in Sales |-> NoGoods]

Confirm(s) ==
    /\ state[s] = "none"
    /\ state' = [state EXCEPT ![s] = "confirmed"]
    /\ total'[s] \in Nat
    /\ total' = [total EXCEPT ![s] = total'[s]]
    /\ \A l \in Lines : goods'[s][l] \in Nat
    /\ goods' = [goods EXCEPT ![s] = goods'[s]]
    /\ UNCHANGED <<paidBack, takenBack>>

PayBack(s) ==
    /\ state[s] = "confirmed"
    /\ paidBack'[s] > paidBack[s] /\ paidBack'[s] <= total[s]
    /\ paidBack' = [paidBack EXCEPT ![s] = paidBack'[s]]
    /\ UNCHANGED <<state, total, goods, takenBack>>

TakeBack(s) ==
    /\ state[s] = "confirmed"
    /\ \A l \in Lines : takenBack[s][l] <= takenBack'[s][l] /\ takenBack'[s][l] <= goods[s][l]
    /\ takenBack' = [takenBack EXCEPT ![s] = takenBack'[s]]
    /\ UNCHANGED <<state, total, goods, paidBack>>

Cancel(s) ==
    /\ state[s] = "confirmed"
    /\ takenBack[s] = NoGoods
    /\ state' = [state EXCEPT ![s] = "cancelled"]
    /\ paidBack' = [paidBack EXCEPT ![s] = total[s]]
    /\ takenBack' = [takenBack EXCEPT ![s] = goods[s]]
    /\ UNCHANGED <<total, goods>>

Next == \E s \in Sales : Confirm(s) \/ PayBack(s) \/ TakeBack(s) \/ Cancel(s)

Spec == Init /\ [][Next]_contractVars
=============================================================================
