------------------------------- MODULE StockBook -------------------------------
(***************************************************************************)
(* What the stock services promise: a book of operations.  Each key has at *)
(* most one operation, which changed the stock once, when it was stored;   *)
(* an operation can be undone once, by a reversal that is an operation of  *)
(* its own and takes back exactly what it did.  Nothing is rewritten.      *)
(***************************************************************************)
EXTENDS Integers

CONSTANTS
    Cells,      \* where stock is
    Keys,       \* what identifies an operation
    Postings,   \* changes of the stock that may be posted
    None

VARIABLES status, command, moved, onHand

bookVars == <<status, command, moved, onHand>>

BookInit ==
    /\ status = [k \in Keys |-> "none"]
    /\ command = [k \in Keys |-> [delta |-> [c \in Cells |-> 0], of |-> None]]
    /\ moved = [k \in Keys |-> [c \in Cells |-> 0]]
    /\ onHand = [c \in Cells |-> 0]

Record(k, delta, of) ==
    /\ moved' = [moved EXCEPT ![k] = delta]
    /\ onHand' = [c \in Cells |-> onHand[c] + delta[c]]
    /\ \E asked \in Postings : command' = [command EXCEPT ![k] = [delta |-> asked, of |-> of]]

Post(k, delta) ==
    /\ status[k] = "none"
    /\ status' = [status EXCEPT ![k] = "confirmed"]
    /\ Record(k, delta, None)
    /\ command'[k].delta = delta

Undo(k, of) ==
    /\ status[k] = "none"
    /\ status[of] = "confirmed"
    /\ status' = [status EXCEPT ![k] = "confirmed", ![of] = "reversed"]
    /\ Record(k, [c \in Cells |-> -moved[of][c]], of)

BookNext ==
    \/ \E k \in Keys, delta \in Postings : Post(k, delta)
    \/ \E k, of \in Keys : Undo(k, of)

BookSpec == BookInit /\ [][BookNext]_bookVars
=============================================================================
