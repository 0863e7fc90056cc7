------------------------------- MODULE OrderBook -------------------------------
(***************************************************************************)
(* What placing an order promises, whatever the statements, locks and       *)
(* failures below: a request either places an order of its own, unless one  *)
(* is already placed under its key, or is answered with the order placed    *)
(* under its key.  Orders stay, answers stay, nothing is answered before it *)
(* is placed.                                                               *)
(***************************************************************************)
CONSTANTS Requests, None

VARIABLES
    key,        \* the idempotency key of each request, or None
    placed,     \* the requests whose order exists
    answer      \* the order each request is answered with, or None

vars == <<key, placed, answer>>

Place(r) ==
    /\ r \notin placed
    /\ answer[r] = None
    /\ key[r] # None => \A s \in placed : key[s] # key[r]
    /\ placed' = placed \cup {r}
    /\ answer' = [answer EXCEPT ![r] = r]
    /\ UNCHANGED key

Replay(r) ==
    /\ answer[r] = None
    /\ key[r] # None
    /\ \E s \in placed : key[s] = key[r] /\ answer' = [answer EXCEPT ![r] = s]
    /\ UNCHANGED <<key, placed>>

Init ==
    /\ placed = {}
    /\ answer = [r \in Requests |-> None]

Next == \E r \in Requests : Place(r) \/ Replay(r)

Spec == Init /\ [][Next]_vars
=============================================================================
