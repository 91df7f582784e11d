--------------------------- MODULE BroadcastTurns ----------------------------
(***************************************************************************)
(* What the request queue promises, without the array, the clock and the   *)
(* loop it is built from: broadcasts take turns.  One is in flight at a    *)
(* time; those accepted meanwhile wait, at most Capacity of them; when the *)
(* flight ends the oldest that waits takes off in the same step, so that   *)
(* nothing waits while nothing flies; one that waits may be given up.      *)
(* Requests are numbered as they are accepted.                             *)
(***************************************************************************)
EXTENDS Naturals, FiniteSets

CONSTANTS
    MaxRequests,   \* how many requests are ever accepted
    Capacity       \* how many may wait

VARIABLES
    accepted,      \* requests accepted so far
    waiting,       \* those that wait
    flight,        \* the one in flight, or Nobody
    outcome        \* how each request ended, "none" before

turnVars == <<accepted, waiting, flight, outcome>>

Nobody == 0

Init ==
    /\ accepted = 0
    /\ waiting = {}
    /\ flight = Nobody
    /\ outcome = [i \in 1 .. MaxRequests |-> "none"]

(* The oldest of S takes off, the others wait on. *)
NextTurn(S) ==
    \/ S = {} /\ waiting' = {} /\ flight' = Nobody
    \/ \E i \in S :
          /\ \A j \in S : i <= j
          /\ flight' = i
          /\ waiting' = S \ {i}

Accept ==
    /\ accepted < MaxRequests
    /\ accepted' = accepted + 1
    /\ \/ flight = Nobody /\ NextTurn(waiting \cup {accepted'})
       \/ /\ flight # Nobody
          /\ Cardinality(waiting) < Capacity
          /\ waiting' = waiting \cup {accepted'}
          /\ UNCHANGED flight
    /\ UNCHANGED outcome

(* The flight is confirmed, or nobody waits for its confirmation any more. *)
Land(how) ==
    /\ flight # Nobody
    /\ outcome' = [outcome EXCEPT ![flight] = how]
    /\ NextTurn(waiting)
    /\ UNCHANGED accepted

GiveUp(i) ==
    /\ i \in waiting
    /\ waiting' = waiting \ {i}
    /\ outcome' = [outcome EXCEPT ![i] = "expired"]
    /\ UNCHANGED <<accepted, flight>>

Next ==
    \/ Accept
    \/ \E how \in {"confirmed", "timedout"} : Land(how)
    \/ \E i \in waiting : GiveUp(i)

Spec == Init /\ [][Next]_turnVars
=============================================================================
