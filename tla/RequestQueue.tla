---------------------------- MODULE RequestQueue ----------------------------
(***************************************************************************)
(* The request queue and confirmation system of the v3 firmware.           *)
(*                                                                         *)
(* A web client asks for a broadcast (handleApiBroadcast).  One broadcast  *)
(* at a time is on the air: until its confirmation arrives, or             *)
(* CONFIRMATION_TIMEOUT_MS have passed, later ones wait in                 *)
(* pendingRequests, and leave it unsent when they are older than           *)
(* REQUEST_TIMEOUT_MS.                                                     *)
(*                                                                         *)
(* loop() is single threaded: a pass serves one web client, then calls     *)
(* CheckRequestTimeouts, then lets the radio deliver one packet.  pc is    *)
(* the place in that pass.  The loop of CheckRequestTimeouts over the      *)
(* queue is kept as a loop (pc = "scan"), because its direction matters:   *)
(* it removes entries from the array it is walking.                        *)
(*                                                                         *)
(* millis() is an unsigned counter that wraps (ClockMod stands for 2^32),  *)
(* so the code compares times by unsigned subtraction.  The true ages are  *)
(* ghosts, kept to say what those comparisons are meant to compute.        *)
(***************************************************************************)
EXTENDS Naturals, Sequences

CONSTANTS
    MAX_PENDING_REQUESTS,    \* capacity of pendingRequests
    CONFIRMATION_TIMEOUT,    \* CONFIRMATION_TIMEOUT_MS, in model time units
    REQUEST_TIMEOUT,         \* REQUEST_TIMEOUT_MS, in model time units
    ClockMod,                \* millis() counts modulo this number
    MaxPass,                 \* longest time between two CheckRequestTimeouts
    MaxRequests              \* bound: how many requests are ever accepted

ASSUME BoundsAssumption ==
    /\ MAX_PENDING_REQUESTS \in Nat \ {0}
    /\ CONFIRMATION_TIMEOUT \in Nat
    /\ REQUEST_TIMEOUT \in Nat
    /\ MaxPass \in Nat
    /\ MaxRequests \in Nat
    /\ ClockMod \in Nat

(* A pass of loop() is seconds long and the clock wraps after 49 days. *)
ASSUME ClockAssumption ==
    /\ ClockMod > REQUEST_TIMEOUT + 2 * MaxPass
    /\ ClockMod > CONFIRMATION_TIMEOUT + 2 * MaxPass

VARIABLES
    pc,                    \* where loop() is: "web", "timeouts", "scan", "radio"
    currentRequestState,   \* "IDLE" or "WAITING"; the other two are never stored
    pendingRequests,       \* the queue, oldest request first
    confirmationStartTime, \* millis() when the request in flight was sent
    currentRequestId,      \* id of the request last sent, 0 at start
    requestIdCounter,      \* ids handed out so far
    now,                   \* millis()
    currentTime,           \* local of CheckRequestTimeouts
    scan,                  \* its loop index i, plus one
    sinceCheck,            \* ghost: time since currentTime was last read
    waited,                \* ghost: true time since confirmationStartTime
    status                 \* ghost: what became of each request

vars == <<pc, currentRequestState, pendingRequests, confirmationStartTime,
          currentRequestId, requestIdCounter, now, currentTime, scan,
          sinceCheck, waited, status>>

Ids == 1 .. MaxRequests
Times == 0 .. (ClockMod - 1)

(* What a broadcast needs on the air: one packet, several parts, or more   *)
(* parts than MAX_MULTIPART_PARTS, which SendMultipartBroadcast refuses.   *)
Kinds == {"single", "multipart", "oversize"}

(* In flight: "sent" is on the air, "refused" was dropped by the sender.   *)
InFlight == {"sent", "refused"}
Statuses == InFlight \cup {"none", "queued", "confirmed", "timedout", "expired"}

Requests == [id : Ids, kind : Kinds, timestamp : Times, age : Nat]

(* Mutant: the difference taken without the unsigned wrap. *)
ElapsedSigned(a, b) == IF a >= b THEN a - b ELSE b - a

(* a - b of two unsigned long values. *)
Elapsed(a, b) == IF a >= b THEN a - b ELSE a + ClockMod - b

(* millis() d time units after it read t. *)
Later(t, d) == IF t + d >= ClockMod THEN t + d - ClockMod ELSE t + d

Aged(q, d) == [k \in DOMAIN q |-> [q[k] EXCEPT !.age = @ + d]]

(* Mutant: the shift starts one entry too late and drops the next request. *)
WithoutNext(q, k) ==
    [j \in 1 .. (Len(q) - 1) |-> IF j <= k THEN q[j] ELSE q[j + 1]]

(* Removal of entry k by shifting the later ones down. *)
Without(q, k) ==
    [j \in 1 .. (Len(q) - 1) |-> IF j < k THEN q[j] ELSE q[j + 1]]

(* How long the call that sends a request may block: parts are separated   *)
(* by delay(500), everything else returns at once.                         *)
SendTimes(q, limit) ==
    IF q # <<>> /\ Head(q).kind = "multipart" THEN 0 .. limit ELSE {0}
-----------------------------------------------------------------------------
Init ==
    /\ pc = "web"
    /\ currentRequestState = "IDLE"
    /\ pendingRequests = <<>>
    /\ confirmationStartTime = 0
    /\ currentRequestId = 0
    /\ requestIdCounter = 0
    /\ now \in Times
    /\ currentTime = now
    /\ scan = 0
    /\ sinceCheck = 0
    /\ waited = 0
    /\ status = [i \in Ids |-> "none"]

QueueHasRoom == Len(pendingRequests) < MAX_PENDING_REQUESTS

Busy == currentRequestState # "IDLE"

(* The Process*Request functions: send, then wait for the confirmation.    *)
(* requiresConfirmation is TRUE in every request that is ever queued.      *)
ProcessRequest(req, d, st) ==
    /\ currentRequestState' = "WAITING"
    /\ confirmationStartTime' = Later(now, d)
    /\ waited' = 0
    /\ status' = [st EXCEPT ![req.id] =
                     IF req.kind = "oversize" THEN "refused" ELSE "sent"]

(* Called with the queue q and currentRequestState = IDLE, which each of   *)
(* the three callers has just stored or tested; st is status so far.       *)
ProcessNextQueuedRequest(q, d, st) ==
    IF q = <<>>
    THEN /\ currentRequestState' = "IDLE"
         /\ pendingRequests' = q
         /\ status' = st
         /\ waited' = 0
         /\ UNCHANGED <<confirmationStartTime, currentRequestId>>
    ELSE /\ currentRequestId' = Head(q).id
         /\ ProcessRequest(Head(q), d, st)
         /\ pendingRequests' = Aged(Tail(q), d)

NewRequest(kind) ==
    [id |-> requestIdCounter + 1, kind |-> kind, timestamp |-> now, age |-> 0]

QueueRequest(kind) == Append(pendingRequests, NewRequest(kind))

(* The idle branch queues the request and processes the head of the queue. *)
BroadcastNow(kind) ==
    /\ pc = "web"
    /\ ~Busy
    /\ QueueHasRoom
    /\ requestIdCounter < MaxRequests
    /\ requestIdCounter' = requestIdCounter + 1
    /\ \E d \in SendTimes(QueueRequest(kind), MaxPass - sinceCheck) :
        /\ ProcessNextQueuedRequest(QueueRequest(kind), d,
               [status EXCEPT ![requestIdCounter + 1] = "queued"])
        /\ now' = Later(now, d)
        /\ sinceCheck' = sinceCheck + d
    /\ pc' = "timeouts"
    /\ UNCHANGED <<currentTime, scan>>

(* The busy branch only queues it. *)
BroadcastQueued(kind) ==
    /\ pc = "web"
    /\ Busy
    /\ QueueHasRoom
    /\ requestIdCounter < MaxRequests
    /\ requestIdCounter' = requestIdCounter + 1
    /\ pendingRequests' = QueueRequest(kind)
    /\ status' = [status EXCEPT ![requestIdCounter + 1] = "queued"]
    /\ pc' = "timeouts"
    /\ UNCHANGED <<currentRequestState, confirmationStartTime, currentRequestId,
                   now, currentTime, scan, sinceCheck, waited>>

(* A full queue turns the client away, and so does a request without a     *)
(* message; no client, or a client of another page, is the same step here. *)
NoBroadcast ==
    /\ pc = "web"
    /\ pc' = "timeouts"
    /\ UNCHANGED <<currentRequestState, pendingRequests, confirmationStartTime,
                   currentRequestId, requestIdCounter, now, currentTime, scan,
                   sinceCheck, waited, status>>

handleApiBroadcast ==
    \/ \E kind \in Kinds : BroadcastNow(kind) \/ BroadcastQueued(kind)
    \/ NoBroadcast

(* Mutant: nobody waits, so the confirmation may. *)
ConfirmationExpiredIfNeeded ==
    /\ currentRequestState = "WAITING"
    /\ pendingRequests # <<>>
    /\ Elapsed(now, confirmationStartTime) > CONFIRMATION_TIMEOUT

(* CheckRequestTimeouts, first half: give up on the confirmation.          *)
ConfirmationExpired ==
    /\ currentRequestState = "WAITING"
    /\ Elapsed(now, confirmationStartTime) > CONFIRMATION_TIMEOUT

(* Mutant: an expired wait is started again instead of given up. *)
ConfirmationWaitRestarted ==
    /\ pc = "timeouts"
    /\ ConfirmationExpired
    /\ confirmationStartTime' = now
    /\ waited' = 0
    /\ currentTime' = now
    /\ sinceCheck' = 0
    /\ scan' = Len(pendingRequests)
    /\ pc' = "scan"
    /\ UNCHANGED <<currentRequestState, pendingRequests, currentRequestId,
                   requestIdCounter, now, status>>

ConfirmationTimeout ==
    /\ pc = "timeouts"
    /\ ConfirmationExpired
    /\ \E d \in SendTimes(pendingRequests, MaxPass) :
        /\ ProcessNextQueuedRequest(pendingRequests, d,
               [status EXCEPT ![currentRequestId] = "timedout"])
        /\ now' = Later(now, d)
        /\ sinceCheck' = d
    /\ currentTime' = now
    /\ scan' = Len(pendingRequests')
    /\ pc' = "scan"
    /\ UNCHANGED <<requestIdCounter>>

NoConfirmationTimeout ==
    /\ pc = "timeouts"
    /\ ~ConfirmationExpired
    /\ currentTime' = now
    /\ sinceCheck' = 0
    /\ scan' = Len(pendingRequests)
    /\ pc' = "scan"
    /\ UNCHANGED <<currentRequestState, pendingRequests, confirmationStartTime,
                   currentRequestId, requestIdCounter, now, waited, status>>

(* Mutant: a request as old as the timeout counts as older. *)
RequestExpiredEarly(k) ==
    Elapsed(currentTime, pendingRequests[k].timestamp) >= REQUEST_TIMEOUT

(* CheckRequestTimeouts, second half: one turn of the loop that walks the  *)
(* queue from its end and removes what is too old.                         *)
RequestExpired(k) ==
    Elapsed(currentTime, pendingRequests[k].timestamp) > REQUEST_TIMEOUT

ScanRemove ==
    /\ pc = "scan"
    /\ scan > 0
    /\ RequestExpired(scan)
    /\ status' = [status EXCEPT ![pendingRequests[scan].id] = "expired"]
    /\ pendingRequests' = Without(pendingRequests, scan)
    /\ scan' = scan - 1
    /\ UNCHANGED <<pc, currentRequestState, confirmationStartTime,
                   currentRequestId, requestIdCounter, now, currentTime,
                   sinceCheck, waited>>

(* Mutant: the walk does not move on from an entry it keeps. *)
ScanKeepStuck ==
    /\ pc = "scan"
    /\ scan > 0
    /\ ~RequestExpired(scan)
    /\ UNCHANGED vars

ScanKeep ==
    /\ pc = "scan"
    /\ scan > 0
    /\ ~RequestExpired(scan)
    /\ scan' = scan - 1
    /\ UNCHANGED <<pc, currentRequestState, pendingRequests,
                   confirmationStartTime, currentRequestId, requestIdCounter,
                   now, currentTime, sinceCheck, waited, status>>

ScanDone ==
    /\ pc = "scan"
    /\ scan = 0
    /\ pc' = "radio"
    /\ UNCHANGED <<currentRequestState, pendingRequests, confirmationStartTime,
                   currentRequestId, requestIdCounter, now, currentTime, scan,
                   sinceCheck, waited, status>>

CheckRequestTimeouts ==
    \/ ConfirmationTimeout
    \/ NoConfirmationTimeout
    \/ ScanRemove
    \/ ScanKeep
    \/ ScanDone

(* Mutant: a response is taken for an answer although none is awaited. *)
HandleResponseUnguarded(i) ==
    /\ pc = "radio"
    /\ status[i] \in {"sent", "confirmed", "timedout"}
    /\ \E d \in SendTimes(pendingRequests, MaxPass - sinceCheck) :
        /\ ProcessNextQueuedRequest(pendingRequests, d,
               [status EXCEPT ![currentRequestId] = "confirmed"])
        /\ now' = Later(now, d)
        /\ sinceCheck' = sinceCheck + d
    /\ pc' = "web"
    /\ UNCHANGED <<requestIdCounter, currentTime, scan>>

(* The radio hands over a DOGECOIN_RESPONSE that answers broadcast i.  It  *)
(* names no request, so the code takes it for the request in flight.       *)
HandleConfirmationReceived(i) ==
    /\ pc = "radio"
    /\ status[i] \in {"sent", "confirmed", "timedout"}
    /\ currentRequestState = "WAITING"
    /\ \E d \in SendTimes(pendingRequests, MaxPass - sinceCheck) :
        /\ ProcessNextQueuedRequest(pendingRequests, d,
               [status EXCEPT ![currentRequestId] = "confirmed"])
        /\ now' = Later(now, d)
        /\ sinceCheck' = sinceCheck + d
    /\ pc' = "web"
    /\ UNCHANGED <<requestIdCounter, currentTime, scan>>

(* No response, or one that comes when nothing is in flight: ignored.      *)
NoConfirmation ==
    /\ pc = "radio"
    /\ pc' = "web"
    /\ UNCHANGED <<currentRequestState, pendingRequests, confirmationStartTime,
                   currentRequestId, requestIdCounter, now, currentTime, scan,
                   sinceCheck, waited, status>>

(* Time passes while loop() is busy with anything else.                    *)
Tick ==
    /\ pc # "scan"
    /\ sinceCheck < MaxPass
    /\ now' = Later(now, 1)
    /\ sinceCheck' = sinceCheck + 1
    /\ pendingRequests' = Aged(pendingRequests, 1)
    /\ waited' = IF currentRequestState = "WAITING" THEN waited + 1 ELSE 0
    /\ UNCHANGED <<pc, currentRequestState, confirmationStartTime,
                   currentRequestId, requestIdCounter, currentTime, scan,
                   status>>

Next ==
    \/ handleApiBroadcast
    \/ CheckRequestTimeouts
    \/ \E i \in Ids : HandleConfirmationReceived(i)
    \/ NoConfirmation
    \/ Tick

Spec == Init /\ [][Next]_vars

(* loop() never stops and millis() never stops. *)
FairSpec ==
    /\ Spec
    /\ WF_vars(handleApiBroadcast)
    /\ WF_vars(CheckRequestTimeouts)
    /\ WF_vars(NoConfirmation \/ \E i \in Ids : HandleConfirmationReceived(i))
    /\ SF_vars(Tick)
-----------------------------------------------------------------------------
PendingIds == {pendingRequests[k].id : k \in DOMAIN pendingRequests}
Left == {"sent", "refused", "confirmed", "timedout"}

(* The variables keep their types, and the queue never grows past the      *)
(* array pendingRequests[MAX_PENDING_REQUESTS].                            *)
TypeOK ==
    /\ pc \in {"web", "timeouts", "scan", "radio"}
    /\ currentRequestState \in {"IDLE", "WAITING"}
    /\ pendingRequests \in Seq(Requests)
    /\ Len(pendingRequests) <= MAX_PENDING_REQUESTS
    /\ confirmationStartTime \in Times
    /\ currentRequestId \in 0 .. MaxRequests
    /\ requestIdCounter \in 0 .. MaxRequests
    /\ now \in Times
    /\ currentTime \in Times
    /\ scan \in 0 .. MAX_PENDING_REQUESTS
    /\ sinceCheck \in 0 .. MaxPass
    /\ waited \in Nat
    /\ status \in [Ids -> Statuses]

(* Whenever the state machine is idle nothing waits: the idle branch of    *)
(* handleApiBroadcast may send the head of the queue and tell its client   *)
(* "Broadcast sent to all devices", for the head is that client's request. *)
IdleMeansDrained == currentRequestState = "IDLE" => pendingRequests = <<>>

(* At most one request is in flight, the one currentRequestId names, and   *)
(* only while the state is WAITING: the queue exists to ensure it.         *)
OneInFlight ==
    \A i \in Ids :
        status[i] \in InFlight <=>
            currentRequestState = "WAITING" /\ i = currentRequestId

(* Requests are processed in the order they were accepted: none overtakes  *)
(* one that is still queued.                                               *)
NoOvertaking ==
    \A i, j \in Ids : i < j /\ status[i] = "queued" => status[j] \notin Left

(* The array holds exactly the accepted requests that were neither sent    *)
(* nor expired, each once and in order of arrival: shifting it down loses  *)
(* and duplicates nothing.                                                 *)
QueueIsExact ==
    /\ PendingIds = {i \in Ids : status[i] = "queued"}
    /\ \A j, k \in DOMAIN pendingRequests :
           j < k => pendingRequests[j].id < pendingRequests[k].id

(* Ids are handed out in order, and currentRequestId was handed out.       *)
IdsInOrder ==
    /\ \A i \in Ids : status[i] = "none" <=> i > requestIdCounter
    /\ currentRequestId <= requestIdCounter
    /\ currentRequestState = "WAITING" => currentRequestId \in Ids

(* The unsigned differences that CheckRequestTimeouts computes are the     *)
(* true waiting times, and no entry outlives its timeout by more than the  *)
(* time between two checks: the wrap of millis() cannot make a stale       *)
(* request look young again.                                               *)
AgesExact ==
    /\ \A k \in DOMAIN pendingRequests :
        LET r == pendingRequests[k]
            late == IF pc = "scan" /\ k <= scan THEN MaxPass ELSE 0
        IN  /\ r.age <= REQUEST_TIMEOUT + sinceCheck + late
            /\ Elapsed(now, r.timestamp) = r.age
            /\ pc = "scan" =>
                   /\ sinceCheck <= r.age
                   /\ Elapsed(currentTime, r.timestamp) = r.age - sinceCheck
    /\ pc = "scan" => scan <= Len(pendingRequests)
    /\ currentRequestState = "WAITING" =>
           /\ waited <= CONFIRMATION_TIMEOUT + sinceCheck
           /\ Elapsed(now, confirmationStartTime) = waited

(* CheckRequestTimeouts, called once in a pass: no queued request has ever *)
(* waited longer than REQUEST_TIMEOUT_MS by more than the pass that found  *)
(* it too young and the one that removes it, and no confirmation is waited *)
(* for longer than CONFIRMATION_TIMEOUT_MS and a pass, whatever millis()   *)
(* reads: a wrap makes nothing look young again.                           *)
WaitsAreBounded ==
    /\ \A k \in DOMAIN pendingRequests :
           pendingRequests[k].age <= REQUEST_TIMEOUT + 2 * MaxPass
    /\ currentRequestState = "WAITING" => waited <= CONFIRMATION_TIMEOUT + MaxPass

(* The inductive invariant of the proofs.                                  *)
IInv ==
    /\ TypeOK
    /\ IdleMeansDrained
    /\ OneInFlight
    /\ NoOvertaking
    /\ QueueIsExact
    /\ IdsInOrder
    /\ AgesExact

(* A request is dropped from the queue only when it has really waited      *)
(* longer than REQUEST_TIMEOUT_MS, across a wrap of millis() too.          *)
NoEarlyExpiry ==
    [][\A k \in DOMAIN pendingRequests :
        status'[pendingRequests[k].id] = "expired"
            => pendingRequests[k].age > REQUEST_TIMEOUT]_vars

(* The firmware gives up on a confirmation only when it has really waited  *)
(* longer than CONFIRMATION_TIMEOUT_MS, across a wrap of millis() too.     *)
NoEarlyTimeout ==
    [][\A i \in Ids :
        status[i] \in InFlight /\ status'[i] = "timedout"
            => waited > CONFIRMATION_TIMEOUT]_vars

(* The array, the clock and the pass of loop() implement turns: what the   *)
(* firmware does to the queue is, step by step, what BroadcastTurns allows. *)
Landed == {"confirmed", "timedout", "expired"}
Outcomes == [i \in Ids |-> IF status[i] \in Landed THEN status[i] ELSE "none"]
Flying == IF currentRequestState = "WAITING" THEN currentRequestId ELSE 0

BT == INSTANCE BroadcastTurns WITH
          Capacity <- MAX_PENDING_REQUESTS, accepted <- requestIdCounter,
          waiting <- PendingIds, flight <- Flying, outcome <- Outcomes

ImplementsTurns == BT!Spec

(* No request waits forever: each one queued is sent or expires.           *)
QueuedLeaves == \A i \in Ids : status[i] = "queued" ~> status[i] # "queued"

(* The state machine never hangs waiting for a lost confirmation.          *)
FlightEnds == \A i \in Ids : status[i] \in InFlight ~> status[i] \notin InFlight
=============================================================================
