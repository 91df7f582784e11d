------------------------ MODULE RequestQueueProofs --------------------------
(***************************************************************************)
(* Proofs about RequestQueue, for every capacity, every pair of timeouts   *)
(* and every clock width that ClockAssumption admits.                      *)
(***************************************************************************)
EXTENDS RequestQueue, SequenceTheorems, FiniteSets, FiniteSetTheorems, TLAPS

(* A clock reading stays a clock reading.                                  *)
LEMMA LaterType ==
    ASSUME NEW t \in Times, NEW d \in Nat, d < ClockMod
    PROVE  Later(t, d) \in Times
BY BoundsAssumption DEF Times, Later

(* Unsigned subtraction survives the wrap as long as the true difference   *)
(* is smaller than the modulus.                                            *)
LEMMA ElapsedLater ==
    ASSUME NEW t \in Times, NEW s \in Times, NEW d \in Nat,
           Elapsed(t, s) + d < ClockMod
    PROVE  Elapsed(Later(t, d), s) = Elapsed(t, s) + d
BY BoundsAssumption DEF Times, Later, Elapsed

(* A reading is zero away from itself. *)
LEMMA ElapsedSelf ==
    ASSUME NEW t \in Times
    PROVE  Elapsed(t, t) = 0
BY BoundsAssumption DEF Times, Elapsed

(* The fields of an entry of a queue.                                      *)
LEMMA EntryType ==
    ASSUME NEW q \in Seq(Requests), NEW k \in DOMAIN q
    PROVE  /\ q[k] \in Requests
           /\ q[k].id \in Ids
           /\ q[k].timestamp \in Times
           /\ q[k].age \in Nat
<1>1. q[k] \in Requests
    BY LenProperties, ElementOfSeq
<1>2. QED
    BY <1>1 DEF Requests

(* Aging a queue changes the ages and nothing else.                        *)
LEMMA AgedProps ==
    ASSUME NEW q \in Seq(Requests), NEW d \in Nat
    PROVE  /\ Aged(q, d) \in Seq(Requests)
           /\ Len(Aged(q, d)) = Len(q)
           /\ DOMAIN Aged(q, d) = DOMAIN q
           /\ \A k \in DOMAIN q :
                /\ Aged(q, d)[k].id = q[k].id
                /\ Aged(q, d)[k].timestamp = q[k].timestamp
                /\ Aged(q, d)[k].age = q[k].age + d
<1> DEFINE a == Aged(q, d)
<1>1. DOMAIN q = 1 .. Len(q) /\ Len(q) \in Nat
    BY LenProperties
<1>2. ASSUME NEW k \in DOMAIN q
      PROVE  /\ a[k] \in Requests
             /\ a[k].id = q[k].id
             /\ a[k].timestamp = q[k].timestamp
             /\ a[k].age = q[k].age + d
    <2>1. q[k] \in Requests
        BY <1>1, ElementOfSeq
    <2>2. a[k] = [q[k] EXCEPT !.age = @ + d]
        BY DEF Aged
    <2>3. QED
        BY <2>1, <2>2 DEF Requests
<1>3. a = [k \in 1 .. Len(q) |-> a[k]]
    BY <1>1 DEF Aged
<1>4. a \in Seq(Requests) /\ Len(a) = Len(q)
    BY <1>1, <1>2, <1>3, IsASeq
<1>5. DOMAIN a = DOMAIN q
    BY DEF Aged
<1>6. QED
    BY <1>2, <1>4, <1>5

(* Removing entry k keeps the others, in their order.                      *)
LEMMA WithoutProps ==
    ASSUME NEW q \in Seq(Requests), NEW k \in 1 .. Len(q)
    PROVE  /\ Without(q, k) \in Seq(Requests)
           /\ Len(Without(q, k)) = Len(q) - 1
           /\ DOMAIN Without(q, k) = 1 .. (Len(q) - 1)
           /\ \A j \in 1 .. (Len(q) - 1) :
                Without(q, k)[j] = IF j < k THEN q[j] ELSE q[j + 1]
BY DEF Without

(* What the three callers of ProcessNextQueuedRequest establish: the queue *)
(* q holds exactly the requests st calls queued, in order, nothing is in   *)
(* flight and nothing queued was overtaken.                                *)
Dispatchable(q, st) ==
    /\ q \in Seq(Requests)
    /\ st \in [Ids -> Statuses]
    /\ {q[k].id : k \in DOMAIN q} = {i \in Ids : st[i] = "queued"}
    /\ \A j, k \in DOMAIN q : j < k => q[j].id < q[k].id
    /\ \A i \in Ids : st[i] \notin InFlight
    /\ \A i, j \in Ids : i < j /\ st[i] = "queued" => st[j] \notin Left

(* Popping the head of a queue. *)
LEMMA TailProps ==
    ASSUME NEW q \in Seq(Requests), q # <<>>
    PROVE  /\ Head(q) = q[1]
           /\ Head(q) \in Requests
           /\ Tail(q) \in Seq(Requests)
           /\ Len(q) \in Nat \ {0}
           /\ Len(Tail(q)) = Len(q) - 1
           /\ DOMAIN Tail(q) = 1 .. (Len(q) - 1)
           /\ \A k \in 1 .. (Len(q) - 1) : Tail(q)[k] = q[k + 1]
<1>1. Len(q) \in Nat \ {0}
    BY EmptySeq
<1>2. /\ Head(q) \in Requests
      /\ Tail(q) \in Seq(Requests)
      /\ Len(Tail(q)) = Len(q) - 1
      /\ \A i \in 1 .. Len(Tail(q)) : Tail(q)[i] = q[i + 1]
    BY HeadTailProperties
<1>3. DOMAIN Tail(q) = 1 .. Len(Tail(q))
    BY <1>2, LenProperties
<1>4. Head(q) = q[1]
    BY <1>1
<1>5. QED
    BY <1>1, <1>2, <1>3, <1>4

(* Sending the head of the queue keeps everything the invariant says about *)
(* the queue, the state and the status of the requests.                    *)
LEMMA DispatchKeepsOrder ==
    ASSUME NEW q, NEW st, NEW d \in Nat,
           Dispatchable(q, st),
           ProcessNextQueuedRequest(q, d, st)
    PROVE  /\ pendingRequests' \in Seq(Requests)
           /\ Len(pendingRequests') <= Len(q)
           /\ currentRequestState' \in {"IDLE", "WAITING"}
           /\ status' \in [Ids -> Statuses]
           /\ waited' = 0
           /\ IdleMeansDrained'
           /\ OneInFlight'
           /\ NoOvertaking'
           /\ QueueIsExact'
           /\ \A i \in Ids : status'[i] = "none" <=> st[i] = "none"
           /\ currentRequestState' = "WAITING" =>
                  currentRequestId' \in Ids /\ st[currentRequestId'] = "queued"
<1> USE DEF Dispatchable
<1>1. CASE q = <<>>
    BY <1>1, EmptySeq DEF ProcessNextQueuedRequest, IdleMeansDrained, OneInFlight,
       NoOvertaking, QueueIsExact, PendingIds
<1>2. CASE q # <<>>
    <2> DEFINE h == Head(q)
               v == IF h.kind = "oversize" THEN "refused" ELSE "sent"
    <2>1. /\ h = q[1] /\ h \in Requests
          /\ Tail(q) \in Seq(Requests)
          /\ Len(q) \in Nat \ {0}
          /\ Len(Tail(q)) = Len(q) - 1
          /\ DOMAIN Tail(q) = 1 .. (Len(q) - 1)
          /\ \A k \in 1 .. (Len(q) - 1) : Tail(q)[k] = q[k + 1]
        BY <1>2, TailProps
    <2>2. DOMAIN q = 1 .. Len(q)
        BY LenProperties
    <2>3. /\ currentRequestState' = "WAITING"
          /\ currentRequestId' = h.id
          /\ waited' = 0
          /\ status' = [st EXCEPT ![h.id] = v]
          /\ pendingRequests' = Aged(Tail(q), d)
        BY <1>2 DEF ProcessNextQueuedRequest, ProcessRequest
    <2>4. h.id \in Ids /\ st[h.id] = "queued"
        BY <2>1, <2>2 DEF Requests
    <2>5. v \in InFlight /\ v \in Statuses /\ v \in Left
        BY DEF InFlight, Statuses, Left
    <2>6. /\ pendingRequests' \in Seq(Requests)
          /\ Len(pendingRequests') = Len(q) - 1
          /\ DOMAIN pendingRequests' = 1 .. (Len(q) - 1)
          /\ \A k \in 1 .. (Len(q) - 1) : pendingRequests'[k].id = q[k + 1].id
        <3> DEFINE t == Tail(q)
        <3>1. /\ Aged(t, d) \in Seq(Requests)
              /\ Len(Aged(t, d)) = Len(t)
              /\ DOMAIN Aged(t, d) = DOMAIN t
              /\ \A k \in DOMAIN t : Aged(t, d)[k].id = t[k].id
            BY <2>1, AgedProps
        <3> HIDE DEF t
        <3>2. QED
            BY <3>1, <2>1, <2>3 DEF t
    <2>7. \A i \in Ids : status'[i] = IF i = h.id THEN v ELSE st[i]
        BY <2>3
    <2>8. OneInFlight'
        BY <2>3, <2>4, <2>5, <2>7 DEF OneInFlight
    <2>9. \A i \in Ids : st[i] = "queued" => h.id <= i
        <3> SUFFICES ASSUME NEW i \in Ids, st[i] = "queued"
                     PROVE  h.id <= i
            OBVIOUS
        <3>1. PICK k \in DOMAIN q : q[k].id = i
            OBVIOUS
        <3>2. QED
            BY <3>1, <2>1, <2>2, <2>4 DEF Ids
    <2>10. NoOvertaking'
        <3> SUFFICES ASSUME NEW i \in Ids, NEW j \in Ids, i < j,
                            status'[i] = "queued"
                     PROVE  status'[j] \notin Left
            BY DEF NoOvertaking
        <3>1. i # h.id /\ st[i] = "queued"
            BY <2>7, <2>5 DEF InFlight
        <3>2. j # h.id
            BY <3>1, <2>9, <2>4 DEF Ids
        <3>3. QED
            BY <3>1, <3>2, <2>7
    <2>11. PendingIds' = {i \in Ids : status'[i] = "queued"}
        <3>1. ASSUME NEW i \in PendingIds'
              PROVE  i \in Ids /\ status'[i] = "queued"
            <4>1. PICK k \in 1 .. (Len(q) - 1) : i = q[k + 1].id
                BY <2>6 DEF PendingIds
            <4>2. k + 1 \in DOMAIN q /\ 1 \in DOMAIN q /\ 1 < k + 1
                BY <2>1, <2>2
            <4>3. i \in Ids /\ st[i] = "queued"
                BY <4>1, <4>2
            <4>4. q[1].id < i
                BY <4>1, <4>2
            <4>5. i # h.id
                BY <4>4, <2>1, <4>3, <2>4 DEF Ids
            <4>6. QED
                BY <4>3, <4>5, <2>7
        <3>2. ASSUME NEW i \in Ids, status'[i] = "queued"
              PROVE  i \in PendingIds'
            <4>1. i # h.id /\ st[i] = "queued"
                BY <3>2, <2>7, <2>5 DEF InFlight
            <4>2. PICK k \in DOMAIN q : q[k].id = i
                BY <4>1
            <4>3. k - 1 \in 1 .. (Len(q) - 1) /\ k = (k - 1) + 1
                BY <4>1, <4>2, <2>1, <2>2
            <4>4. QED
                BY <4>2, <4>3, <2>6 DEF PendingIds
        <3>3. QED
            BY <3>1, <3>2
    <2>12. QueueIsExact'
        <3>1. \A j, k \in 1 .. (Len(q) - 1) : j < k => q[j + 1].id < q[k + 1].id
            BY <2>1, <2>2
        <3>2. QED
            BY <3>1, <2>6, <2>11 DEF QueueIsExact
    <2>13. status' \in [Ids -> Statuses]
        BY <2>3, <2>5
    <2>14. \A i \in Ids : status'[i] = "none" <=> st[i] = "none"
        BY <2>7, <2>4, <2>5 DEF InFlight
    <2>15. QED
        BY <2>1, <2>3, <2>4, <2>6, <2>8, <2>10, <2>12, <2>13, <2>14
           DEF IdleMeansDrained
<1>3. QED
    BY <1>1, <1>2

(* A send blocks no longer than it may, and not at all on an empty queue.  *)
LEMMA SendTimesBound ==
    ASSUME NEW q, NEW limit \in Nat, NEW d \in SendTimes(q, limit)
    PROVE  d \in Nat /\ d <= limit /\ (q = <<>> => d = 0)
BY DEF SendTimes

(* Sending the head of the queue ages the rest by the time it takes.       *)
LEMMA DispatchKeepsAges ==
    ASSUME NEW q \in Seq(Requests), NEW st, NEW d \in Nat, NEW B \in Nat,
           now \in Times, B + d < ClockMod, now' = Later(now, d),
           ProcessNextQueuedRequest(q, d, st),
           \A k \in DOMAIN q : /\ q[k].age <= B
                              /\ Elapsed(now, q[k].timestamp) = q[k].age
    PROVE  /\ \A k \in DOMAIN pendingRequests' :
                 LET r == pendingRequests'[k]
                 IN  /\ r.age <= B + d
                     /\ Elapsed(now', r.timestamp) = r.age
                     /\ d <= r.age
                     /\ Elapsed(now, r.timestamp) = r.age - d
           /\ currentRequestState' = "WAITING" =>
                  /\ waited' = 0
                  /\ confirmationStartTime' \in Times
                  /\ Elapsed(now', confirmationStartTime') = 0
<1>1. CASE q = <<>>
    BY <1>1 DEF ProcessNextQueuedRequest
<1>2. CASE q # <<>>
    <2> DEFINE t == Tail(q)
    <2>1. /\ t \in Seq(Requests)
          /\ Len(q) \in Nat \ {0}
          /\ DOMAIN t = 1 .. (Len(q) - 1)
          /\ \A k \in 1 .. (Len(q) - 1) : t[k] = q[k + 1]
        BY <1>2, TailProps
    <2>2. DOMAIN q = 1 .. Len(q)
        BY LenProperties
    <2>3. /\ pendingRequests' = Aged(t, d)
          /\ confirmationStartTime' = Later(now, d)
          /\ waited' = 0
        BY <1>2 DEF ProcessNextQueuedRequest, ProcessRequest
    <2>4. /\ DOMAIN Aged(t, d) = DOMAIN t
          /\ \A k \in DOMAIN t : /\ Aged(t, d)[k].timestamp = t[k].timestamp
                                 /\ Aged(t, d)[k].age = t[k].age + d
        BY <2>1, AgedProps
    <2> HIDE DEF t
    <2>5. Later(now, d) \in Times
        BY LaterType, BoundsAssumption
    <2>6. ASSUME NEW k \in DOMAIN t
          PROVE  /\ t[k].age + d <= B + d
                 /\ t[k].age \in Nat
                 /\ Elapsed(Later(now, d), t[k].timestamp) = t[k].age + d
                 /\ Elapsed(now, t[k].timestamp) = t[k].age
        <3>1. k + 1 \in DOMAIN q /\ t[k] = q[k + 1]
            BY <2>1, <2>2
        <3>2. t[k] \in Requests
            BY <2>1, LenProperties, ElementOfSeq
        <3>3. t[k].timestamp \in Times /\ t[k].age \in Nat
            BY <3>2 DEF Requests
        <3>4. t[k].age <= B /\ Elapsed(now, t[k].timestamp) = t[k].age
            BY <3>1
        <3>5. Elapsed(now, t[k].timestamp) + d < ClockMod
            BY <3>3, <3>4, BoundsAssumption
        <3>6. QED
            BY <3>3, <3>4, <3>5, ElapsedLater
    <2>7. Elapsed(now', confirmationStartTime') = 0
        BY <2>3, <2>5, ElapsedSelf
    <2>8. ASSUME NEW k \in DOMAIN pendingRequests'
          PROVE  LET r == pendingRequests'[k]
                 IN  /\ r.age <= B + d
                     /\ Elapsed(now', r.timestamp) = r.age
                     /\ d <= r.age
                     /\ Elapsed(now, r.timestamp) = r.age - d
        <3>1. k \in DOMAIN t
            BY <2>3, <2>4
        <3>2. /\ pendingRequests'[k].timestamp = t[k].timestamp
              /\ pendingRequests'[k].age = t[k].age + d
            BY <3>1, <2>3, <2>4
        <3>3. QED
            BY <3>1, <3>2, <2>6
    <2>9. QED
        BY <2>3, <2>5, <2>7, <2>8
<1>3. QED
    BY <1>1, <1>2

(* What a queue q and a status st have to do with the current ones when a  *)
(* request of the given kind was appended.                                 *)
Enqueued(q, st, kind) ==
    /\ requestIdCounter + 1 \in Ids
    /\ status[requestIdCounter + 1] = "none"
    /\ q \in Seq(Requests)
    /\ Len(q) = Len(pendingRequests) + 1
    /\ st \in [Ids -> Statuses]
    /\ {q[k].id : k \in DOMAIN q} = {i \in Ids : st[i] = "queued"}
    /\ \A j, k \in DOMAIN q : j < k => q[j].id < q[k].id
    /\ \A i, j \in Ids : i < j /\ st[i] = "queued" => st[j] \notin Left
    /\ \A i \in Ids : st[i] \in InFlight <=> status[i] \in InFlight
    /\ \A i \in Ids : st[i] = "none" <=> i > requestIdCounter + 1
    /\ DOMAIN q = 1 .. (Len(pendingRequests) + 1)
    /\ \A k \in DOMAIN pendingRequests : q[k] = pendingRequests[k]
    /\ q[Len(pendingRequests) + 1] = NewRequest(kind)

(* Appending a new request keeps the queue exact and in order.             *)
LEMMA EnqueueProps ==
    ASSUME IInv, NEW kind \in Kinds, requestIdCounter < MaxRequests
    PROVE  Enqueued(QueueRequest(kind),
                    [status EXCEPT ![requestIdCounter + 1] = "queued"], kind)
<1> DEFINE q == QueueRequest(kind)
           st == [status EXCEPT ![requestIdCounter + 1] = "queued"]
<1> DEFINE n == requestIdCounter + 1
           L == Len(pendingRequests)
           r == NewRequest(kind)
<1>1. n \in Ids /\ requestIdCounter \in Nat
    BY BoundsAssumption DEF IInv, TypeOK, Ids
<1>2. status[n] = "none"
    BY <1>1 DEF IInv, IdsInOrder, Ids
<1>3. r \in Requests /\ r.id = n
    BY <1>1 DEF NewRequest, Requests, IInv, TypeOK
<1>4. /\ pendingRequests \in Seq(Requests)
      /\ L \in Nat
      /\ DOMAIN pendingRequests = 1 .. L
    BY LenProperties DEF IInv, TypeOK
<1>5. /\ q \in Seq(Requests)
      /\ Len(q) = L + 1
      /\ \A k \in 1 .. L : q[k] = pendingRequests[k]
      /\ q[L + 1] = r
    <2>1. q = Append(pendingRequests, r)
        BY DEF QueueRequest
    <2>2. QED
        BY <2>1, <1>3, <1>4, AppendProperties
<1>6. DOMAIN q = 1 .. (L + 1)
    BY <1>5, LenProperties
<1> HIDE DEF r, L, n
<1>7. st \in [Ids -> Statuses]
      /\ \A i \in Ids : st[i] = IF i = n THEN "queued" ELSE status[i]
    BY <1>1 DEF IInv, TypeOK, Statuses, n
<1>8. \A k \in 1 .. L : pendingRequests[k].id \in Ids
                         /\ status[pendingRequests[k].id] = "queued"
    BY <1>4 DEF IInv, QueueIsExact, PendingIds
<1>9. \A k \in 1 .. L : pendingRequests[k].id < n
    BY <1>8, <1>1 DEF IInv, IdsInOrder, Ids, n
<1>10. \A j, k \in DOMAIN q : j < k => q[j].id < q[k].id
    <2>1. \A j, k \in 1 .. L : j < k => pendingRequests[j].id < pendingRequests[k].id
        BY <1>4 DEF IInv, QueueIsExact
    <2>2. QED
        BY <2>1, <1>3, <1>4, <1>5, <1>6, <1>9
<1>11. {q[k].id : k \in DOMAIN q} = {i \in Ids : st[i] = "queued"}
    <2>1. ASSUME NEW k \in DOMAIN q
          PROVE  q[k].id \in Ids /\ st[q[k].id] = "queued"
        BY <1>1, <1>3, <1>4, <1>5, <1>6, <1>7, <1>8
    <2>2. ASSUME NEW i \in Ids, st[i] = "queued"
          PROVE  \E k \in DOMAIN q : q[k].id = i
        <3>1. CASE i = n
            BY <3>1, <1>3, <1>4, <1>5, <1>6
        <3>2. CASE i # n
            <4>1. status[i] = "queued"
                BY <2>2, <3>2, <1>7
            <4>2. PICK k \in DOMAIN pendingRequests : pendingRequests[k].id = i
                BY <4>1 DEF IInv, QueueIsExact, PendingIds
            <4>3. QED
                BY <4>2, <1>4, <1>5, <1>6
        <3>3. QED
            BY <3>1, <3>2
    <2>3. QED
        BY <2>1, <2>2
<1>12. \A i \in Ids : status[i] = "none" <=> i > requestIdCounter
    BY DEF IInv, IdsInOrder
<1>13. \A i, j \in Ids : i < j /\ st[i] = "queued" => st[j] \notin Left
    <2> SUFFICES ASSUME NEW i \in Ids, NEW j \in Ids, i < j, st[i] = "queued"
                 PROVE  st[j] \notin Left
        OBVIOUS
    <2>1. CASE j = n
        BY <2>1, <1>7 DEF Left
    <2>2. CASE j # n /\ i = n
        <3>1. status[j] = "none"
            BY <2>2, <1>1, <1>12 DEF Ids, n
        <3>2. QED
            BY <3>1, <2>2, <1>7 DEF Left
    <2>3. CASE j # n /\ i # n
        BY <2>3, <1>7 DEF IInv, NoOvertaking
    <2>4. QED
        BY <2>1, <2>2, <2>3
<1>14. \A i \in Ids : st[i] \in InFlight <=> status[i] \in InFlight
    BY <1>1, <1>2, <1>7 DEF InFlight
<1>15. \A i \in Ids : st[i] = "none" <=> i > requestIdCounter + 1
    BY <1>1, <1>7, <1>12 DEF Ids, n
<1>16. QED
    BY <1>1, <1>2, <1>4, <1>5, <1>6, <1>7, <1>10, <1>11, <1>13, <1>14, <1>15
       DEF n, L, r, Enqueued

(* When the flight of the current request ends, the next may be sent.      *)
LEMMA LandedIsDispatchable ==
    ASSUME IInv, currentRequestState = "WAITING",
           NEW v \in {"timedout", "confirmed"},
           NEW st, st = [status EXCEPT ![currentRequestId] = v]
    PROVE  /\ Dispatchable(pendingRequests, st)
           /\ currentRequestId \in Ids
           /\ \A i \in Ids : st[i] = "none" <=> status[i] = "none"
<1> DEFINE c == currentRequestId
<1>1. c \in Ids /\ status[c] \in InFlight
    BY DEF IInv, IdsInOrder, OneInFlight
<1>2. st \in [Ids -> Statuses]
      /\ \A i \in Ids : st[i] = IF i = c THEN v ELSE status[i]
    BY <1>1 DEF IInv, TypeOK, Statuses
<1>3. \A i \in Ids : /\ st[i] = "queued" <=> status[i] = "queued"
                     /\ st[i] = "none" <=> status[i] = "none"
                     /\ st[i] \in Left <=> status[i] \in Left
    BY <1>1, <1>2 DEF InFlight, Left
<1>4. \A i \in Ids : st[i] \notin InFlight
    BY <1>1, <1>2 DEF IInv, OneInFlight, InFlight
<1>5. \A i, j \in Ids : i < j /\ st[i] = "queued" => st[j] \notin Left
    BY <1>3 DEF IInv, NoOvertaking
<1>6. {pendingRequests[k].id : k \in DOMAIN pendingRequests}
        = {i \in Ids : st[i] = "queued"}
    BY <1>3 DEF IInv, QueueIsExact, PendingIds
<1>7. QED
    BY <1>1, <1>2, <1>3, <1>4, <1>5, <1>6
       DEF Dispatchable, IInv, TypeOK, QueueIsExact

(* The initial state satisfies the inductive invariant.                    *)
LEMMA InitIInv == Init => IInv
<1> SUFFICES ASSUME Init PROVE IInv
    OBVIOUS
<1> USE BoundsAssumption DEF Init
<1>1. TypeOK
    BY EmptySeq DEF TypeOK, Times, Ids, Statuses
<1>2. IdleMeansDrained /\ OneInFlight /\ NoOvertaking /\ IdsInOrder
    BY DEF IdleMeansDrained, OneInFlight, NoOvertaking, IdsInOrder, InFlight, Ids
<1>3. QueueIsExact
    BY DEF QueueIsExact, PendingIds
<1>4. AgesExact
    BY DEF AgesExact
<1>5. QED
    BY <1>1, <1>2, <1>3, <1>4 DEF IInv

(* The idle branch of handleApiBroadcast keeps the invariant.              *)
LEMMA BroadcastNowIInv ==
    ASSUME IInv, NEW kind \in Kinds, BroadcastNow(kind)
    PROVE  IInv'
<1> DEFINE q == QueueRequest(kind)
           st == [status EXCEPT ![requestIdCounter + 1] = "queued"]
<1>1. /\ pc = "web" /\ currentRequestState = "IDLE" /\ pc' = "timeouts"
      /\ requestIdCounter < MaxRequests
      /\ requestIdCounter' = requestIdCounter + 1
      /\ UNCHANGED <<currentTime, scan>>
    BY DEF BroadcastNow, Busy, IInv, TypeOK
<1>2. PICK d \in SendTimes(q, MaxPass - sinceCheck) :
        /\ ProcessNextQueuedRequest(q, d, st)
        /\ now' = Later(now, d)
        /\ sinceCheck' = sinceCheck + d
    BY DEF BroadcastNow
<1>3. MaxPass - sinceCheck \in Nat /\ sinceCheck \in Nat
    BY BoundsAssumption DEF IInv, TypeOK
<1>4. d \in Nat /\ d <= MaxPass - sinceCheck
    BY <1>3, SendTimesBound
<1>5a. Enqueued(q, st, kind)
    BY <1>1, EnqueueProps
<1> HIDE DEF q, st
<1>5. /\ requestIdCounter + 1 \in Ids
      /\ q \in Seq(Requests)
      /\ Len(q) = Len(pendingRequests) + 1
      /\ st \in [Ids -> Statuses]
      /\ {q[k].id : k \in DOMAIN q} = {i \in Ids : st[i] = "queued"}
      /\ \A j, k \in DOMAIN q : j < k => q[j].id < q[k].id
      /\ \A i, j \in Ids : i < j /\ st[i] = "queued" => st[j] \notin Left
      /\ \A i \in Ids : st[i] \in InFlight <=> status[i] \in InFlight
      /\ \A i \in Ids : st[i] = "none" <=> i > requestIdCounter + 1
      /\ DOMAIN q = 1 .. (Len(pendingRequests) + 1)
      /\ \A k \in DOMAIN pendingRequests : q[k] = pendingRequests[k]
      /\ q[Len(pendingRequests) + 1] = NewRequest(kind)
    BY <1>5a DEF Enqueued
<1>6. Len(pendingRequests) = 0 /\ Len(pendingRequests) < MAX_PENDING_REQUESTS
    BY <1>1, BoundsAssumption DEF IInv, IdleMeansDrained
<1>7. Dispatchable(q, st)
    BY <1>1, <1>5 DEF Dispatchable, IInv, OneInFlight
<1>8. /\ pendingRequests' \in Seq(Requests)
      /\ Len(pendingRequests') <= Len(q)
      /\ currentRequestState' \in {"IDLE", "WAITING"}
      /\ status' \in [Ids -> Statuses]
      /\ waited' = 0
      /\ IdleMeansDrained' /\ OneInFlight' /\ NoOvertaking' /\ QueueIsExact'
      /\ \A i \in Ids : status'[i] = "none" <=> st[i] = "none"
      /\ currentRequestState' = "WAITING" =>
             currentRequestId' \in Ids /\ st[currentRequestId'] = "queued"
    BY <1>2, <1>4, <1>7, DispatchKeepsOrder
<1>9. \A k \in DOMAIN q : /\ q[k].age <= REQUEST_TIMEOUT + sinceCheck
                          /\ Elapsed(now, q[k].timestamp) = q[k].age
    BY <1>3, <1>5, <1>6, ElapsedSelf, BoundsAssumption
       DEF NewRequest, IInv, TypeOK
<1>10. now \in Times /\ now' \in Times
    BY <1>2, <1>3, <1>4, LaterType, BoundsAssumption, ClockAssumption
       DEF IInv, TypeOK
<1>11. REQUEST_TIMEOUT + sinceCheck \in Nat
       /\ REQUEST_TIMEOUT + sinceCheck + d < ClockMod
    BY <1>3, <1>4, BoundsAssumption, ClockAssumption
<1>12. /\ \A k \in DOMAIN pendingRequests' :
             LET r == pendingRequests'[k]
             IN  /\ r.age <= REQUEST_TIMEOUT + sinceCheck + d
                 /\ Elapsed(now', r.timestamp) = r.age
       /\ currentRequestState' = "WAITING" =>
             /\ waited' = 0
             /\ confirmationStartTime' \in Times
             /\ Elapsed(now', confirmationStartTime') = 0
    BY <1>2, <1>4, <1>5, <1>9, <1>10, <1>11, DispatchKeepsAges
<1>13. q # <<>>
    BY <1>5, <1>6
<1>14. /\ confirmationStartTime' \in Times
       /\ currentRequestId' \in Ids
       /\ currentRequestState' = "WAITING"
    <2>1. currentRequestState' = "WAITING"
        BY <1>2, <1>13 DEF ProcessNextQueuedRequest, ProcessRequest
    <2>2. QED
        BY <2>1, <1>8, <1>12
<1>15. TypeOK'
    BY <1>1, <1>2, <1>3, <1>4, <1>5, <1>6, <1>8, <1>10, <1>14, BoundsAssumption
       DEF TypeOK, IInv, Ids
<1>16. IdsInOrder'
    <2>1. currentRequestId' \in Ids /\ st[currentRequestId'] # "none"
        BY <1>8, <1>14
    <2>2. ~(currentRequestId' > requestIdCounter + 1)
        BY <2>1, <1>5
    <2>3. currentRequestId' \in Nat /\ requestIdCounter \in Nat
        BY <2>1, BoundsAssumption DEF Ids, IInv, TypeOK
    <2>4. currentRequestId' <= requestIdCounter + 1
        BY <2>2, <2>3
    <2>5. QED
        BY <2>4, <1>1, <1>5, <1>8, <1>14 DEF IdsInOrder
<1>17. AgesExact'
    BY <1>1, <1>2, <1>3, <1>4, <1>12, BoundsAssumption DEF AgesExact
<1>18. QED
    BY <1>8, <1>15, <1>16, <1>17 DEF IInv

(* The busy branch of handleApiBroadcast keeps the invariant.              *)
LEMMA BroadcastQueuedIInv ==
    ASSUME IInv, NEW kind \in Kinds, BroadcastQueued(kind)
    PROVE  IInv'
<1> DEFINE q == QueueRequest(kind)
           st == [status EXCEPT ![requestIdCounter + 1] = "queued"]
<1>1. /\ pc = "web" /\ currentRequestState = "WAITING" /\ pc' = "timeouts"
      /\ requestIdCounter < MaxRequests
      /\ Len(pendingRequests) < MAX_PENDING_REQUESTS
      /\ requestIdCounter' = requestIdCounter + 1
      /\ pendingRequests' = q /\ status' = st
      /\ UNCHANGED <<currentRequestState, confirmationStartTime,
                     currentRequestId, now, currentTime, scan, sinceCheck,
                     waited>>
    BY DEF BroadcastQueued, Busy, QueueHasRoom, IInv, TypeOK
<1>2a. Enqueued(q, st, kind)
    BY <1>1, EnqueueProps
<1> HIDE DEF q, st
<1>2. /\ requestIdCounter + 1 \in Ids
      /\ q \in Seq(Requests)
      /\ Len(q) = Len(pendingRequests) + 1
      /\ st \in [Ids -> Statuses]
      /\ {q[k].id : k \in DOMAIN q} = {i \in Ids : st[i] = "queued"}
      /\ \A j, k \in DOMAIN q : j < k => q[j].id < q[k].id
      /\ \A i, j \in Ids : i < j /\ st[i] = "queued" => st[j] \notin Left
      /\ \A i \in Ids : st[i] \in InFlight <=> status[i] \in InFlight
      /\ \A i \in Ids : st[i] = "none" <=> i > requestIdCounter + 1
      /\ DOMAIN q = 1 .. (Len(pendingRequests) + 1)
      /\ \A k \in DOMAIN pendingRequests : q[k] = pendingRequests[k]
      /\ q[Len(pendingRequests) + 1] = NewRequest(kind)
    BY <1>2a DEF Enqueued
<1>3. DOMAIN pendingRequests = 1 .. Len(pendingRequests)
      /\ Len(pendingRequests) \in Nat
    BY LenProperties DEF IInv, TypeOK
<1>4. TypeOK'
    BY <1>1, <1>2, <1>3, BoundsAssumption DEF TypeOK, IInv, Ids
<1>5. IdleMeansDrained' /\ OneInFlight' /\ NoOvertaking' /\ QueueIsExact'
    BY <1>1, <1>2 DEF IInv, IdleMeansDrained, OneInFlight, NoOvertaking,
       QueueIsExact, PendingIds
<1>6. IdsInOrder'
    BY <1>1, <1>2 DEF IInv, IdsInOrder, TypeOK
<1>7. \A k \in DOMAIN q : /\ q[k].age <= REQUEST_TIMEOUT + sinceCheck
                          /\ Elapsed(now, q[k].timestamp) = q[k].age
    <2>1. NewRequest(kind).age = 0 /\ NewRequest(kind).timestamp = now
        BY DEF NewRequest
    <2>2. \A k \in DOMAIN pendingRequests :
             /\ pendingRequests[k].age <= REQUEST_TIMEOUT + sinceCheck
             /\ Elapsed(now, pendingRequests[k].timestamp) = pendingRequests[k].age
        BY <1>1, <1>3, BoundsAssumption, LenProperties, ElementOfSeq
           DEF IInv, AgesExact, TypeOK, Requests
    <2>3. Elapsed(now, now) = 0 /\ 0 <= REQUEST_TIMEOUT + sinceCheck
        BY ElapsedSelf, BoundsAssumption DEF IInv, TypeOK
    <2>4. QED
        BY <2>1, <2>2, <2>3, <1>2, <1>3
<1>8. AgesExact'
    BY <1>1, <1>7, BoundsAssumption DEF AgesExact, IInv, TypeOK
<1>9. QED
    BY <1>4, <1>5, <1>6, <1>8 DEF IInv

(* Ending the flight of the current request, by a timeout or by a          *)
(* confirmation, and sending the next keeps everything but the ages, which *)
(* depend on the place in the pass.                                        *)
LEMMA LandingKeepsOrder ==
    ASSUME IInv, currentRequestState = "WAITING",
           NEW v \in {"timedout", "confirmed"},
           NEW limit \in Nat, limit <= MaxPass,
           NEW d \in SendTimes(pendingRequests, limit),
           ProcessNextQueuedRequest(pendingRequests, d,
               [status EXCEPT ![currentRequestId] = v]),
           now' = Later(now, d),
           requestIdCounter' = requestIdCounter,
           pc # "scan"
    PROVE  /\ d \in Nat /\ d <= limit
           /\ pendingRequests' \in Seq(Requests)
           /\ Len(pendingRequests') \in 0 .. MAX_PENDING_REQUESTS
           /\ currentRequestState' \in {"IDLE", "WAITING"}
           /\ confirmationStartTime' \in Times
           /\ currentRequestId' \in 0 .. MaxRequests
           /\ status' \in [Ids -> Statuses]
           /\ waited' = 0
           /\ now' \in Times
           /\ IdleMeansDrained' /\ OneInFlight' /\ NoOvertaking'
           /\ QueueIsExact' /\ IdsInOrder'
           /\ \A k \in DOMAIN pendingRequests' :
                 LET r == pendingRequests'[k]
                 IN  /\ r.age <= REQUEST_TIMEOUT + sinceCheck + d
                     /\ Elapsed(now', r.timestamp) = r.age
                     /\ d <= r.age
                     /\ Elapsed(now, r.timestamp) = r.age - d
           /\ currentRequestState' = "WAITING" =>
                 Elapsed(now', confirmationStartTime') = 0
<1> DEFINE q == pendingRequests
           st == [status EXCEPT ![currentRequestId] = v]
<1>1. d \in Nat /\ d <= limit /\ d <= MaxPass
    BY SendTimesBound, BoundsAssumption
<1>2. /\ Dispatchable(q, st)
      /\ currentRequestId \in Ids
      /\ \A i \in Ids : st[i] = "none" <=> status[i] = "none"
    BY LandedIsDispatchable
<1>3. ProcessNextQueuedRequest(q, d, st)
    OBVIOUS
<1> HIDE DEF st
<1>4. /\ q' \in Seq(Requests)
      /\ Len(q') <= Len(q)
      /\ currentRequestState' \in {"IDLE", "WAITING"}
      /\ status' \in [Ids -> Statuses]
      /\ waited' = 0
      /\ IdleMeansDrained' /\ OneInFlight' /\ NoOvertaking' /\ QueueIsExact'
      /\ \A i \in Ids : status'[i] = "none" <=> st[i] = "none"
      /\ currentRequestState' = "WAITING" =>
             currentRequestId' \in Ids /\ st[currentRequestId'] = "queued"
    BY <1>1, <1>2, <1>3, DispatchKeepsOrder
<1>5. Len(q') \in 0 .. MAX_PENDING_REQUESTS
    BY <1>4, LenProperties, BoundsAssumption DEF IInv, TypeOK
<1>6. q \in Seq(Requests) /\ now \in Times /\ sinceCheck \in 0 .. MaxPass
    BY DEF IInv, TypeOK
<1>7. \A k \in DOMAIN q : /\ q[k].age <= REQUEST_TIMEOUT + sinceCheck
                          /\ Elapsed(now, q[k].timestamp) = q[k].age
    <2>1. ASSUME NEW k \in DOMAIN q
          PROVE  /\ q[k].age <= REQUEST_TIMEOUT + sinceCheck + 0
                 /\ Elapsed(now, q[k].timestamp) = q[k].age
        BY DEF IInv, AgesExact
    <2>2. QED
        BY <2>1, <1>6, BoundsAssumption
<1>8. REQUEST_TIMEOUT + sinceCheck \in Nat
      /\ REQUEST_TIMEOUT + sinceCheck + d < ClockMod /\ d < ClockMod
    BY <1>1, <1>6, BoundsAssumption, ClockAssumption
<1>9. now' \in Times
    BY <1>1, <1>6, <1>8, LaterType
<1>10. /\ \A k \in DOMAIN q' :
             LET r == q'[k]
             IN  /\ r.age <= (REQUEST_TIMEOUT + sinceCheck) + d
                 /\ Elapsed(now', r.timestamp) = r.age
                 /\ d <= r.age
                 /\ Elapsed(now, r.timestamp) = r.age - d
       /\ currentRequestState' = "WAITING" =>
             /\ waited' = 0
             /\ confirmationStartTime' \in Times
             /\ Elapsed(now', confirmationStartTime') = 0
    BY <1>1, <1>3, <1>6, <1>7, <1>8, DispatchKeepsAges
<1>11. CASE q = <<>>
    <2>1. /\ currentRequestState' = "IDLE"
          /\ confirmationStartTime' = confirmationStartTime
          /\ currentRequestId' = currentRequestId
        BY <1>3, <1>11 DEF ProcessNextQueuedRequest
    <2>2. IdsInOrder'
        BY <2>1, <1>2, <1>4 DEF IInv, IdsInOrder
    <2>3. QED
        BY <2>1, <2>2, <1>1, <1>4, <1>5, <1>9, <1>10 DEF IInv, TypeOK
<1>12. CASE q # <<>>
    <2>1. currentRequestState' = "WAITING"
        BY <1>3, <1>12 DEF ProcessNextQueuedRequest, ProcessRequest
    <2>2. currentRequestId' \in Ids /\ st[currentRequestId'] # "none"
        BY <2>1, <1>4
    <2>3. currentRequestId' <= requestIdCounter
        BY <2>2, <1>2, BoundsAssumption DEF IInv, IdsInOrder, TypeOK, Ids
    <2>4. IdsInOrder'
        BY <2>1, <2>2, <2>3, <1>2, <1>4 DEF IInv, IdsInOrder
    <2>5. currentRequestId' \in 0 .. MaxRequests
        BY <2>2, BoundsAssumption DEF Ids
    <2>6. QED
        BY <2>1, <2>4, <2>5, <1>1, <1>4, <1>5, <1>9, <1>10
<1>13. QED
    BY <1>11, <1>12

(* The first half of CheckRequestTimeouts keeps the invariant.             *)
LEMMA ConfirmationTimeoutIInv ==
    ASSUME IInv, ConfirmationTimeout
    PROVE  IInv'
<1>1. /\ pc = "timeouts" /\ pc' = "scan" /\ currentRequestState = "WAITING"
      /\ currentTime' = now /\ scan' = Len(pendingRequests')
      /\ UNCHANGED <<requestIdCounter>>
    BY DEF ConfirmationTimeout, ConfirmationExpired
<1>2. PICK d \in SendTimes(pendingRequests, MaxPass) :
        /\ ProcessNextQueuedRequest(pendingRequests, d,
               [status EXCEPT ![currentRequestId] = "timedout"])
        /\ now' = Later(now, d)
        /\ sinceCheck' = d
    BY DEF ConfirmationTimeout
<1>3. MaxPass \in Nat /\ MaxPass <= MaxPass /\ pc # "scan"
    BY <1>1, BoundsAssumption
<1>4. /\ d \in Nat /\ d <= MaxPass
      /\ pendingRequests' \in Seq(Requests)
      /\ Len(pendingRequests') \in 0 .. MAX_PENDING_REQUESTS
      /\ currentRequestState' \in {"IDLE", "WAITING"}
      /\ confirmationStartTime' \in Times
      /\ currentRequestId' \in 0 .. MaxRequests
      /\ status' \in [Ids -> Statuses]
      /\ waited' = 0
      /\ now' \in Times
      /\ IdleMeansDrained' /\ OneInFlight' /\ NoOvertaking'
      /\ QueueIsExact' /\ IdsInOrder'
      /\ \A k \in DOMAIN pendingRequests' :
            LET r == pendingRequests'[k]
            IN  /\ r.age <= REQUEST_TIMEOUT + sinceCheck + d
                /\ Elapsed(now', r.timestamp) = r.age
                /\ d <= r.age
                /\ Elapsed(now, r.timestamp) = r.age - d
      /\ currentRequestState' = "WAITING" =>
            Elapsed(now', confirmationStartTime') = 0
    BY <1>1, <1>2, <1>3, LandingKeepsOrder
<1>5. TypeOK'
    BY <1>1, <1>2, <1>4, BoundsAssumption DEF TypeOK, IInv
<1>6. AgesExact'
    <2>1. DOMAIN pendingRequests' = 1 .. Len(pendingRequests')
        BY <1>4, LenProperties
    <2>2. sinceCheck \in 0 .. MaxPass
        BY DEF IInv, TypeOK
    <2>3. ASSUME NEW k \in DOMAIN pendingRequests'
          PROVE  LET r == pendingRequests'[k]
                     late == IF pc' = "scan" /\ k <= scan' THEN MaxPass ELSE 0
                 IN  /\ r.age <= REQUEST_TIMEOUT + sinceCheck' + late
                     /\ Elapsed(now', r.timestamp) = r.age
                     /\ pc' = "scan" =>
                            /\ sinceCheck' <= r.age
                            /\ Elapsed(currentTime', r.timestamp)
                                   = r.age - sinceCheck'
        <3>1. pendingRequests'[k].age \in Nat
            BY <1>4, EntryType
        <3>2. k <= scan'
            BY <1>1, <1>4, <2>1
        <3>3. pendingRequests'[k].age <= REQUEST_TIMEOUT + d + MaxPass
            BY <3>1, <2>2, <1>4, BoundsAssumption
        <3>4. QED
            BY <3>2, <3>3, <1>1, <1>2, <1>4
    <2>4. scan' <= Len(pendingRequests')
        BY <1>1, <1>4
    <2>5. 0 <= CONFIRMATION_TIMEOUT + d
        BY <1>4, BoundsAssumption
    <2>6. QED
        BY <2>3, <2>4, <2>5, <1>2, <1>4 DEF AgesExact
<1>7. QED
    BY <1>4, <1>5, <1>6 DEF IInv

(* Taking a confirmation and sending the next request keeps the invariant. *)
LEMMA ConfirmationReceivedIInv ==
    ASSUME IInv, NEW i \in Ids, HandleConfirmationReceived(i)
    PROVE  IInv'
<1>1. /\ pc = "radio" /\ pc' = "web" /\ currentRequestState = "WAITING"
      /\ UNCHANGED <<requestIdCounter, currentTime, scan>>
    BY DEF HandleConfirmationReceived
<1>2. PICK d \in SendTimes(pendingRequests, MaxPass - sinceCheck) :
        /\ ProcessNextQueuedRequest(pendingRequests, d,
               [status EXCEPT ![currentRequestId] = "confirmed"])
        /\ now' = Later(now, d)
        /\ sinceCheck' = sinceCheck + d
    BY DEF HandleConfirmationReceived
<1>3. MaxPass - sinceCheck \in Nat /\ MaxPass - sinceCheck <= MaxPass
      /\ sinceCheck \in Nat /\ pc # "scan"
    BY <1>1, BoundsAssumption DEF IInv, TypeOK
<1>4. /\ d \in Nat /\ d <= MaxPass - sinceCheck
      /\ pendingRequests' \in Seq(Requests)
      /\ Len(pendingRequests') \in 0 .. MAX_PENDING_REQUESTS
      /\ currentRequestState' \in {"IDLE", "WAITING"}
      /\ confirmationStartTime' \in Times
      /\ currentRequestId' \in 0 .. MaxRequests
      /\ status' \in [Ids -> Statuses]
      /\ waited' = 0
      /\ now' \in Times
      /\ IdleMeansDrained' /\ OneInFlight' /\ NoOvertaking'
      /\ QueueIsExact' /\ IdsInOrder'
      /\ \A k \in DOMAIN pendingRequests' :
            LET r == pendingRequests'[k]
            IN  /\ r.age <= REQUEST_TIMEOUT + sinceCheck + d
                /\ Elapsed(now', r.timestamp) = r.age
                /\ d <= r.age
                /\ Elapsed(now, r.timestamp) = r.age - d
      /\ currentRequestState' = "WAITING" =>
            Elapsed(now', confirmationStartTime') = 0
    BY <1>1, <1>2, <1>3, LandingKeepsOrder
<1>5. TypeOK'
    BY <1>1, <1>2, <1>3, <1>4, BoundsAssumption DEF TypeOK, IInv
<1>6. AgesExact'
    <2>1. DOMAIN pendingRequests' = 1 .. Len(pendingRequests')
        BY <1>4, LenProperties
    <2>2. \A k \in DOMAIN pendingRequests' :
             /\ pendingRequests'[k].age <= REQUEST_TIMEOUT + sinceCheck' + 0
             /\ Elapsed(now', pendingRequests'[k].timestamp)
                    = pendingRequests'[k].age
        <3> SUFFICES ASSUME NEW k \in DOMAIN pendingRequests'
                     PROVE  pendingRequests'[k].age
                               <= REQUEST_TIMEOUT + sinceCheck' + 0
            BY <1>4
        <3>1. pendingRequests'[k].age \in Nat
            BY <1>4, EntryType
        <3>2. QED
            BY <3>1, <1>2, <1>3, <1>4, BoundsAssumption
    <2>3. 0 <= CONFIRMATION_TIMEOUT + sinceCheck'
        BY <1>2, <1>3, <1>4, BoundsAssumption
    <2>4. QED
        BY <2>2, <2>3, <1>1, <1>4 DEF AgesExact
<1>7. QED
    BY <1>4, <1>5, <1>6 DEF IInv

(* Starting the walk over the queue keeps the invariant: what is about to  *)
(* be checked is late by at most one pass.                                 *)
LEMMA NoConfirmationTimeoutIInv ==
    ASSUME IInv, NoConfirmationTimeout
    PROVE  IInv'
<1>1. /\ pc = "timeouts" /\ pc' = "scan" /\ ~ConfirmationExpired
      /\ currentTime' = now /\ sinceCheck' = 0 /\ scan' = Len(pendingRequests)
      /\ UNCHANGED <<currentRequestState, pendingRequests,
                     confirmationStartTime, currentRequestId,
                     requestIdCounter, now, waited, status>>
    BY DEF NoConfirmationTimeout
<1>2. /\ pendingRequests \in Seq(Requests)
      /\ Len(pendingRequests) \in Nat
      /\ DOMAIN pendingRequests = 1 .. Len(pendingRequests)
      /\ sinceCheck \in 0 .. MaxPass
    BY LenProperties DEF IInv, TypeOK
<1>3. TypeOK'
    BY <1>1, <1>2, BoundsAssumption DEF IInv, TypeOK
<1>4. IdleMeansDrained' /\ OneInFlight' /\ NoOvertaking' /\ QueueIsExact'
      /\ IdsInOrder'
    BY <1>1 DEF IInv, IdleMeansDrained, OneInFlight, NoOvertaking,
       QueueIsExact, PendingIds, IdsInOrder
<1>5. ASSUME NEW k \in DOMAIN pendingRequests
      PROVE  LET r == pendingRequests[k]
             IN  /\ r.age \in Nat
                 /\ r.age <= REQUEST_TIMEOUT + 0 + MaxPass
                 /\ Elapsed(now, r.timestamp) = r.age
                 /\ Elapsed(now, r.timestamp) = r.age - 0
                 /\ k <= Len(pendingRequests)
    <2>1. pendingRequests[k].age \in Nat
        BY <1>2, EntryType
    <2>2. /\ pendingRequests[k].age <= REQUEST_TIMEOUT + sinceCheck + 0
          /\ Elapsed(now, pendingRequests[k].timestamp) = pendingRequests[k].age
        BY <1>1 DEF IInv, AgesExact
    <2>3. QED
        BY <2>1, <2>2, <1>2, BoundsAssumption
<1>6. currentRequestState = "WAITING" =>
          /\ waited <= CONFIRMATION_TIMEOUT + 0
          /\ Elapsed(now, confirmationStartTime) = waited
    BY <1>1, BoundsAssumption DEF ConfirmationExpired, IInv, AgesExact, TypeOK
<1>7. AgesExact'
    <2>1. \A k \in DOMAIN pendingRequests :
             0 <= pendingRequests[k].age
        BY <1>5
    <2>2. QED
        BY <1>1, <1>2, <1>5, <1>6, <2>1 DEF AgesExact
<1>8. QED
    BY <1>3, <1>4, <1>7 DEF IInv

(* Keeping an entry that is not too old keeps the invariant.               *)
LEMMA ScanKeepIInv ==
    ASSUME IInv, ScanKeep
    PROVE  IInv'
<1>1. /\ pc = "scan" /\ scan > 0 /\ ~RequestExpired(scan) /\ scan' = scan - 1
      /\ UNCHANGED <<pc, currentRequestState, pendingRequests,
                     confirmationStartTime, currentRequestId, requestIdCounter,
                     now, currentTime, sinceCheck, waited, status>>
    BY DEF ScanKeep
<1>2. /\ pendingRequests \in Seq(Requests)
      /\ Len(pendingRequests) \in Nat
      /\ DOMAIN pendingRequests = 1 .. Len(pendingRequests)
      /\ sinceCheck \in 0 .. MaxPass
      /\ scan \in 1 .. Len(pendingRequests)
    BY <1>1, LenProperties DEF IInv, TypeOK, AgesExact
<1>3. TypeOK'
    BY <1>1, <1>2, BoundsAssumption DEF IInv, TypeOK
<1>4. IdleMeansDrained' /\ OneInFlight' /\ NoOvertaking' /\ QueueIsExact'
      /\ IdsInOrder'
    BY <1>1 DEF IInv, IdleMeansDrained, OneInFlight, NoOvertaking,
       QueueIsExact, PendingIds, IdsInOrder
<1>5. pendingRequests[scan].age <= REQUEST_TIMEOUT + sinceCheck + 0
    <2>1. /\ pendingRequests[scan].age \in Nat
          /\ Elapsed(currentTime, pendingRequests[scan].timestamp)
                 = pendingRequests[scan].age - sinceCheck
        BY <1>1, <1>2, EntryType DEF IInv, AgesExact
    <2>2. QED
        BY <2>1, <1>1, <1>2, BoundsAssumption DEF RequestExpired
<1>6. ASSUME NEW k \in DOMAIN pendingRequests
      PROVE  pendingRequests[k].age
                <= REQUEST_TIMEOUT + sinceCheck
                     + (IF k <= scan - 1 THEN MaxPass ELSE 0)
    <2>1. CASE k = scan
        BY <2>1, <1>2, <1>5
    <2>2. CASE k # scan
        <3>1. k <= scan - 1 <=> k <= scan
            BY <2>2, <1>2
        <3>2. QED
            BY <3>1, <1>1 DEF IInv, AgesExact
    <2>3. QED
        BY <2>1, <2>2
<1>7. AgesExact'
    <2>1. scan - 1 <= Len(pendingRequests)
        BY <1>2
    <2>2. QED
        BY <2>1, <1>1, <1>6 DEF IInv, AgesExact
<1>8. QED
    BY <1>3, <1>4, <1>7 DEF IInv

(* Removing an entry that is too old keeps the invariant: the entries not  *)
(* yet checked keep their places, the later ones move down by one.         *)
LEMMA ScanRemoveIInv ==
    ASSUME IInv, ScanRemove
    PROVE  IInv'
<1> DEFINE q == pendingRequests
           x == pendingRequests[scan].id
           L == Len(pendingRequests)
           w == Without(pendingRequests, scan)
<1>1. /\ pc = "scan" /\ scan > 0 /\ scan' = scan - 1
      /\ status' = [status EXCEPT ![x] = "expired"]
      /\ pendingRequests' = w
      /\ UNCHANGED <<pc, currentRequestState, confirmationStartTime,
                     currentRequestId, requestIdCounter, now, currentTime,
                     sinceCheck, waited>>
    BY DEF ScanRemove
<1>2. /\ q \in Seq(Requests)
      /\ L \in Nat
      /\ DOMAIN q = 1 .. L
      /\ sinceCheck \in 0 .. MaxPass
      /\ scan \in 1 .. L
    BY <1>1, LenProperties DEF IInv, TypeOK, AgesExact
<1>3. /\ w \in Seq(Requests)
      /\ Len(w) = L - 1
      /\ DOMAIN w = 1 .. (L - 1)
      /\ \A j \in 1 .. (L - 1) : w[j] = IF j < scan THEN q[j] ELSE q[j + 1]
    BY <1>2, WithoutProps
<1>4. x \in Ids /\ status[x] = "queued"
    BY <1>2 DEF IInv, QueueIsExact, PendingIds
<1> HIDE DEF x, w, L
<1>5. \A i \in Ids : status'[i] = IF i = x THEN "expired" ELSE status[i]
    BY <1>1 DEF IInv, TypeOK
<1>6. TypeOK'
    <2>1. status' \in [Ids -> Statuses]
        BY <1>1 DEF IInv, TypeOK, Statuses
    <2>2. Len(w) <= MAX_PENDING_REQUESTS /\ scan - 1 \in 0 .. MAX_PENDING_REQUESTS
        BY <1>2, <1>3, BoundsAssumption DEF IInv, TypeOK, L
    <2>3. QED
        BY <2>1, <2>2, <1>1, <1>3 DEF IInv, TypeOK
<1>7. IdleMeansDrained'
    <2>1. q # <<>>
        BY <1>2, EmptySeq DEF L
    <2>2. QED
        BY <2>1, <1>1 DEF IInv, IdleMeansDrained
<1>8. OneInFlight'
    BY <1>1, <1>4, <1>5 DEF IInv, OneInFlight, InFlight
<1>9. NoOvertaking'
    BY <1>5 DEF IInv, NoOvertaking, Left
<1>10. \A j, k \in 1 .. L : j < k => q[j].id < q[k].id
    BY <1>2 DEF IInv, QueueIsExact
<1>11. \A k \in 1 .. L : q[k].id \in Ids /\ (q[k].id = x => k = scan)
    <2> SUFFICES ASSUME NEW k \in 1 .. L
                 PROVE  q[k].id \in Ids /\ (q[k].id = x => k = scan)
        OBVIOUS
    <2>1. q[k].id \in Ids
        BY <1>2, EntryType
    <2>2. CASE k < scan
        BY <2>1, <2>2, <1>2, <1>4, <1>10, BoundsAssumption DEF x, Ids
    <2>3. CASE scan < k
        BY <2>1, <2>3, <1>2, <1>4, <1>10, BoundsAssumption DEF x, Ids
    <2>4. QED
        BY <2>1, <2>2, <2>3, <1>2
<1>12. PendingIds' = {i \in Ids : status'[i] = "queued"}
    <2>1. ASSUME NEW i \in PendingIds'
          PROVE  i \in Ids /\ status'[i] = "queued"
        <3>1. PICK j \in 1 .. (L - 1) : i = w[j].id
            BY <1>1, <1>3 DEF PendingIds
        <3>2. PICK k \in 1 .. L : i = q[k].id /\ k # scan
            BY <3>1, <1>2, <1>3
        <3>3. i \in Ids /\ i # x
            BY <3>2, <1>11
        <3>4. status[i] = "queued"
            BY <3>2, <1>2 DEF IInv, QueueIsExact, PendingIds
        <3>5. QED
            BY <3>3, <3>4, <1>5
    <2>2. ASSUME NEW i \in Ids, status'[i] = "queued"
          PROVE  i \in PendingIds'
        <3>1. i # x /\ status[i] = "queued"
            BY <2>2, <1>5
        <3>2. PICK k \in 1 .. L : i = q[k].id
            BY <3>1, <1>2 DEF IInv, QueueIsExact, PendingIds
        <3>3. k # scan
            BY <3>1, <3>2 DEF x
        <3>4. CASE k < scan
            <4>1. k \in 1 .. (L - 1) /\ w[k] = q[k]
                BY <3>4, <1>2, <1>3
            <4>2. QED
                BY <4>1, <3>2, <1>1, <1>3 DEF PendingIds
        <3>5. CASE scan < k
            <4>1. k - 1 \in 1 .. (L - 1) /\ w[k - 1] = q[k]
                BY <3>5, <1>2, <1>3
            <4>2. QED
                BY <4>1, <3>2, <1>1, <1>3 DEF PendingIds
        <3>6. QED
            BY <3>3, <3>4, <3>5, <1>2
    <2>3. QED
        BY <2>1, <2>2
<1>13. QueueIsExact'
    <2>1. \A j, k \in 1 .. (L - 1) : j < k => w[j].id < w[k].id
        BY <1>2, <1>3, <1>10
    <2>2. QED
        BY <2>1, <1>1, <1>3, <1>12 DEF QueueIsExact
<1>14. IdsInOrder'
    BY <1>1, <1>4, <1>5 DEF IInv, IdsInOrder
<1>15. \A k \in 1 .. L :
         LET r == q[k]
         IN  /\ r.age <= REQUEST_TIMEOUT + sinceCheck
                           + (IF k <= scan THEN MaxPass ELSE 0)
             /\ Elapsed(now, r.timestamp) = r.age
             /\ sinceCheck <= r.age
             /\ Elapsed(currentTime, r.timestamp) = r.age - sinceCheck
    BY <1>1, <1>2 DEF IInv, AgesExact
<1>16. \A j \in 1 .. (L - 1) :
         LET r == w[j]
         IN  /\ r.age <= REQUEST_TIMEOUT + sinceCheck
                           + (IF j <= scan - 1 THEN MaxPass ELSE 0)
             /\ Elapsed(now, r.timestamp) = r.age
             /\ sinceCheck <= r.age
             /\ Elapsed(currentTime, r.timestamp) = r.age - sinceCheck
    <2> SUFFICES ASSUME NEW j \in 1 .. (L - 1)
                 PROVE  LET r == w[j]
                        IN  /\ r.age <= REQUEST_TIMEOUT + sinceCheck
                                 + (IF j <= scan - 1 THEN MaxPass ELSE 0)
                            /\ Elapsed(now, r.timestamp) = r.age
                            /\ sinceCheck <= r.age
                            /\ Elapsed(currentTime, r.timestamp)
                                   = r.age - sinceCheck
        OBVIOUS
    <2>1. CASE j < scan
        <3>1. w[j] = q[j] /\ j \in 1 .. L /\ j <= scan - 1 /\ j <= scan
            BY <2>1, <1>2, <1>3
        <3>2. QED
            BY <3>1, <1>15
    <2>2. CASE ~(j < scan)
        <3>1. w[j] = q[j + 1] /\ j + 1 \in 1 .. L
              /\ ~(j <= scan - 1) /\ ~(j + 1 <= scan)
            BY <2>2, <1>2, <1>3
        <3>2. QED
            BY <3>1, <1>15
    <2>3. QED
        BY <2>1, <2>2
<1>17. AgesExact'
    <2>1. scan - 1 <= Len(w)
        BY <1>2, <1>3
    <2>2. QED
        BY <2>1, <1>1, <1>3, <1>16 DEF IInv, AgesExact
<1>18. QED
    BY <1>6, <1>7, <1>8, <1>9, <1>13, <1>14, <1>17 DEF IInv

(* The steps that only move pc keep the invariant; at the end of the walk  *)
(* nothing is left to be checked.                                          *)
LEMMA PassIInv ==
    ASSUME IInv, NoBroadcast \/ ScanDone \/ NoConfirmation
    PROVE  IInv'
<1>1. /\ pc' \in {"web", "timeouts", "radio"}
      /\ pc = "scan" => scan = 0
      /\ UNCHANGED <<currentRequestState, pendingRequests,
                     confirmationStartTime, currentRequestId,
                     requestIdCounter, now, currentTime, scan, sinceCheck,
                     waited, status>>
    BY DEF NoBroadcast, ScanDone, NoConfirmation
<1>2. TypeOK' /\ IdleMeansDrained' /\ OneInFlight' /\ NoOvertaking'
      /\ QueueIsExact' /\ IdsInOrder'
    BY <1>1 DEF IInv, TypeOK, IdleMeansDrained, OneInFlight, NoOvertaking,
       QueueIsExact, PendingIds, IdsInOrder
<1>3. \A k \in DOMAIN pendingRequests : ~(pc = "scan" /\ k <= scan)
    BY <1>1, LenProperties DEF IInv, TypeOK
<1>4. AgesExact'
    BY <1>1, <1>3 DEF IInv, AgesExact
<1>5. QED
    BY <1>2, <1>4 DEF IInv

(* The passing of time keeps the invariant: the bound on a pass keeps all  *)
(* true ages below the modulus of the clock.                               *)
LEMMA TickIInv ==
    ASSUME IInv, Tick
    PROVE  IInv'
<1> DEFINE a == Aged(pendingRequests, 1)
<1>1. /\ pc # "scan" /\ sinceCheck < MaxPass
      /\ now' = Later(now, 1) /\ sinceCheck' = sinceCheck + 1
      /\ pendingRequests' = a
      /\ waited' = IF currentRequestState = "WAITING" THEN waited + 1 ELSE 0
      /\ UNCHANGED <<pc, currentRequestState, confirmationStartTime,
                     currentRequestId, requestIdCounter, currentTime, scan,
                     status>>
    BY DEF Tick
<1>2. /\ pendingRequests \in Seq(Requests)
      /\ sinceCheck \in 0 .. MaxPass
      /\ now \in Times
    BY DEF IInv, TypeOK
<1>3. /\ a \in Seq(Requests)
      /\ Len(a) = Len(pendingRequests)
      /\ DOMAIN a = DOMAIN pendingRequests
      /\ \A k \in DOMAIN pendingRequests :
           /\ a[k].id = pendingRequests[k].id
           /\ a[k].timestamp = pendingRequests[k].timestamp
           /\ a[k].age = pendingRequests[k].age + 1
    BY <1>2, AgedProps
<1> HIDE DEF a
<1>4. Later(now, 1) \in Times
    BY <1>1, <1>2, LaterType, BoundsAssumption, ClockAssumption
<1>5. TypeOK'
    BY <1>1, <1>2, <1>3, <1>4, BoundsAssumption DEF IInv, TypeOK
<1>6. IdleMeansDrained'
    <2>1. pendingRequests = <<>> => a = <<>>
        BY <1>2, <1>3, EmptySeq
    <2>2. QED
        BY <2>1, <1>1 DEF IInv, IdleMeansDrained
<1>7. OneInFlight' /\ NoOvertaking' /\ IdsInOrder'
    BY <1>1 DEF IInv, OneInFlight, NoOvertaking, IdsInOrder
<1>8. QueueIsExact'
    <2>1. PendingIds' = PendingIds
        BY <1>1, <1>3 DEF PendingIds
    <2>2. QED
        BY <2>1, <1>1, <1>3 DEF IInv, QueueIsExact
<1>9. ASSUME NEW k \in DOMAIN pendingRequests
      PROVE  /\ a[k].age <= REQUEST_TIMEOUT + sinceCheck' + 0
             /\ Elapsed(now', a[k].timestamp) = a[k].age
    <2> DEFINE r == pendingRequests[k]
    <2>1. r.age \in Nat /\ r.timestamp \in Times
        BY <1>2, EntryType
    <2>2. /\ r.age <= REQUEST_TIMEOUT + sinceCheck + 0
          /\ Elapsed(now, r.timestamp) = r.age
        BY <1>1 DEF IInv, AgesExact
    <2>3. r.age + 1 < ClockMod /\ r.age + 1 <= REQUEST_TIMEOUT + (sinceCheck + 1) + 0
        BY <2>1, <2>2, <1>1, <1>2, BoundsAssumption, ClockAssumption
    <2>4. Elapsed(Later(now, 1), r.timestamp) = r.age + 1
        BY <2>1, <2>2, <2>3, <1>2, ElapsedLater
    <2>5. QED
        BY <2>3, <2>4, <1>1, <1>3
<1>10. ASSUME currentRequestState = "WAITING"
       PROVE  /\ waited' <= CONFIRMATION_TIMEOUT + sinceCheck'
              /\ Elapsed(now', confirmationStartTime) = waited'
    <2>1. /\ waited \in Nat /\ confirmationStartTime \in Times
          /\ waited <= CONFIRMATION_TIMEOUT + sinceCheck
          /\ Elapsed(now, confirmationStartTime) = waited
        BY <1>10 DEF IInv, TypeOK, AgesExact
    <2>2. waited + 1 < ClockMod
          /\ waited + 1 <= CONFIRMATION_TIMEOUT + (sinceCheck + 1)
        BY <2>1, <1>1, <1>2, BoundsAssumption, ClockAssumption
    <2>3. Elapsed(Later(now, 1), confirmationStartTime) = waited + 1
        BY <2>1, <2>2, <1>2, ElapsedLater
    <2>4. QED
        BY <2>2, <2>3, <1>1, <1>10
<1>11. AgesExact'
    BY <1>1, <1>3, <1>9, <1>10 DEF AgesExact
<1>12. QED
    BY <1>5, <1>6, <1>7, <1>8, <1>11 DEF IInv

(* Every step of loop() keeps the inductive invariant.                     *)
LEMMA NextIInv ==
    ASSUME IInv, [Next]_vars
    PROVE  IInv'
<1>1. ASSUME NEW kind \in Kinds, BroadcastNow(kind)
      PROVE  IInv'
    BY <1>1, BroadcastNowIInv
<1>2. ASSUME NEW kind \in Kinds, BroadcastQueued(kind)
      PROVE  IInv'
    BY <1>2, BroadcastQueuedIInv
<1>3. CASE handleApiBroadcast
    BY <1>1, <1>2, <1>3, PassIInv DEF handleApiBroadcast
<1>4. CASE CheckRequestTimeouts
    BY <1>4, ConfirmationTimeoutIInv, NoConfirmationTimeoutIInv,
       ScanRemoveIInv, ScanKeepIInv, PassIInv DEF CheckRequestTimeouts
<1>5. ASSUME NEW i \in Ids, HandleConfirmationReceived(i)
      PROVE  IInv'
    BY <1>5, ConfirmationReceivedIInv
<1>6. CASE NoConfirmation
    BY <1>6, PassIInv
<1>7. CASE Tick
    BY <1>7, TickIInv
<1>8. CASE UNCHANGED vars
    BY <1>8 DEF vars, IInv, TypeOK, IdleMeansDrained, OneInFlight,
       NoOvertaking, QueueIsExact, PendingIds, IdsInOrder, AgesExact
<1>9. QED
    BY <1>3, <1>4, <1>5, <1>6, <1>7, <1>8 DEF Next

(* IInv holds in every state loop() can reach: the queue is exact, one     *)
(* request is in flight and the computed waiting times are the true ones.  *)
THEOREM QueueInvariant == Spec => []IInv
<1>1. Init => IInv
    BY InitIInv
<1>2. IInv /\ [Next]_vars => IInv'
    BY NextIInv
<1>3. QED
    BY <1>1, <1>2, PTL DEF Spec

(* The variables keep their types; pendingRequests never overflows.        *)
THEOREM TypeCorrect == Spec => []TypeOK
<1>1. IInv => TypeOK
    BY DEF IInv
<1>2. QED
    BY <1>1, QueueInvariant, PTL

(* An idle state machine has an empty queue.                               *)
THEOREM NothingWaitsWhenIdle == Spec => []IdleMeansDrained
<1>1. IInv => IdleMeansDrained
    BY DEF IInv
<1>2. QED
    BY <1>1, QueueInvariant, PTL

(* At most one request is in flight, the one currentRequestId names.       *)
THEOREM AtMostOneInFlight == Spec => []OneInFlight
<1>1. IInv => OneInFlight
    BY DEF IInv
<1>2. QED
    BY <1>1, QueueInvariant, PTL

(* No request overtakes one that was accepted earlier and still waits.     *)
THEOREM FirstInFirstOut == Spec => []NoOvertaking
<1>1. IInv => NoOvertaking
    BY DEF IInv
<1>2. QED
    BY <1>1, QueueInvariant, PTL

(* The array holds each waiting request exactly once and in order.         *)
THEOREM NothingLostInTheQueue == Spec => []QueueIsExact
<1>1. IInv => QueueIsExact
    BY DEF IInv
<1>2. QED
    BY <1>1, QueueInvariant, PTL

(* What a dispatch does to the status of the requests: one of them goes on *)
(* the air, the others keep theirs.                                        *)
LEMMA DispatchStatus ==
    ASSUME NEW q, NEW st \in [Ids -> Statuses], NEW d,
           ProcessNextQueuedRequest(q, d, st),
           NEW i \in Ids
    PROVE  status'[i] = st[i] \/ status'[i] \in InFlight
BY DEF ProcessNextQueuedRequest, ProcessRequest, InFlight

(* A request that waits or flies can become "expired" only in ScanRemove,  *)
(* and "timedout" only in ConfirmationTimeout.                             *)
LEMMA OtherStepsDropNothing ==
    ASSUME IInv, [Next]_vars, NEW i \in Ids
    PROVE  /\ status'[i] = "expired" /\ status[i] # "expired" =>
                 ScanRemove /\ i = pendingRequests[scan].id
           /\ status'[i] = "timedout" /\ status[i] # "timedout" =>
                 ConfirmationTimeout
<1> USE DEF InFlight
<1>1. status \in [Ids -> Statuses] /\ currentRequestId \in 0 .. MaxRequests
    BY DEF IInv, TypeOK
<1>2. ASSUME NEW kind \in Kinds, BroadcastNow(kind)
      PROVE  status'[i] \notin {"expired", "timedout"} \/ status'[i] = status[i]
    <2> DEFINE st == [status EXCEPT ![requestIdCounter + 1] = "queued"]
    <2>1. PICK d \in SendTimes(QueueRequest(kind), MaxPass - sinceCheck) :
             ProcessNextQueuedRequest(QueueRequest(kind), d, st)
        BY <1>2 DEF BroadcastNow
    <2>2. /\ st \in [Ids -> Statuses]
          /\ st[i] = status[i] \/ st[i] = "queued"
        BY <1>1 DEF Statuses
    <2> HIDE DEF st
    <2>3. QED
        BY <2>1, <2>2, DispatchStatus
<1>3. ASSUME NEW kind \in Kinds, BroadcastQueued(kind)
      PROVE  status'[i] \notin {"expired", "timedout"} \/ status'[i] = status[i]
    BY <1>1, <1>3 DEF BroadcastQueued
<1>4. CASE ConfirmationTimeout
    <2> DEFINE st == [status EXCEPT ![currentRequestId] = "timedout"]
    <2>1. PICK d \in SendTimes(pendingRequests, MaxPass) :
             ProcessNextQueuedRequest(pendingRequests, d, st)
        BY <1>4 DEF ConfirmationTimeout
    <2>2. /\ st \in [Ids -> Statuses]
          /\ st[i] = status[i] \/ st[i] = "timedout"
        BY <1>1 DEF Statuses
    <2> HIDE DEF st
    <2>3. status'[i] # "expired" \/ status'[i] = status[i]
        BY <2>1, <2>2, DispatchStatus
    <2>4. QED
        BY <2>3, <1>4
<1>5. CASE ScanRemove
    BY <1>1, <1>5 DEF ScanRemove
<1>6. ASSUME NEW j \in Ids, HandleConfirmationReceived(j)
      PROVE  status'[i] \notin {"expired", "timedout"} \/ status'[i] = status[i]
    <2> DEFINE st == [status EXCEPT ![currentRequestId] = "confirmed"]
    <2>1. PICK d \in SendTimes(pendingRequests, MaxPass - sinceCheck) :
             ProcessNextQueuedRequest(pendingRequests, d, st)
        BY <1>6 DEF HandleConfirmationReceived
    <2>2. /\ st \in [Ids -> Statuses]
          /\ st[i] = status[i] \/ st[i] = "confirmed"
        BY <1>1 DEF Statuses
    <2> HIDE DEF st
    <2>3. QED
        BY <2>1, <2>2, DispatchStatus
<1>7. CASE NoBroadcast \/ NoConfirmationTimeout \/ ScanKeep \/ ScanDone
           \/ NoConfirmation \/ Tick \/ UNCHANGED vars
    BY <1>7 DEF NoBroadcast, NoConfirmationTimeout, ScanKeep, ScanDone,
       NoConfirmation, Tick, vars
<1>8. QED
    BY <1>2, <1>3, <1>4, <1>5, <1>6, <1>7
       DEF Next, handleApiBroadcast, CheckRequestTimeouts

(* No request is dropped before it has waited REQUEST_TIMEOUT_MS in real   *)
(* time, whatever the wrapping clock reads.                                *)
THEOREM NeverExpiresEarly == Spec => NoEarlyExpiry
<1> DEFINE A == \A k \in DOMAIN pendingRequests :
                    status'[pendingRequests[k].id] = "expired"
                        => pendingRequests[k].age > REQUEST_TIMEOUT
<1>1. ASSUME IInv, [Next]_vars
      PROVE  A
    <2> SUFFICES ASSUME NEW k \in DOMAIN pendingRequests,
                        status'[pendingRequests[k].id] = "expired"
                 PROVE  pendingRequests[k].age > REQUEST_TIMEOUT
        OBVIOUS
    <2> DEFINE i == pendingRequests[k].id
    <2>1. i \in Ids /\ status[i] = "queued"
        BY <1>1 DEF IInv, QueueIsExact, PendingIds
    <2>2. ScanRemove /\ i = pendingRequests[scan].id
        BY <1>1, <2>1, OtherStepsDropNothing
    <2>3. /\ DOMAIN pendingRequests = 1 .. Len(pendingRequests)
          /\ Len(pendingRequests) \in Nat
          /\ scan \in 1 .. Len(pendingRequests)
          /\ pc = "scan"
          /\ sinceCheck \in 0 .. MaxPass
        BY <1>1, <2>2, LenProperties
           DEF IInv, TypeOK, AgesExact, ScanRemove
    <2>4. k = scan
        <3>1. ~(pendingRequests[k].id < pendingRequests[scan].id)
              /\ ~(pendingRequests[scan].id < pendingRequests[k].id)
            BY <2>1, <2>2, BoundsAssumption DEF Ids
        <3>2. ~(k < scan) /\ ~(scan < k)
            BY <3>1, <1>1, <2>3 DEF IInv, QueueIsExact
        <3>3. QED
            BY <3>2, <2>3
    <2>5. /\ pendingRequests[scan].age \in Nat
          /\ Elapsed(currentTime, pendingRequests[scan].timestamp)
                 = pendingRequests[scan].age - sinceCheck
        BY <1>1, <2>3, EntryType DEF IInv, AgesExact, TypeOK
    <2>6. Elapsed(currentTime, pendingRequests[scan].timestamp) > REQUEST_TIMEOUT
        BY <2>2 DEF ScanRemove, RequestExpired
    <2>7. QED
        BY <2>3, <2>4, <2>5, <2>6, BoundsAssumption
<1>2. IInv /\ [Next]_vars => [A]_vars
    BY <1>1
<1>3. QED
    BY <1>2, QueueInvariant, PTL DEF Spec, NoEarlyExpiry

(* The firmware never gives up on a confirmation before it has waited      *)
(* CONFIRMATION_TIMEOUT_MS in real time.                                   *)
THEOREM NeverTimesOutEarly == Spec => NoEarlyTimeout
<1> DEFINE A == \A i \in Ids :
                    status[i] \in InFlight /\ status'[i] = "timedout"
                        => waited > CONFIRMATION_TIMEOUT
<1>1. ASSUME IInv, [Next]_vars
      PROVE  A
    <2> SUFFICES ASSUME NEW i \in Ids, status[i] \in InFlight,
                        status'[i] = "timedout"
                 PROVE  waited > CONFIRMATION_TIMEOUT
        OBVIOUS
    <2>1. ConfirmationTimeout
        BY <1>1, OtherStepsDropNothing DEF InFlight
    <2>2. QED
        BY <1>1, <2>1
           DEF IInv, AgesExact, ConfirmationTimeout, ConfirmationExpired
<1>2. IInv /\ [Next]_vars => [A]_vars
    BY <1>1
<1>3. QED
    BY <1>2, QueueInvariant, PTL DEF Spec, NoEarlyTimeout

(* No request and no confirmation is waited for longer than its timeout    *)
(* and the passes of loop() around it: each is looked at once in a pass.   *)
THEOREM NoWaitIsLong == Spec => []WaitsAreBounded
<1>1. ASSUME IInv
      PROVE  WaitsAreBounded
    <2>1. sinceCheck \in 0 .. MaxPass /\ waited \in Nat
          /\ pendingRequests \in Seq(Requests)
        BY <1>1 DEF IInv, TypeOK
    <2>2. ASSUME NEW k \in DOMAIN pendingRequests
          PROVE  pendingRequests[k].age <= REQUEST_TIMEOUT + 2 * MaxPass
        <3>1. pendingRequests[k].age \in Nat
            BY <2>1, EntryType
        <3>2. pendingRequests[k].age <= REQUEST_TIMEOUT + sinceCheck
                  + (IF pc = "scan" /\ k <= scan THEN MaxPass ELSE 0)
            BY <1>1 DEF IInv, AgesExact
        <3>3. QED
            BY <2>1, <3>1, <3>2, BoundsAssumption
    <2>3. currentRequestState = "WAITING" => waited <= CONFIRMATION_TIMEOUT + sinceCheck
        BY <1>1 DEF IInv, AgesExact
    <2>4. QED
        BY <2>1, <2>2, <2>3, BoundsAssumption DEF WaitsAreBounded
<1>2. QED
    BY <1>1, QueueInvariant, PTL

-----------------------------------------------------------------------------
(* The queue implements BroadcastTurns: each step of loop() is one of its  *)
(* steps or changes nothing it sees.                                       *)

(* The requests st calls queued, and what st has settled. *)
QueuedIn(st) == {i \in Ids : st[i] = "queued"}
SettledIn(st) == [i \in Ids |-> IF st[i] \in Landed THEN st[i] ELSE "none"]

(* The array holds the requests that status calls queued. *)
LEMMA WaitingIsQueued ==
    ASSUME IInv
    PROVE  PendingIds = QueuedIn(status) /\ Outcomes = SettledIn(status)
BY DEF IInv, QueueIsExact, QueuedIn, Outcomes, SettledIn

(* A dispatch is the next turn among the requests that st calls queued,    *)
(* and settles nothing by itself.                                          *)
LEMMA DispatchIsNextTurn ==
    ASSUME NEW q, NEW st, NEW d \in Nat,
           Dispatchable(q, st),
           ProcessNextQueuedRequest(q, d, st)
    PROVE  BT!NextTurn(QueuedIn(st)) /\ Outcomes' = SettledIn(st)
<1> DEFINE S == QueuedIn(st)
<1>1. S = {q[k].id : k \in DOMAIN q}
    BY DEF Dispatchable, QueuedIn
<1>2. /\ QueueIsExact'
      /\ PendingIds' = {i \in Ids : status'[i] = "queued"}
    BY DispatchKeepsOrder DEF QueueIsExact
<1>3. CASE q = <<>>
    <2>1. S = {} /\ status' = st /\ currentRequestState' = "IDLE"
        BY <1>1, <1>3 DEF ProcessNextQueuedRequest
    <2>2. PendingIds' = {} /\ Flying' = BT!Nobody
        BY <1>2, <2>1 DEF QueuedIn, Flying, BT!Nobody
    <2>3. QED
        BY <2>1, <2>2 DEF BT!NextTurn, Outcomes, SettledIn
<1>4. CASE q # <<>>
    <2> DEFINE h == Head(q).id
               v == IF Head(q).kind = "oversize" THEN "refused" ELSE "sent"
    <2>1. /\ q \in Seq(Requests) /\ st \in [Ids -> Statuses]
          /\ \A j, k \in DOMAIN q : j < k => q[j].id < q[k].id
        BY DEF Dispatchable
    <2>2. Head(q) = q[1] /\ Len(q) \in Nat \ {0} /\ DOMAIN q = 1 .. Len(q)
        BY <1>4, <2>1, TailProps, LenProperties
    <2>3. \A k \in DOMAIN q : q[k].id \in Ids
        BY <2>1, EntryType
    <2>4. /\ currentRequestState' = "WAITING"
          /\ currentRequestId' = h
          /\ status' = [st EXCEPT ![h] = v]
        BY <1>4 DEF ProcessNextQueuedRequest, ProcessRequest
    <2>5. h \in S /\ h \in Ids /\ st[h] = "queued"
        BY <1>1, <2>2 DEF QueuedIn
    <2>6. \A j \in S : h <= j
        <3> SUFFICES ASSUME NEW k \in DOMAIN q PROVE h <= q[k].id
            BY <1>1
        <3>1. k = 1 \/ 1 < k
            BY <2>2
        <3>2. QED
            BY <3>1, <2>1, <2>2, <2>3 DEF Ids
    <2>7. v \notin Landed /\ v # "queued"
        BY DEF Landed
    <2> HIDE DEF v, h
    <2>8. \A i \in Ids : status'[i] = IF i = h THEN v ELSE st[i]
        BY <2>1, <2>4
    <2>9. PendingIds' = S \ {h}
        BY <1>2, <2>7, <2>8 DEF QueuedIn
    <2>10. Flying' = h
        BY <2>4 DEF Flying
    <2>11. Outcomes' = SettledIn(st)
        <3>1. st[h] \notin Landed
            BY <2>5 DEF Landed
        <3>2. QED
            BY <2>5, <2>7, <2>8, <3>1 DEF Outcomes, SettledIn
    <2>12. QED
        BY <2>5, <2>6, <2>9, <2>10, <2>11 DEF BT!NextTurn
<1>5. QED
    BY <1>3, <1>4

(* The idle branch of handleApiBroadcast accepts a request whose turn it is. *)
LEMMA BroadcastNowIsAccept ==
    ASSUME IInv, NEW kind \in Kinds, BroadcastNow(kind)
    PROVE  BT!Accept
<1> DEFINE q == QueueRequest(kind)
           n == requestIdCounter + 1
           st == [status EXCEPT ![n] = "queued"]
<1>1. /\ currentRequestState = "IDLE" /\ requestIdCounter < MaxRequests
      /\ requestIdCounter' = n
    BY DEF BroadcastNow, Busy, IInv, TypeOK
<1>2. PICK d \in SendTimes(q, MaxPass - sinceCheck) :
          ProcessNextQueuedRequest(q, d, st)
    BY DEF BroadcastNow
<1>3. d \in Nat
    BY SendTimesBound, BoundsAssumption DEF IInv, TypeOK
<1>4. Enqueued(q, st, kind)
    BY <1>1, EnqueueProps
<1>5. \A i \in Ids : status[i] \notin InFlight
    BY <1>1 DEF IInv, OneInFlight
<1>6. \A i \in Ids : st[i] = IF i = n THEN "queued" ELSE status[i]
    BY DEF IInv, TypeOK
<1>7. n \in Ids /\ status[n] = "none"
    BY <1>4 DEF Enqueued
<1> HIDE DEF q, st, n
<1>8. Dispatchable(q, st)
    BY <1>4, <1>5 DEF Dispatchable, Enqueued
<1>9. QueuedIn(st) = PendingIds \cup {n}
    BY <1>6, <1>7, WaitingIsQueued DEF QueuedIn
<1>10. SettledIn(st) = Outcomes
    BY <1>6, <1>7, WaitingIsQueued DEF SettledIn, Landed
<1>11. BT!NextTurn(PendingIds \cup {n}) /\ Outcomes' = Outcomes
    BY <1>2, <1>3, <1>8, <1>9, <1>10, DispatchIsNextTurn
<1>12. Flying = BT!Nobody
    BY <1>1 DEF Flying, BT!Nobody
<1>13. QED
    BY <1>1, <1>11, <1>12 DEF BT!Accept, n

(* The counting of BroadcastTurns is that of FiniteSets. *)
LEMMA TurnsCardinality == \A S : BT!Cardinality(S) = Cardinality(S)
BY DEF BT!Cardinality, Cardinality

(* The array has a place for each request that waits. *)
LEMMA WaitingFits ==
    ASSUME IInv
    PROVE  /\ Cardinality(PendingIds) \in Nat
           /\ Cardinality(PendingIds) <= Len(pendingRequests)
<1> DEFINE L == Len(pendingRequests)
           f == [k \in 1 .. L |-> pendingRequests[k].id]
<1>1. L \in Nat /\ DOMAIN pendingRequests = 1 .. L
    BY LenProperties DEF IInv, TypeOK
<1>2. f \in Surjection(1 .. L, PendingIds)
    BY <1>1 DEF PendingIds, Surjection
<1> HIDE DEF f, L
<1>3. IsFiniteSet(1 .. L) /\ Cardinality(1 .. L) = L
    <2>1. 1 \in Int /\ L \in Int
        BY <1>1
    <2>2. /\ IsFiniteSet(1 .. L)
          /\ Cardinality(1 .. L) = IF 1 > L THEN 0 ELSE L - 1 + 1
        BY <2>1, FS_Interval
    <2>3. (IF 1 > L THEN 0 ELSE L - 1 + 1) = L
        BY <1>1
    <2>4. QED
        BY <2>2, <2>3
<1>4. IsFiniteSet(PendingIds) /\ Cardinality(PendingIds) <= L
    BY <1>2, <1>3, FS_Surjection
<1>5. Cardinality(PendingIds) \in Nat
    BY <1>4, FS_CardinalityType
<1>6. QED
    BY <1>4, <1>5 DEF L

(* The busy branch accepts a request that waits. *)
LEMMA BroadcastQueuedIsAccept ==
    ASSUME IInv, IInv', NEW kind \in Kinds, BroadcastQueued(kind)
    PROVE  BT!Accept
<1> DEFINE n == requestIdCounter + 1
<1>1. /\ currentRequestState = "WAITING" /\ currentRequestState' = "WAITING"
      /\ requestIdCounter < MaxRequests /\ requestIdCounter' = n
      /\ Len(pendingRequests) < MAX_PENDING_REQUESTS
      /\ status' = [status EXCEPT ![n] = "queued"]
      /\ currentRequestId' = currentRequestId
    BY DEF BroadcastQueued, Busy, QueueHasRoom, IInv, TypeOK
<1>2. n \in Ids /\ status[n] = "none"
    BY <1>1, EnqueueProps DEF Enqueued
<1> HIDE DEF n
<1>3. \A i \in Ids : status'[i] = IF i = n THEN "queued" ELSE status[i]
    BY <1>1 DEF IInv, TypeOK
<1>4. PendingIds' = {i \in Ids : status'[i] = "queued"}
    BY DEF IInv, QueueIsExact
<1>5. PendingIds' = PendingIds \cup {n}
    BY <1>2, <1>3, <1>4, WaitingIsQueued DEF QueuedIn
<1>6. Outcomes' = Outcomes
    BY <1>2, <1>3 DEF Outcomes, Landed
<1>7. Flying' = Flying /\ Flying # BT!Nobody
    BY <1>1 DEF Flying, BT!Nobody, IInv, IdsInOrder, Ids
<1>8. Len(pendingRequests) \in Nat
    BY LenProperties DEF IInv, TypeOK
<1>9. BT!Cardinality(PendingIds) < MAX_PENDING_REQUESTS
    BY <1>1, <1>8, WaitingFits, TurnsCardinality, BoundsAssumption
<1>10. QED
    BY <1>1, <1>5, <1>6, <1>7, <1>9 DEF BT!Accept, n

(* A confirmation, or its timeout, lands the flight and starts the next.   *)
LEMMA LandingIsLand ==
    ASSUME IInv, NEW how \in {"confirmed", "timedout"}, NEW d \in Nat,
           currentRequestState = "WAITING",
           requestIdCounter' = requestIdCounter,
           ProcessNextQueuedRequest(pendingRequests, d,
               [status EXCEPT ![currentRequestId] = how])
    PROVE  BT!Land(how)
<1> DEFINE st == [status EXCEPT ![currentRequestId] = how]
<1>1. Dispatchable(pendingRequests, st) /\ currentRequestId \in Ids
    BY LandedIsDispatchable
<1>2. BT!NextTurn(QueuedIn(st)) /\ Outcomes' = SettledIn(st)
    BY <1>1, DispatchIsNextTurn
<1>3. \A i \in Ids : st[i] = IF i = currentRequestId THEN how ELSE status[i]
    BY DEF IInv, TypeOK
<1>4. status[currentRequestId] \in InFlight
    BY <1>1 DEF IInv, OneInFlight
<1> HIDE DEF st
<1>5. QueuedIn(st) = PendingIds
    BY <1>3, <1>4, WaitingIsQueued DEF QueuedIn, InFlight
<1>6. Flying = currentRequestId /\ Flying # BT!Nobody
    BY <1>1 DEF Flying, BT!Nobody, Ids
<1>7. SettledIn(st) = [Outcomes EXCEPT ![Flying] = how]
    <2>1. how \in Landed
        BY DEF Landed
    <2>2. QED
        BY <1>1, <1>3, <1>6, <2>1 DEF SettledIn, Outcomes
<1>8. QED
    BY <1>2, <1>5, <1>6, <1>7 DEF BT!Land

(* The scan gives up the request it removes. *)
LEMMA ScanRemoveIsGiveUp ==
    ASSUME IInv, IInv', ScanRemove
    PROVE  \E i \in PendingIds : BT!GiveUp(i)
<1> DEFINE x == pendingRequests[scan].id
<1>1. /\ status' = [status EXCEPT ![x] = "expired"]
      /\ currentRequestState' = currentRequestState
      /\ currentRequestId' = currentRequestId
      /\ requestIdCounter' = requestIdCounter
      /\ scan > 0 /\ pc = "scan"
    BY DEF ScanRemove
<1>2. scan \in DOMAIN pendingRequests
    <2>1. /\ DOMAIN pendingRequests = 1 .. Len(pendingRequests)
          /\ Len(pendingRequests) \in Nat
        BY LenProperties DEF IInv, TypeOK
    <2>2. QED
        BY <1>1, <2>1 DEF IInv, TypeOK, AgesExact
<1>3. x \in PendingIds
    BY <1>2 DEF PendingIds
<1> HIDE DEF x
<1>4. x \in Ids /\ status[x] = "queued"
    BY <1>3, WaitingIsQueued DEF QueuedIn
<1>5. \A i \in Ids : status'[i] = IF i = x THEN "expired" ELSE status[i]
    BY <1>1 DEF IInv, TypeOK
<1>6. PendingIds' = {i \in Ids : status'[i] = "queued"}
    BY DEF IInv, QueueIsExact
<1>7. PendingIds' = PendingIds \ {x}
    BY <1>4, <1>5, <1>6, WaitingIsQueued DEF QueuedIn
<1>8. Outcomes' = [Outcomes EXCEPT ![x] = "expired"]
    BY <1>4, <1>5 DEF Outcomes, Landed
<1>9. Flying' = Flying
    BY <1>1 DEF Flying
<1>10. QED
    BY <1>1, <1>3, <1>7, <1>8, <1>9 DEF BT!GiveUp

(* What happens to neither the queue's order nor its flight is no turn.    *)
LEMMA OtherStepsTakeNoTurn ==
    ASSUME IInv, IInv',
           \/ NoBroadcast \/ NoConfirmationTimeout \/ ScanKeep \/ ScanDone
           \/ NoConfirmation \/ Tick \/ UNCHANGED vars
    PROVE  UNCHANGED <<requestIdCounter, PendingIds, Flying, Outcomes>>
<1>1. /\ status' = status /\ currentRequestId' = currentRequestId
      /\ currentRequestState' = currentRequestState
      /\ requestIdCounter' = requestIdCounter
    BY DEF NoBroadcast, NoConfirmationTimeout, ScanKeep, ScanDone,
           NoConfirmation, Tick, vars
<1>2. PendingIds' = {i \in Ids : status'[i] = "queued"}
    BY DEF IInv, QueueIsExact
<1>3. QED
    BY <1>1, <1>2, WaitingIsQueued DEF QueuedIn, Flying, Outcomes

(* Each step of loop() is a turn or none. *)
LEMMA StepIsTurn ==
    ASSUME IInv, IInv', [Next]_vars
    PROVE  [BT!Next]_<<requestIdCounter, PendingIds, Flying, Outcomes>>
<1>1. ASSUME NEW kind \in Kinds, BroadcastNow(kind) \/ BroadcastQueued(kind)
      PROVE  BT!Next
    BY <1>1, BroadcastNowIsAccept, BroadcastQueuedIsAccept DEF BT!Next
<1>2. CASE ConfirmationTimeout
    <2>1. PICK d \in SendTimes(pendingRequests, MaxPass) :
              ProcessNextQueuedRequest(pendingRequests, d,
                  [status EXCEPT ![currentRequestId] = "timedout"])
        BY <1>2 DEF ConfirmationTimeout
    <2>2. d \in Nat
        BY SendTimesBound, BoundsAssumption
    <2>3. BT!Land("timedout")
        BY <1>2, <2>1, <2>2, LandingIsLand
           DEF ConfirmationTimeout, ConfirmationExpired
    <2>4. QED
        BY <2>3 DEF BT!Next
<1>3. ASSUME NEW i \in Ids, HandleConfirmationReceived(i)
      PROVE  BT!Next
    <2>1. PICK d \in SendTimes(pendingRequests, MaxPass - sinceCheck) :
              ProcessNextQueuedRequest(pendingRequests, d,
                  [status EXCEPT ![currentRequestId] = "confirmed"])
        BY <1>3 DEF HandleConfirmationReceived
    <2>2. d \in Nat
        BY SendTimesBound, BoundsAssumption DEF IInv, TypeOK
    <2>3. BT!Land("confirmed")
        BY <1>3, <2>1, <2>2, LandingIsLand DEF HandleConfirmationReceived
    <2>4. QED
        BY <2>3 DEF BT!Next
<1>4. CASE ScanRemove
    BY <1>4, ScanRemoveIsGiveUp DEF BT!Next
<1>5. QED
    BY <1>1, <1>2, <1>3, <1>4, OtherStepsTakeNoTurn
       DEF Next, handleApiBroadcast, CheckRequestTimeouts

(* The array, the clock and the pass of loop() implement turns: one flight *)
(* at a time, the oldest request next and at once, none lost.              *)
THEOREM QueueImplementsTurns == Spec => ImplementsTurns
<1>1. Init => BT!Init
    BY DEF Init, BT!Init, BT!Nobody, PendingIds, Flying, Outcomes, Landed, Ids
<1>2. IInv /\ IInv' /\ [Next]_vars
          => [BT!Next]_<<requestIdCounter, PendingIds, Flying, Outcomes>>
    BY StepIsTurn
<1>3. QED
    BY <1>1, <1>2, QueueInvariant, PTL
       DEF Spec, ImplementsTurns, BT!Spec, BT!turnVars
=============================================================================
