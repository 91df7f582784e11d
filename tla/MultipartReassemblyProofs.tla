---------------------- MODULE MultipartReassemblyProofs ----------------------
(***************************************************************************)
(* Proofs about MultipartReassembly: every safety property of the runs,    *)
(* and that the array of sessions implements the table of PartTable.       *)
(*                                                                         *)
(* Everything rests on the sessions having different keys, so that the     *)
(* search, the creation and the shifting of the array can be described by  *)
(* what they do to the session of one key (Found, Removed).  Two parts of  *)
(* the invariant speak of messages.  Pure: while no message overlapped a   *)
(* session, all its parts are of one message, the only one of its key that *)
(* may be on its way.  OnItsWay: the session of a message that has lost    *)
(* nothing holds exactly the parts sent so far.                            *)
(***************************************************************************)
EXTENDS MultipartReassembly, FiniteSetTheorems, FunctionTheorems, SequenceTheorems, TLAPS

KeysDiffer(buf) == \A i, j \in DOMAIN buf : buf[i].key = buf[j].key => i = j

\* A node is blocked while it sends, so it sends one message at a time.
OneSender ==
    \A m, n \in Messages : m.src = n.src /\ Sending(m) /\ Sending(n) => m = n

PureOf(s, m) ==
    /\ Key(m) = s.key /\ s.totalParts = m.total
    /\ DOMAIN s.parts \subseteq 1 .. m.total
    /\ \A p \in DOMAIN s.parts : s.parts[p] = m
    /\ \A n \in Messages : Key(n) = s.key /\ Sending(n) => n = m

Pure ==
    \A i \in DOMAIN multipartBuffer :
        \/ multipartBuffer[i].key \in overlapped
        \/ \E m \in Messages : PureOf(multipartBuffer[i], m)

\* The session of m with the parts before its next one, and no other.
Kept(m) ==
    \E i \in DOMAIN multipartBuffer :
        /\ multipartBuffer[i].key = Key(m)
        /\ multipartBuffer[i].totalParts = m.total
        /\ multipartBuffer[i].parts = [q \in 1 .. (nextPart[m] - 1) |-> m]

WayOf(m) == Sending(m) => IF nextPart[m] = 1 THEN Holding(Key(m)) = {} ELSE Kept(m)

OnItsWay == \A m \in Messages \ spoiled : WayOf(m)

\* No session is counted wrongly, and the array has one for a key.
Table == TypeOK /\ KeysDiffer(multipartBuffer) /\ CountExact

IInv ==
    /\ Table /\ AgeBounded
    /\ OneSender /\ Pure /\ OnItsWay
    /\ WholeUnlessOverlap /\ NothingLostMeansDelivered

-----------------------------------------------------------------------------
(* The array.                                                              *)

LEMMA Constants ==
    /\ MAX_MULTIPART_PARTS \in Nat \ {0} /\ Slots \in Nat \ {0}
    /\ MULTIPART_TIMEOUT \in Nat /\ MaxPass \in Nat
    /\ ClockMod \in Nat /\ ClockMod > MULTIPART_TIMEOUT + 2 * MaxPass
    /\ \A m \in Messages : m.total \in 1 .. MAX_MULTIPART_PARTS /\ Key(m) \in Keys
  BY BoundsAssumption, ClockAssumption, MessagesAssumption DEF Keys

LEMMA SessionParts ==
    ASSUME NEW s \in Sessions
    PROVE  /\ IsFiniteSet(DOMAIN s.parts)
           /\ DOMAIN s.parts \in SUBSET (1 .. MAX_MULTIPART_PARTS)
           /\ \A p \in DOMAIN s.parts : s.parts[p] \in Messages
           /\ s.parts = [p \in DOMAIN s.parts |-> s.parts[p]]
<1>1. PICK S \in SUBSET (1 .. MAX_MULTIPART_PARTS) : s.parts \in [S -> Messages]
  BY DEF Sessions
<1>2. IsFiniteSet(1 .. MAX_MULTIPART_PARTS)
  BY Constants, FS_Interval
<1>3. QED
  BY <1>1, <1>2, FS_Subset

LEMMA CreatedOK ==
    ASSUME NEW m \in Messages
    PROVE  /\ CreateMultipartSession(m) \in Sessions
           /\ CreateMultipartSession(m).parts = <<>>
           /\ DOMAIN CreateMultipartSession(m).parts = {}
           /\ Cardinality(DOMAIN CreateMultipartSession(m).parts) = 0
<1>1. DOMAIN <<>> = {} /\ <<>> \in [{} -> Messages]
  OBVIOUS
<1>2. <<>> \in UNION {[S -> Messages] : S \in SUBSET (1 .. MAX_MULTIPART_PARTS)}
  BY <1>1
<1>3. CreateMultipartSession(m) \in Sessions
  BY <1>2, Constants DEF CreateMultipartSession, Sessions
<1>4. Cardinality({}) = 0
  BY FS_EmptySet
<1>5. QED
  BY <1>1, <1>3, <1>4 DEF CreateMultipartSession

\* The first session of a key is the only one.
LEMMA FindOnly ==
    ASSUME NEW i \in DOMAIN multipartBuffer, DOMAIN multipartBuffer \subseteq Nat,
           KeysDiffer(multipartBuffer)
    PROVE  /\ Holding(multipartBuffer[i].key) = {i}
           /\ FindMultipartSession(multipartBuffer[i].key) = i
<1> DEFINE H == Holding(multipartBuffer[i].key)
<1>1. H = {i}
  BY DEF Holding, KeysDiffer
<1>2. i \in H /\ \A j \in H : i <= j
  BY <1>1
<1>3. (CHOOSE a \in H : \A j \in H : a <= j) \in H
  BY <1>2
<1>4. QED
  BY <1>1, <1>3 DEF FindMultipartSession

\* What find-or-create gives: the sessions L with m's in slot i.
Found(m, L, i) ==
    /\ L \in Seq(Sessions) /\ i \in 1 .. Len(L) /\ KeysDiffer(L)
    /\ L[i].key = Key(m)
    /\ \A j \in 1 .. Len(multipartBuffer) : j \in 1 .. Len(L) /\ L[j] = multipartBuffer[j]
    /\ \A j \in 1 .. Len(L) : j # i => j \in 1 .. Len(multipartBuffer)
    /\ Holding(Key(m)) # {} => L = multipartBuffer
    /\ Holding(Key(m)) = {} => /\ L[i] = CreateMultipartSession(m)
                               /\ Len(L) = Len(multipartBuffer) + 1 /\ i = Len(L)
    /\ Cardinality(DOMAIN L[i].parts) = L[i].receivedParts

LEMMA FindOrCreate ==
    ASSUME Table, NEW m \in Messages
    PROVE  Found(m, Located(m), Slot(m)) /\ Session(m) = Located(m)[Slot(m)]
<1> DEFINE L == Located(m)
           i == Slot(m)
           n == Len(multipartBuffer)
<1>1. /\ multipartBuffer \in Seq(Sessions) /\ n \in Nat
      /\ DOMAIN multipartBuffer = 1 .. n
  BY LenProperties DEF Table, TypeOK
<1>2. CASE Holding(Key(m)) # {}
  <2>1. PICK j \in 1 .. n : multipartBuffer[j].key = Key(m)
    BY <1>1, <1>2 DEF Holding
  <2>2. FindMultipartSession(Key(m)) = j /\ j # 0
    BY <1>1, <2>1, FindOnly DEF Table
  <2>3. L = multipartBuffer /\ i = j
    BY <2>2 DEF Located, Slot
  <2>4. Cardinality(DOMAIN L[i].parts) = L[i].receivedParts
    BY <1>1, <2>3 DEF Table, CountExact
  <2> HIDE DEF L, i
  <2>5. /\ L \in Seq(Sessions) /\ i \in 1 .. Len(L) /\ L[i].key = Key(m)
    BY <1>1, <2>1, <2>3
  <2>5a. KeysDiffer(L)
    BY <2>3 DEF Table
  <2>5b. Found(m, L, i)
    BY <1>1, <1>2, <2>3, <2>4, <2>5, <2>5a DEF Found
  <2>6. QED
    BY <2>5b DEF Session, L, i
<1>3. CASE Holding(Key(m)) = {}
  <2> DEFINE s == CreateMultipartSession(m)
  <2>1. L = Append(multipartBuffer, s) /\ i = n + 1
    BY <1>3 DEF FindMultipartSession, Located, Slot
  <2>2. s \in Sessions /\ s.key = Key(m)
    BY CreatedOK DEF CreateMultipartSession
  <2>3. /\ L \in Seq(Sessions) /\ Len(L) = n + 1 /\ L[n + 1] = s
        /\ \A j \in 1 .. n : L[j] = multipartBuffer[j]
        /\ DOMAIN L = 1 .. (n + 1)
    BY <1>1, <2>1, <2>2, AppendProperties
  <2>4. \A j \in 1 .. n : multipartBuffer[j].key # Key(m)
    BY <1>1, <1>3 DEF Holding
  <2> HIDE DEF L, i, s
  <2>5. KeysDiffer(L)
    BY <1>1, <2>2, <2>3, <2>4 DEF Table, KeysDiffer
  <2>6. Cardinality(DOMAIN s.parts) = s.receivedParts
    BY CreatedOK DEF s, CreateMultipartSession
  <2>7. Found(m, L, i)
    BY <1>1, <1>3, <2>1, <2>2, <2>3, <2>5, <2>6 DEF Found, s
  <2>8. QED
    BY <2>7 DEF Session, L, i
<1>4. QED
  BY <1>2, <1>3

\* What removing session i of buf gives: the others.
Removed(buf, i, r) ==
    /\ r \in Seq(Sessions) /\ Len(r) = Len(buf) - 1 /\ KeysDiffer(r)
    /\ \A j \in 1 .. Len(r) :
         /\ r[j] = IF j < i THEN buf[j] ELSE buf[j + 1]
         /\ \E a \in 1 .. Len(buf) : a # i /\ r[j] = buf[a]
    /\ \A a \in 1 .. Len(buf) : a # i => \E j \in 1 .. Len(r) : r[j] = buf[a]

LEMMA RemoveOne ==
    ASSUME NEW buf \in Seq(Sessions), KeysDiffer(buf), NEW i \in 1 .. Len(buf)
    PROVE  Removed(buf, i, RemoveMultipartSession(buf, i))
<1> DEFINE n == Len(buf)
           r == RemoveMultipartSession(buf, i)
<1>1. n \in Nat /\ n >= 1 /\ DOMAIN buf = 1 .. n /\ \A j \in 1 .. n : buf[j] \in Sessions
  BY LenProperties
<1>2. r = [j \in 1 .. (n - 1) |-> IF j < i THEN buf[j] ELSE buf[j + 1]]
  BY DEF RemoveMultipartSession
<1> HIDE DEF n, r
<1>3. \A j \in 1 .. (n - 1) : r[j] = IF j < i THEN buf[j] ELSE buf[j + 1]
  BY <1>2
<1>4. \A j \in 1 .. (n - 1) : r[j] \in Sessions
  BY <1>1, <1>3
<1>5. r \in [1 .. (n - 1) -> Sessions]
  BY <1>2, <1>4
<1>6. n - 1 \in Nat
  BY <1>1
<1>7. r \in Seq(Sessions) /\ Len(r) = n - 1 /\ DOMAIN r = 1 .. (n - 1)
  BY <1>5, <1>6
<1>8. i \in 1 .. n
  BY DEF n
<1>9. ASSUME NEW j \in 1 .. (n - 1)
      PROVE  \E a \in 1 .. n : a # i /\ r[j] = buf[a]
  <2>1. CASE j < i
    BY <1>1, <1>3, <1>8, <2>1
  <2>2. CASE ~(j < i)
    <3>1. j + 1 \in 1 .. n /\ j + 1 # i /\ r[j] = buf[j + 1]
      BY <1>1, <1>3, <1>8, <2>2
    <3>2. QED
      BY <3>1
  <2>3. QED
    BY <2>1, <2>2
<1>10. ASSUME NEW a \in 1 .. n, a # i
       PROVE  \E j \in 1 .. (n - 1) : r[j] = buf[a]
  <2>1. CASE a < i
    BY <1>1, <1>3, <1>8, <2>1
  <2>2. CASE ~(a < i)
    <3>1. a - 1 \in 1 .. (n - 1) /\ ~(a - 1 < i) /\ (a - 1) + 1 = a
      BY <1>1, <1>8, <1>10, <2>2
    <3>2. r[a - 1] = buf[a]
      BY <1>3, <3>1
    <3>3. QED
      BY <3>1, <3>2
  <2>3. QED
    BY <2>1, <2>2
<1>11. KeysDiffer(r)
  <2> SUFFICES ASSUME NEW j \in 1 .. (n - 1), NEW k \in 1 .. (n - 1), r[j].key = r[k].key
               PROVE  j = k
    BY <1>7 DEF KeysDiffer
  <2> DEFINE up(x) == IF x < i THEN x ELSE x + 1
  <2>1. /\ up(j) \in 1 .. n /\ up(k) \in 1 .. n
        /\ r[j] = buf[up(j)] /\ r[k] = buf[up(k)]
    BY <1>1, <1>3, <1>8
  <2>2. up(j) = up(k)
    BY <1>1, <2>1 DEF KeysDiffer
  <2>3. QED
    BY <1>8, <2>2
<1>12. QED
  BY <1>3, <1>7, <1>9, <1>10, <1>11 DEF Removed, n, r

-----------------------------------------------------------------------------
(* The part that arrives.                                                  *)

LEMMA PartNumber ==
    ASSUME NEW m \in Messages, Sending(m)
    PROVE  /\ nextPart[m] \in 1 .. m.total /\ nextPart[m] \in Nat
           /\ nextPart[m] \in 1 .. MAX_MULTIPART_PARTS
           /\ m.total \in Nat /\ nextPart[m] # 0
  BY Constants DEF Sending

\* A session counts a part more, and that part is of m.
Grown(m, s, w) ==
    /\ w \in Sessions /\ w.key = Key(m)
    /\ w.totalParts = s.totalParts /\ w.elapsed = s.elapsed
    /\ w.receivedParts = s.receivedParts + 1
    /\ DOMAIN w.parts = DOMAIN s.parts \cup {nextPart[m]}
    /\ w.parts = [q \in DOMAIN s.parts \cup {nextPart[m]} |->
                     IF q = nextPart[m] THEN m ELSE s.parts[q]]
    /\ w.receivedParts = Cardinality(DOMAIN w.parts)

LEMMA PartStored ==
    ASSUME Table, NEW m \in Messages, Stores(m)
    PROVE  Grown(m, Session(m), WithPart(m))
<1> DEFINE s == Session(m)
           w == WithPart(m)
           p == nextPart[m]
           D == DOMAIN s.parts \cup {p}
           filled == [q \in D |-> IF q = p THEN m ELSE s.parts[q]]
<1>1. Found(m, Located(m), Slot(m)) /\ s = Located(m)[Slot(m)]
  BY FindOrCreate
<1>2. s \in Sessions /\ s.key = Key(m) /\ Cardinality(DOMAIN s.parts) = s.receivedParts
  <2>1. Located(m) \in Seq(Sessions) /\ Slot(m) \in 1 .. Len(Located(m))
    BY <1>1 DEF Found
  <2>2. Located(m)[Slot(m)] \in Sessions
    BY <2>1, ElementOfSeq
  <2>3. QED
    BY <1>1, <2>2 DEF Found
<1>3. Sending(m) /\ p \notin DOMAIN s.parts
  BY DEF Stores, Arrives
<1>4. p \in 1 .. MAX_MULTIPART_PARTS
  BY <1>3, PartNumber
<1>5. /\ IsFiniteSet(DOMAIN s.parts)
      /\ DOMAIN s.parts \in SUBSET (1 .. MAX_MULTIPART_PARTS)
      /\ \A q \in DOMAIN s.parts : s.parts[q] \in Messages
  BY <1>2, SessionParts
<1>6. w = [s EXCEPT !.parts = filled, !.receivedParts = @ + 1]
  BY DEF WithPart
<1> HIDE DEF s, w, p
<1>7. D \in SUBSET (1 .. MAX_MULTIPART_PARTS) /\ filled \in [D -> Messages]
  BY <1>4, <1>5
<1>8. IsFiniteSet(D) /\ Cardinality(D) = s.receivedParts + 1
  BY <1>2, <1>3, <1>5, FS_AddElement
<1>9. Cardinality(D) <= MAX_MULTIPART_PARTS
  <2>1. IsFiniteSet(1 .. MAX_MULTIPART_PARTS)
        /\ Cardinality(1 .. MAX_MULTIPART_PARTS) = MAX_MULTIPART_PARTS
    BY Constants, FS_Interval
  <2> HIDE DEF D, filled
  <2>2. Cardinality(D) <= Cardinality(1 .. MAX_MULTIPART_PARTS)
    BY <1>7, <2>1, FS_Subset
  <2>3. QED
    BY <2>1, <2>2
<1>10. filled \in UNION {[S -> Messages] : S \in SUBSET (1 .. MAX_MULTIPART_PARTS)}
  BY <1>7
<1>11. DOMAIN filled = D
  OBVIOUS
<1> HIDE DEF D, filled
<1>12. s.receivedParts + 1 \in 0 .. MAX_MULTIPART_PARTS
  BY <1>2, <1>8, <1>9, Constants DEF Sessions
<1>13. /\ w \in Sessions /\ w.key = s.key /\ w.totalParts = s.totalParts
       /\ w.elapsed = s.elapsed /\ w.receivedParts = s.receivedParts + 1
       /\ w.parts = filled
  BY <1>2, <1>6, <1>10, <1>12 DEF Sessions
<1>14. QED
  BY <1>2, <1>8, <1>11, <1>13 DEF Grown, D, filled, s, w, p

-----------------------------------------------------------------------------
(* What the steps do to the array.                                         *)

Counted(buf) ==
    \A i \in DOMAIN buf : buf[i].receivedParts = Cardinality(DOMAIN buf[i].parts)

BufferOK(buf) ==
    /\ buf \in Seq(Sessions) /\ Len(buf) <= Slots
    /\ KeysDiffer(buf) /\ Counted(buf)

LEMMA BufferIsOK ==
    ASSUME Table
    PROVE  /\ BufferOK(multipartBuffer)
           /\ DOMAIN multipartBuffer = 1 .. Len(multipartBuffer)
           /\ Len(multipartBuffer) \in Nat
           /\ \A i \in DOMAIN multipartBuffer : multipartBuffer[i] \in Sessions
<1>1. BufferOK(multipartBuffer)
  BY DEF Table, TypeOK, CountExact, BufferOK, Counted
<1>2. multipartBuffer \in Seq(Sessions)
  BY <1>1 DEF BufferOK
<1>3. QED
  BY <1>1, <1>2, LenProperties, ElementOfSeq

LEMMA FoundOK ==
    ASSUME Table, NEW m \in Messages, Stores(m)
    PROVE  /\ Found(m, Located(m), Slot(m)) /\ Session(m) = Located(m)[Slot(m)]
           /\ BufferOK(Located(m))
<1> DEFINE L == Located(m)
           i == Slot(m)
<1>1. Found(m, L, i) /\ Session(m) = L[i]
  BY FindOrCreate
<1>2. BufferOK(multipartBuffer) /\ Len(multipartBuffer) \in Nat
      /\ DOMAIN multipartBuffer = 1 .. Len(multipartBuffer)
  BY BufferIsOK
<1>3. Holding(Key(m)) # {} \/ Len(multipartBuffer) < Slots
  BY DEF Stores, HasRoom
<1> HIDE DEF L, i
<1>4. Len(L) <= Slots
  BY <1>1, <1>2, <1>3, Constants DEF Found, BufferOK
<1>5. L \in Seq(Sessions) /\ KeysDiffer(L)
  BY <1>1 DEF Found
<1>6. DOMAIN L = 1 .. Len(L)
  BY <1>5, LenProperties
<1>7. Counted(L)
  BY <1>1, <1>2, <1>6 DEF Found, BufferOK, Counted
<1>8. QED
  BY <1>1, <1>4, <1>5, <1>7 DEF BufferOK, L, i

\* StorePart replaces one session of L.
Replaced(L, i, w, buf) ==
    /\ Len(buf) = Len(L)
    /\ \A j \in 1 .. Len(L) : buf[j] = IF j = i THEN w ELSE L[j]

LEMMA StoreBuffer ==
    ASSUME Table, NEW m \in Messages, StorePart(m)
    PROVE  /\ Replaced(Located(m), Slot(m), WithPart(m), multipartBuffer')
           /\ BufferOK(multipartBuffer')
<1> DEFINE L == Located(m)
           i == Slot(m)
           w == WithPart(m)
<1>1. Stores(m) /\ multipartBuffer' = [L EXCEPT ![i] = w]
  BY DEF StorePart
<1>2. Found(m, L, i) /\ Session(m) = L[i] /\ BufferOK(L)
  BY <1>1, FoundOK
<1>3. Grown(m, L[i], w)
  BY <1>1, <1>2, PartStored
<1> HIDE DEF L, i, w
<1>4. /\ L \in Seq(Sessions) /\ i \in 1 .. Len(L) /\ w \in Sessions
      /\ Len(L) \in Nat /\ DOMAIN L = 1 .. Len(L)
  BY <1>2, <1>3, LenProperties DEF Found, Grown
<1>5. /\ multipartBuffer' \in Seq(Sessions) /\ Len(multipartBuffer') = Len(L)
      /\ DOMAIN multipartBuffer' = 1 .. Len(L)
      /\ \A j \in 1 .. Len(L) : multipartBuffer'[j] = IF j = i THEN w ELSE L[j]
  BY <1>1, <1>4, ExceptSeq
<1>6. L[i].key = Key(m) /\ w.key = Key(m)
  BY <1>2, <1>3 DEF Found, Grown
<1>7. \A j \in 1 .. Len(L) : multipartBuffer'[j].key = L[j].key
  BY <1>5, <1>6
<1>8. KeysDiffer(multipartBuffer')
  BY <1>2, <1>4, <1>5, <1>7 DEF Found, KeysDiffer
<1>9. Counted(multipartBuffer')
  BY <1>2, <1>3, <1>4, <1>5 DEF BufferOK, Counted, Grown
<1>10. Replaced(L, i, w, multipartBuffer')
  BY <1>5 DEF Replaced
<1>11. QED
  BY <1>2, <1>5, <1>8, <1>9, <1>10 DEF BufferOK, L, i, w

LEMMA RemovedOK ==
    ASSUME NEW buf, BufferOK(buf), NEW i \in 1 .. Len(buf)
    PROVE  LET r == RemoveMultipartSession(buf, i)
           IN  Removed(buf, i, r) /\ BufferOK(r)
<1> DEFINE r == RemoveMultipartSession(buf, i)
<1>1. buf \in Seq(Sessions) /\ Len(buf) \in Nat /\ DOMAIN buf = 1 .. Len(buf)
  BY LenProperties DEF BufferOK
<1>2. Removed(buf, i, r)
  BY <1>1, RemoveOne DEF BufferOK
<1> HIDE DEF r
<1>3. r \in Seq(Sessions) /\ DOMAIN r = 1 .. Len(r)
  BY <1>2, LenProperties DEF Removed
<1>4. Counted(r)
  <2> SUFFICES ASSUME NEW j \in 1 .. Len(r)
               PROVE  r[j].receivedParts = Cardinality(DOMAIN r[j].parts)
    BY <1>3 DEF Counted
  <2>1. PICK a \in 1 .. Len(buf) : r[j] = buf[a]
    BY <1>2 DEF Removed
  <2>2. buf[a].receivedParts = Cardinality(DOMAIN buf[a].parts)
    BY <1>1 DEF BufferOK, Counted
  <2>3. QED
    BY <2>1, <2>2
<1>5. Len(r) <= Slots
  BY <1>1, <1>2, Constants DEF BufferOK, Removed
<1>6. QED
  BY <1>2, <1>3, <1>4, <1>5 DEF BufferOK, Removed, r

LEMMA CompleteBuffer ==
    ASSUME Table, NEW m \in Messages, CompletePart(m)
    PROVE  /\ Removed(Located(m), Slot(m), multipartBuffer')
           /\ BufferOK(multipartBuffer')
<1>1. Stores(m) /\ multipartBuffer' = RemoveMultipartSession(Located(m), Slot(m))
  BY DEF CompletePart
<1>2. BufferOK(Located(m)) /\ Slot(m) \in 1 .. Len(Located(m))
  BY <1>1, FoundOK DEF Found
<1>3. QED
  BY <1>1, <1>2, RemovedOK

LEMMA CleanupBuffer ==
    ASSUME Table, AgeBounded, CleanupRemove
    PROVE  /\ scan \in 1 .. Len(multipartBuffer)
           /\ Removed(multipartBuffer, scan, multipartBuffer')
           /\ BufferOK(multipartBuffer')
<1>1. scan \in 1 .. Len(multipartBuffer)
  BY BufferIsOK DEF CleanupRemove, AgeBounded, Table, TypeOK
<1>2. BufferOK(multipartBuffer)
  BY BufferIsOK
<1>3. multipartBuffer' = RemoveMultipartSession(multipartBuffer, scan)
  BY DEF CleanupRemove
<1>4. QED
  BY <1>1, <1>2, <1>3, RemovedOK

\* Only the ages change, and the clock's wrap is far from any age there is.
Aged(buf) ==
    /\ DOMAIN buf = DOMAIN multipartBuffer /\ Len(buf) = Len(multipartBuffer)
    /\ \A i \in DOMAIN multipartBuffer :
         /\ buf[i].key = multipartBuffer[i].key
         /\ buf[i].totalParts = multipartBuffer[i].totalParts
         /\ buf[i].receivedParts = multipartBuffer[i].receivedParts
         /\ buf[i].parts = multipartBuffer[i].parts
         /\ buf[i].elapsed = multipartBuffer[i].elapsed + 1

LEMMA TickBuffer ==
    ASSUME Table, AgeBounded, Tick
    PROVE  BufferOK(multipartBuffer') /\ Aged(multipartBuffer')
<1>1. /\ BufferOK(multipartBuffer) /\ Len(multipartBuffer) \in Nat
      /\ DOMAIN multipartBuffer = 1 .. Len(multipartBuffer)
      /\ \A i \in DOMAIN multipartBuffer : multipartBuffer[i] \in Sessions
  BY BufferIsOK
<1>2. /\ pc # "cleanup" /\ sinceCleanup < MaxPass
      /\ multipartBuffer' = [i \in DOMAIN multipartBuffer |->
             [multipartBuffer[i] EXCEPT !.elapsed = (@ + 1) % ClockMod]]
  BY DEF Tick
<1>3. ASSUME NEW i \in DOMAIN multipartBuffer
      PROVE  /\ multipartBuffer'[i] \in Sessions
             /\ multipartBuffer'[i] = [multipartBuffer[i] EXCEPT !.elapsed = @ + 1]
  <2> DEFINE e == multipartBuffer[i].elapsed
  <2>1. e \in Nat /\ e <= MULTIPART_TIMEOUT + sinceCleanup
    BY <1>1, <1>2, Constants DEF AgeBounded, Sessions, Table, TypeOK
  <2>1a. sinceCleanup \in Nat
    BY Constants DEF Table, TypeOK
  <2> HIDE DEF e
  <2>2. e + 1 \in 0 .. (ClockMod - 1) /\ ClockMod \in Nat /\ ClockMod > 0
    BY <1>2, <2>1, <2>1a, Constants
  <2>3. (e + 1) % ClockMod = e + 1
    BY <2>2
  <2>4. multipartBuffer'[i] = [multipartBuffer[i] EXCEPT !.elapsed = e + 1]
    BY <1>2, <2>3 DEF e
  <2>5. QED
    BY <1>1, <2>2, <2>4 DEF Sessions, e
<1>4. multipartBuffer' \in [1 .. Len(multipartBuffer) -> Sessions]
  BY <1>1, <1>2, <1>3
<1>5. /\ multipartBuffer' \in Seq(Sessions) /\ Len(multipartBuffer') = Len(multipartBuffer)
      /\ DOMAIN multipartBuffer' = DOMAIN multipartBuffer
  BY <1>1, <1>4
<1>6. Aged(multipartBuffer')
  BY <1>1, <1>3, <1>5 DEF Aged, Sessions
<1>7. KeysDiffer(multipartBuffer') /\ Counted(multipartBuffer')
  BY <1>1, <1>6 DEF Aged, BufferOK, KeysDiffer, Counted
<1>8. QED
  BY <1>1, <1>5, <1>6, <1>7 DEF BufferOK

-----------------------------------------------------------------------------
(* Table and AgeBounded are preserved.                                     *)

NextPartOK == nextPart \in [Messages -> 0 .. (MAX_MULTIPART_PARTS + 1)]

LEMMA AdvanceOK ==
    ASSUME NextPartOK, NEW m \in Messages, Sending(m),
           nextPart' = [nextPart EXCEPT ![m] = @ + 1]
    PROVE  NextPartOK' /\ nextPart'[m] = nextPart[m] + 1
<1>1. nextPart[m] + 1 \in 0 .. (MAX_MULTIPART_PARTS + 1)
  BY PartNumber, Constants
<1>2. QED
  BY <1>1 DEF NextPartOK

LEMMA FromBuffer ==
    ASSUME BufferOK(multipartBuffer'), pc' \in {"web", "cleanup", "radio"},
           (scan \in 0 .. Slots)', NextPartOK', (sinceCleanup \in 0 .. MaxPass)',
           (overlapped \in SUBSET Keys)', (spoiled \in SUBSET Messages)'
    PROVE  Table'
  BY DEF BufferOK, Counted, Table, TypeOK, CountExact, NextPartOK

\* A step that leaves the array alone.
LEMMA SameBuffer ==
    ASSUME Table, multipartBuffer' = multipartBuffer, pc' \in {"web", "cleanup", "radio"},
           (scan \in 0 .. Slots)', NextPartOK', (sinceCleanup \in 0 .. MaxPass)',
           (overlapped \in SUBSET Keys)', (spoiled \in SUBSET Messages)'
    PROVE  Table'
<1>1. BufferOK(multipartBuffer')
  BY BufferIsOK
<1>2. QED
  BY <1>1, FromBuffer

\* Sessions other than m's are as old as they were, and m's is as old or new.
LEMMA AgeOfLocated ==
    ASSUME Table, AgeBounded, NEW m \in Messages, Stores(m)
    PROVE  \A j \in 1 .. Len(Located(m)) :
              Located(m)[j].elapsed <= MULTIPART_TIMEOUT + sinceCleanup
<1> DEFINE L == Located(m)
<1>1. Found(m, L, Slot(m))
  BY FoundOK
<1>2. /\ DOMAIN multipartBuffer = 1 .. Len(multipartBuffer) /\ pc # "cleanup"
      /\ \A j \in DOMAIN multipartBuffer :
           multipartBuffer[j] \in Sessions
  BY BufferIsOK DEF Stores, Arrives
<1>3. sinceCleanup \in Nat
  BY Constants DEF Table, TypeOK
<1>4. \A j \in DOMAIN multipartBuffer :
        multipartBuffer[j].elapsed <= MULTIPART_TIMEOUT + sinceCleanup
  BY <1>2, <1>3, Constants DEF AgeBounded, Sessions
<1>5. CreateMultipartSession(m).elapsed <= MULTIPART_TIMEOUT + sinceCleanup
  BY <1>3, Constants DEF CreateMultipartSession
<1> HIDE DEF L
<1> SUFFICES ASSUME NEW j \in 1 .. Len(L)
             PROVE  L[j].elapsed <= MULTIPART_TIMEOUT + sinceCleanup
  BY DEF L
<1>6. CASE j \in 1 .. Len(multipartBuffer)
  BY <1>1, <1>2, <1>4, <1>6 DEF Found
<1>7. CASE j \notin 1 .. Len(multipartBuffer)
  <2>1. j = Slot(m) /\ Holding(Key(m)) = {}
    BY <1>1, <1>7 DEF Found
  <2>2. QED
    BY <1>1, <1>5, <2>1 DEF Found
<1>8. QED
  BY <1>6, <1>7

\* Outside of a cleanup the bound is the same for all sessions.
LEMMA AgeFromBuffer ==
    ASSUME pc' # "cleanup", (sinceCleanup \in Nat)',
           \A j \in DOMAIN multipartBuffer' :
              multipartBuffer'[j].elapsed <= MULTIPART_TIMEOUT + sinceCleanup'
    PROVE  AgeBounded'
  BY Constants DEF AgeBounded

LEMMA ArrivalTable ==
    ASSUME Table, AgeBounded, NEW m \in Messages, ProcessMultipartPacket(m)
    PROVE  Table' /\ AgeBounded'
<1>1. Arrives(m)
  BY DEF ProcessMultipartPacket, RefusePart, DuplicatePart, StorePart, CompletePart, Stores
<1>2. /\ pc = "radio" /\ pc' = "web" /\ Sending(m)
      /\ nextPart' = [nextPart EXCEPT ![m] = @ + 1]
      /\ UNCHANGED <<scan, sinceCleanup, overlapped>>
  BY <1>1 DEF Arrives
<1>3. spoiled' \in SUBSET Messages
  BY DEF ProcessMultipartPacket, RefusePart, DuplicatePart, StorePart, CompletePart, Stores,
         Table, TypeOK
<1>4. /\ pc' \in {"web", "cleanup", "radio"} /\ (scan \in 0 .. Slots)' /\ NextPartOK'
      /\ (sinceCleanup \in 0 .. MaxPass)' /\ (overlapped \in SUBSET Keys)'
      /\ sinceCleanup' \in Nat /\ pc' # "cleanup"
  <2>1. NextPartOK
    BY DEF Table, TypeOK, NextPartOK
  <2>2. NextPartOK'
    BY <1>2, <2>1, AdvanceOK
  <2>3. QED
    BY <1>2, <2>2, Constants DEF Table, TypeOK
<1>5. CASE multipartBuffer' = multipartBuffer
  <2>1. Table'
    BY <1>3, <1>4, <1>5, SameBuffer
  <2>2. AgeBounded'
    BY <1>2, <1>4, <1>5 DEF AgeBounded
  <2>3. QED
    BY <2>1, <2>2
<1>6. CASE StorePart(m)
  <2>1. Stores(m)
    BY <1>6 DEF StorePart
  <2>2. /\ Replaced(Located(m), Slot(m), WithPart(m), multipartBuffer')
        /\ BufferOK(multipartBuffer')
    BY <1>6, StoreBuffer
  <2>3. Table'
    BY <1>3, <1>4, <2>2, FromBuffer
  <2>4. WithPart(m).elapsed = Located(m)[Slot(m)].elapsed
    BY <2>1, FoundOK, PartStored DEF Grown
  <2>5. /\ Slot(m) \in 1 .. Len(Located(m))
        /\ DOMAIN multipartBuffer' = 1 .. Len(Located(m))
    BY <2>1, <2>2, FoundOK, LenProperties DEF BufferOK, Found, Replaced
  <2>6. \A j \in 1 .. Len(Located(m)) :
           Located(m)[j].elapsed <= MULTIPART_TIMEOUT + sinceCleanup
    BY <2>1, AgeOfLocated
  <2>7. \A j \in DOMAIN multipartBuffer' :
           multipartBuffer'[j].elapsed <= MULTIPART_TIMEOUT + sinceCleanup'
    BY <1>2, <2>2, <2>4, <2>5, <2>6 DEF Replaced
  <2>8. QED
    BY <1>4, <2>3, <2>7, AgeFromBuffer
<1>7. CASE CompletePart(m)
  <2>1. Stores(m)
    BY <1>7 DEF CompletePart
  <2>2. Removed(Located(m), Slot(m), multipartBuffer') /\ BufferOK(multipartBuffer')
    BY <1>7, CompleteBuffer
  <2>3. Table'
    BY <1>3, <1>4, <2>2, FromBuffer
  <2>4. DOMAIN multipartBuffer' = 1 .. Len(multipartBuffer')
    BY <2>2, LenProperties DEF BufferOK
  <2>5. \A j \in 1 .. Len(Located(m)) :
           Located(m)[j].elapsed <= MULTIPART_TIMEOUT + sinceCleanup
    BY <2>1, AgeOfLocated
  <2>6. ASSUME NEW j \in DOMAIN multipartBuffer'
        PROVE  multipartBuffer'[j].elapsed <= MULTIPART_TIMEOUT + sinceCleanup'
    <3>1. PICK a \in 1 .. Len(Located(m)) : multipartBuffer'[j] = Located(m)[a]
      BY <2>2, <2>4 DEF Removed
    <3>2. QED
      BY <1>2, <2>5, <3>1
  <2>7. QED
    BY <1>4, <2>3, <2>6, AgeFromBuffer
<1>8. QED
  BY <1>5, <1>6, <1>7 DEF ProcessMultipartPacket, RefusePart, DuplicatePart

LEMMA CleanupRemoveTable ==
    ASSUME Table, AgeBounded, CleanupRemove
    PROVE  Table' /\ AgeBounded'
<1>1. /\ scan \in 1 .. Len(multipartBuffer)
      /\ Removed(multipartBuffer, scan, multipartBuffer')
      /\ BufferOK(multipartBuffer')
  BY CleanupBuffer
<1>2. /\ pc = "cleanup" /\ pc' = pc /\ scan' = scan - 1
      /\ UNCHANGED <<nextPart, sinceCleanup, delivered, overlapped>>
      /\ spoiled' = spoiled \cup
           {m \in Messages : Sending(m) /\ Key(m) = multipartBuffer[scan].key}
  BY DEF CleanupRemove
<1>3. /\ Len(multipartBuffer) \in Nat /\ Len(multipartBuffer) <= Slots
      /\ DOMAIN multipartBuffer = 1 .. Len(multipartBuffer)
      /\ \A i \in DOMAIN multipartBuffer : multipartBuffer[i] \in Sessions
  BY BufferIsOK DEF BufferOK
<1>4. spoiled' \in SUBSET Messages
  BY <1>2 DEF Table, TypeOK
<1>5. Table'
  <2>1. scan' \in 0 .. Slots
    BY <1>1, <1>2, <1>3, Constants
  <2>2. /\ pc' \in {"web", "cleanup", "radio"} /\ NextPartOK'
        /\ (sinceCleanup \in 0 .. MaxPass)' /\ (overlapped \in SUBSET Keys)'
    BY <1>2 DEF Table, TypeOK, NextPartOK
  <2>3. QED
    BY <1>1, <1>4, <2>1, <2>2, FromBuffer
<1>6. AgeBounded'
  <2>1. /\ Len(multipartBuffer') = Len(multipartBuffer) - 1
        /\ DOMAIN multipartBuffer' = 1 .. Len(multipartBuffer')
    BY <1>1, LenProperties DEF Removed
  <2>2. scan' <= Len(multipartBuffer')
    BY <1>1, <1>2, <1>3, <2>1
  <2>3. sinceCleanup \in Nat
    BY Constants DEF Table, TypeOK
  <2>4. \A a \in 1 .. Len(multipartBuffer) :
          multipartBuffer[a].elapsed <= MULTIPART_TIMEOUT + sinceCleanup
              + (IF a <= scan THEN MaxPass ELSE 0)
    BY <1>2, <1>3 DEF AgeBounded
  <2>5. ASSUME NEW j \in 1 .. Len(multipartBuffer')
        PROVE  multipartBuffer'[j].elapsed <= MULTIPART_TIMEOUT + sinceCleanup
                   + (IF j <= scan - 1 THEN MaxPass ELSE 0)
    <3>1. multipartBuffer'[j] = IF j < scan THEN multipartBuffer[j] ELSE multipartBuffer[j + 1]
      BY <1>1 DEF Removed
    <3>2. CASE j < scan
      <4>1. j \in 1 .. Len(multipartBuffer) /\ j <= scan /\ j <= scan - 1
        BY <1>1, <1>3, <2>1, <3>2
      <4>2. QED
        BY <2>4, <3>1, <3>2, <4>1
    <3>3. CASE ~(j < scan)
      <4>1. j + 1 \in 1 .. Len(multipartBuffer) /\ ~(j + 1 <= scan) /\ ~(j <= scan - 1)
        BY <1>1, <1>3, <2>1, <3>3
      <4>2. QED
        BY <2>4, <3>1, <3>3, <4>1
    <3>4. QED
      BY <3>2, <3>3
  <2>6. QED
    BY <1>2, <2>1, <2>2, <2>5 DEF AgeBounded
<1>7. QED
  BY <1>5, <1>6

LEMMA TableStep ==
    ASSUME Table, AgeBounded, [Next]_vars
    PROVE  Table' /\ AgeBounded'
<1>1. /\ pc \in {"web", "cleanup", "radio"} /\ scan \in 0 .. Slots /\ NextPartOK
      /\ sinceCleanup \in 0 .. MaxPass /\ sinceCleanup \in Nat /\ scan \in Nat
      /\ overlapped \in SUBSET Keys /\ spoiled \in SUBSET Messages
  BY Constants DEF Table, TypeOK, NextPartOK
<1>2. /\ Len(multipartBuffer) \in Nat /\ Len(multipartBuffer) <= Slots
      /\ DOMAIN multipartBuffer = 1 .. Len(multipartBuffer)
      /\ \A i \in DOMAIN multipartBuffer : multipartBuffer[i] \in Sessions
  BY BufferIsOK DEF BufferOK
<1>3. ASSUME NEW m \in Messages, StartMessage(m)
      PROVE  Table' /\ AgeBounded'
  <2>1. /\ NextPartOK' /\ overlapped' \in SUBSET Keys /\ spoiled' \in SUBSET Messages
        /\ UNCHANGED <<pc, multipartBuffer, scan, sinceCleanup>>
    BY <1>1, <1>3, Constants DEF StartMessage, NextPartOK
  <2>2. Table'
    BY <1>1, <2>1, SameBuffer
  <2>3. QED
    BY <2>1, <2>2 DEF AgeBounded
<1>4. ASSUME NEW m \in Messages, LosePart(m)
      PROVE  Table' /\ AgeBounded'
  <2>1. /\ NextPartOK' /\ spoiled' \in SUBSET Messages
        /\ UNCHANGED <<pc, multipartBuffer, scan, sinceCleanup, overlapped>>
    BY <1>1, <1>4, AdvanceOK DEF LosePart
  <2>2. Table'
    BY <1>1, <2>1, SameBuffer
  <2>3. QED
    BY <2>1, <2>2 DEF AgeBounded
<1>5. ASSUME NEW m \in Messages, ProcessMultipartPacket(m)
      PROVE  Table' /\ AgeBounded'
  BY <1>5, ArrivalTable
<1>6. CASE NoPacket \/ CleanupDone \/ CleanupKeep
  <2>1. /\ UNCHANGED <<multipartBuffer, nextPart, sinceCleanup, overlapped, spoiled>>
        /\ pc' \in {"web", "cleanup", "radio"} /\ scan' \in 0 .. Slots
    BY <1>1, <1>6, Constants DEF NoPacket, CleanupDone, CleanupKeep
  <2>2. Table'
    BY <1>1, <2>1, SameBuffer DEF NextPartOK
  <2>3. AgeBounded'
    <3>1. CASE NoPacket \/ CleanupDone
      <4>1. pc' # "cleanup" /\ (pc = "cleanup" => scan = 0)
        BY <3>1 DEF NoPacket, CleanupDone
      <4>2. \A i \in DOMAIN multipartBuffer :
              multipartBuffer[i].elapsed <= MULTIPART_TIMEOUT + sinceCleanup
        BY <1>1, <1>2, <4>1, Constants DEF AgeBounded, Sessions
      <4>3. QED
        BY <1>1, <2>1, <4>1, <4>2, AgeFromBuffer
    <3>2. CASE CleanupKeep
      <4>1. /\ pc = "cleanup" /\ pc' = "cleanup" /\ scan > 0 /\ scan' = scan - 1
            /\ multipartBuffer[scan].elapsed <= MULTIPART_TIMEOUT
               \/ scan \notin DOMAIN multipartBuffer
        BY <1>1, <1>2, <3>2, Constants DEF CleanupKeep, Expired, Sessions
      <4>2. ASSUME NEW i \in DOMAIN multipartBuffer
            PROVE  multipartBuffer[i].elapsed <= MULTIPART_TIMEOUT + sinceCleanup
                      + (IF i <= scan - 1 THEN MaxPass ELSE 0)
        <5>1. multipartBuffer[i].elapsed <= MULTIPART_TIMEOUT + sinceCleanup
                  + (IF i <= scan THEN MaxPass ELSE 0)
          BY <4>1 DEF AgeBounded
        <5>2. multipartBuffer[i].elapsed \in Nat /\ i \in Nat
          BY <1>2, Constants DEF Sessions
        <5>3. CASE i = scan
          BY <1>1, <4>1, <5>2, <5>3, Constants
        <5>4. CASE i # scan
          BY <1>1, <5>1, <5>2, <5>4
        <5>5. QED
          BY <5>3, <5>4
      <4>3. scan' <= Len(multipartBuffer)
        BY <1>1, <1>2, <4>1 DEF AgeBounded
      <4>4. QED
        BY <2>1, <4>1, <4>2, <4>3 DEF AgeBounded
    <3>3. QED
      BY <1>6, <3>1, <3>2
  <2>4. QED
    BY <2>2, <2>3
<1>7. CASE BeginCleanup
  <2>1. /\ pc = "web" /\ pc' = "cleanup" /\ scan' = Len(multipartBuffer)
        /\ sinceCleanup' = 0
        /\ UNCHANGED <<multipartBuffer, nextPart, overlapped, spoiled>>
    BY <1>7 DEF BeginCleanup
  <2>2. Table'
    <3>1. scan' \in 0 .. Slots /\ sinceCleanup' \in 0 .. MaxPass
      BY <1>2, <2>1, Constants
    <3>2. QED
      BY <1>1, <2>1, <3>1, SameBuffer DEF NextPartOK
  <2>3. ASSUME NEW i \in DOMAIN multipartBuffer
        PROVE  multipartBuffer[i].elapsed <= MULTIPART_TIMEOUT + 0
                  + (IF i <= Len(multipartBuffer) THEN MaxPass ELSE 0)
    <3>1. multipartBuffer[i].elapsed <= MULTIPART_TIMEOUT + sinceCleanup
      BY <1>1, <2>1, Constants DEF AgeBounded
    <3>2. multipartBuffer[i].elapsed \in Nat /\ i <= Len(multipartBuffer)
      BY <1>2, Constants DEF Sessions
    <3>3. sinceCleanup <= MaxPass
      BY <1>1, Constants
    <3>4. QED
      BY <1>1, <3>1, <3>2, <3>3, Constants
  <2>4. QED
    BY <1>2, <2>1, <2>2, <2>3 DEF AgeBounded
<1>8. CASE CleanupRemove
  BY <1>8, CleanupRemoveTable
<1>9. CASE Tick
  <2>1. BufferOK(multipartBuffer') /\ Aged(multipartBuffer')
    BY <1>9, TickBuffer
  <2>2. /\ pc # "cleanup" /\ sinceCleanup < MaxPass /\ sinceCleanup' = sinceCleanup + 1
        /\ UNCHANGED <<pc, scan, nextPart, delivered, overlapped, spoiled>>
    BY <1>9 DEF Tick
  <2>3. sinceCleanup' \in 0 .. MaxPass /\ sinceCleanup' \in Nat
    BY <1>1, <2>2, Constants
  <2>4. Table'
    BY <1>1, <2>1, <2>2, <2>3, FromBuffer DEF NextPartOK
  <2>5. ASSUME NEW j \in DOMAIN multipartBuffer'
        PROVE  multipartBuffer'[j].elapsed <= MULTIPART_TIMEOUT + sinceCleanup'
    <3>1. /\ j \in DOMAIN multipartBuffer
          /\ multipartBuffer'[j].elapsed = multipartBuffer[j].elapsed + 1
      BY <2>1 DEF Aged
    <3>2. multipartBuffer[j].elapsed <= MULTIPART_TIMEOUT + sinceCleanup
      BY <1>1, <2>2, <3>1, Constants DEF AgeBounded
    <3>3. multipartBuffer[j].elapsed \in Nat
      BY <1>2, <3>1, Constants DEF Sessions
    <3>4. QED
      BY <1>1, <2>2, <3>1, <3>2, <3>3, Constants
  <2>6. QED
    BY <2>2, <2>3, <2>4, <2>5, AgeFromBuffer
<1>10. CASE UNCHANGED vars
  BY <1>10 DEF vars, Table, TypeOK, CountExact, AgeBounded
<1>11. QED
  BY <1>3, <1>4, <1>5, <1>6, <1>7, <1>8, <1>9, <1>10
  DEF Next, CleanupExpiredMultipartSessions

-----------------------------------------------------------------------------
(* Which sessions a step leaves as they are.                               *)

Alike(s, t) == s.key = t.key /\ s.totalParts = t.totalParts /\ s.parts = t.parts

Untouched(k) ==
    /\ \A j \in DOMAIN multipartBuffer' : multipartBuffer'[j].key = k =>
          \E a \in DOMAIN multipartBuffer : Alike(multipartBuffer'[j], multipartBuffer[a])
    /\ \A a \in DOMAIN multipartBuffer : multipartBuffer[a].key = k =>
          \E j \in DOMAIN multipartBuffer' : Alike(multipartBuffer'[j], multipartBuffer[a])

Gone(k) == \A j \in DOMAIN multipartBuffer' : multipartBuffer'[j].key # k

LEMMA SameUntouched ==
    ASSUME multipartBuffer' = multipartBuffer
    PROVE  \A k : Untouched(k)
  BY DEF Untouched, Alike

LEMMA StoreUntouched ==
    ASSUME Table, NEW m \in Messages, StorePart(m)
    PROVE  \A k : k # Key(m) => Untouched(k)
<1> DEFINE L == Located(m)
           i == Slot(m)
           w == WithPart(m)
<1>1. Stores(m)
  BY DEF StorePart
<1>2. /\ Replaced(L, i, w, multipartBuffer') /\ BufferOK(multipartBuffer')
      /\ Found(m, L, i) /\ Grown(m, L[i], w)
  BY <1>1, StoreBuffer, FoundOK, PartStored
<1>3. /\ DOMAIN multipartBuffer' = 1 .. Len(L)
      /\ DOMAIN multipartBuffer = 1 .. Len(multipartBuffer)
  BY <1>2, BufferIsOK, LenProperties DEF BufferOK, Replaced
<1> HIDE DEF L, i, w
<1> SUFFICES ASSUME NEW k, k # Key(m)
             PROVE  Untouched(k)
  OBVIOUS
<1>4. multipartBuffer'[i].key = Key(m) /\ L[i].key = Key(m)
  BY <1>2 DEF Replaced, Found, Grown
<1>5. \A j \in DOMAIN multipartBuffer' :
        j # i => j \in DOMAIN multipartBuffer /\ multipartBuffer'[j] = multipartBuffer[j]
  BY <1>2, <1>3 DEF Replaced, Found
<1>6. \A a \in DOMAIN multipartBuffer :
        multipartBuffer[a].key = k =>
          a \in DOMAIN multipartBuffer' /\ multipartBuffer'[a] = multipartBuffer[a]
  BY <1>2, <1>3, <1>4 DEF Replaced, Found
<1>7. QED
  BY <1>4, <1>5, <1>6 DEF Untouched, Alike

LEMMA RemovedUntouched ==
    ASSUME NEW L \in Seq(Sessions), NEW i \in 1 .. Len(L), KeysDiffer(L),
           multipartBuffer' \in Seq(Sessions), Removed(L, i, multipartBuffer'),
           multipartBuffer \in Seq(Sessions),
           \A j \in 1 .. Len(multipartBuffer) : j \in 1 .. Len(L) /\ L[j] = multipartBuffer[j],
           \A j \in 1 .. Len(L) : j # i => j \in 1 .. Len(multipartBuffer)
    PROVE  Gone(L[i].key) /\ \A k : k # L[i].key => Untouched(k)
<1>1. /\ DOMAIN L = 1 .. Len(L)
      /\ DOMAIN multipartBuffer' = 1 .. Len(multipartBuffer')
      /\ DOMAIN multipartBuffer = 1 .. Len(multipartBuffer)
  BY LenProperties
<1>2. \A j \in DOMAIN multipartBuffer' :
        \E a \in 1 .. Len(L) : a # i /\ multipartBuffer'[j] = L[a]
  BY <1>1 DEF Removed
<1>3. \A a \in 1 .. Len(L) : a # i => L[a].key # L[i].key
  BY <1>1 DEF KeysDiffer
<1>4. Gone(L[i].key)
  BY <1>2, <1>3 DEF Gone
<1>5. ASSUME NEW k, k # L[i].key
      PROVE  Untouched(k)
  <2>1. ASSUME NEW j \in DOMAIN multipartBuffer'
        PROVE  \E a \in DOMAIN multipartBuffer :
                  Alike(multipartBuffer'[j], multipartBuffer[a])
    BY <1>1, <1>2 DEF Alike
  <2>2. ASSUME NEW a \in DOMAIN multipartBuffer, multipartBuffer[a].key = k
        PROVE  \E j \in DOMAIN multipartBuffer' :
                  Alike(multipartBuffer'[j], multipartBuffer[a])
    <3>1. a \in 1 .. Len(L) /\ L[a] = multipartBuffer[a] /\ a # i
      BY <1>1, <1>5, <2>2
    <3>2. PICK j \in 1 .. Len(multipartBuffer') : multipartBuffer'[j] = L[a]
      BY <3>1 DEF Removed
    <3>3. QED
      BY <1>1, <3>1, <3>2 DEF Alike
  <2>3. QED
    BY <2>1, <2>2 DEF Untouched
<1>6. QED
  BY <1>4, <1>5

LEMMA CompleteUntouched ==
    ASSUME Table, NEW m \in Messages, CompletePart(m)
    PROVE  Gone(Key(m)) /\ \A k : k # Key(m) => Untouched(k)
<1>1. Stores(m)
  BY DEF CompletePart
<1>2. /\ Removed(Located(m), Slot(m), multipartBuffer') /\ BufferOK(multipartBuffer')
      /\ Found(m, Located(m), Slot(m)) /\ BufferOK(multipartBuffer)
  BY <1>1, CompleteBuffer, FoundOK, BufferIsOK
<1>3. QED
  BY <1>2, RemovedUntouched DEF Found, BufferOK

LEMMA CleanupUntouched ==
    ASSUME Table, AgeBounded, CleanupRemove
    PROVE  /\ Gone(multipartBuffer[scan].key)
           /\ \A k : k # multipartBuffer[scan].key => Untouched(k)
<1>1. /\ scan \in 1 .. Len(multipartBuffer) /\ BufferOK(multipartBuffer')
      /\ Removed(multipartBuffer, scan, multipartBuffer') /\ BufferOK(multipartBuffer)
  BY CleanupBuffer, BufferIsOK
<1>2. QED
  BY <1>1, RemovedUntouched DEF BufferOK

LEMMA TickUntouched ==
    ASSUME Table, AgeBounded, Tick
    PROVE  \A k : Untouched(k)
  BY TickBuffer DEF Aged, Untouched, Alike

-----------------------------------------------------------------------------
(* Messages.                                                               *)

LEMMA AdvanceSending ==
    ASSUME NextPartOK, NEW m \in Messages, Sending(m),
           nextPart' = [nextPart EXCEPT ![m] = @ + 1]
    PROVE  /\ \A n \in Messages : Sending(n)' => Sending(n)
           /\ \A n \in Messages : n # m => nextPart'[n] = nextPart[n]
<1>1. \A n \in Messages : n # m => nextPart'[n] = nextPart[n]
  BY DEF NextPartOK
<1>2. QED
  BY <1>1 DEF Sending

\* What is sent does not begin to be sent, except by StartMessage.
LEMMA SendingShrinks ==
    ASSUME Table, [Next]_vars, \A m \in Messages : ~StartMessage(m)
    PROVE  \A n \in Messages : Sending(n)' => Sending(n)
<1>1. CASE nextPart' = nextPart
  BY <1>1 DEF Sending
<1>2. ASSUME NEW m \in Messages, LosePart(m) \/ Arrives(m)
      PROVE  \A n \in Messages : Sending(n)' => Sending(n)
  BY <1>2, AdvanceSending DEF LosePart, Arrives, Table, TypeOK, NextPartOK
<1>3. \A m \in Messages : ProcessMultipartPacket(m) => Arrives(m)
  BY DEF ProcessMultipartPacket, RefusePart, DuplicatePart, StorePart, CompletePart, Stores
<1>4. QED
  BY <1>1, <1>2, <1>3
  DEF Next, vars, NoPacket, CleanupExpiredMultipartSessions, BeginCleanup, CleanupRemove,
      CleanupKeep, CleanupDone, Tick

LEMMA OneSenderStep ==
    ASSUME Table, OneSender, [Next]_vars
    PROVE  OneSender'
<1>1. ASSUME NEW m \in Messages, StartMessage(m)
      PROVE  OneSender'
  <2>1. /\ \A n \in Messages : n.src = m.src => ~Sending(n)
        /\ \A n \in Messages : n # m => nextPart'[n] = nextPart[n]
    BY <1>1 DEF StartMessage, Table, TypeOK
  <2>2. \A n \in Messages : n # m /\ Sending(n)' => Sending(n)
    BY <2>1 DEF Sending
  <2>3. QED
    BY <2>1, <2>2 DEF OneSender
<1>2. CASE \A m \in Messages : ~StartMessage(m)
  BY <1>2, SendingShrinks DEF OneSender
<1>3. QED
  BY <1>1, <1>2

\* The session that a part of m goes to is of m, unless something overlapped.
LEMMA SessionPure ==
    ASSUME Table, OneSender, Pure, NEW m \in Messages, Stores(m), Key(m) \notin overlapped
    PROVE  PureOf(Session(m), m) /\ PureOf(WithPart(m), m)
<1> DEFINE s == Session(m)
           w == WithPart(m)
<1>1. /\ Found(m, Located(m), Slot(m)) /\ s = Located(m)[Slot(m)]
      /\ Grown(m, s, w) /\ Sending(m)
  BY FoundOK, PartStored DEF Stores, Arrives
<1> HIDE DEF s, w
<1>2. PureOf(s, m)
  <2>1. CASE Holding(Key(m)) # {}
    <3>1. /\ s = multipartBuffer[Slot(m)] /\ Slot(m) \in DOMAIN multipartBuffer
          /\ s.key = Key(m)
      BY <1>1, <2>1, BufferIsOK DEF Found
    <3>2. PICK n \in Messages : PureOf(s, n)
      BY <3>1 DEF Pure
    <3>3. n = m
      BY <1>1, <3>1, <3>2 DEF PureOf
    <3>4. QED
      BY <3>2, <3>3
  <2>2. CASE Holding(Key(m)) = {}
    <3>1. s = CreateMultipartSession(m)
      BY <1>1, <2>2 DEF Found
    <3>2. s.key = Key(m) /\ s.totalParts = m.total /\ DOMAIN s.parts = {}
      BY <3>1, CreatedOK DEF CreateMultipartSession
    <3>3. \A n \in Messages : Key(n) = s.key /\ Sending(n) => n = m
      BY <1>1, <3>2 DEF Key, OneSender
    <3>4. QED
      BY <3>2, <3>3 DEF PureOf
  <2>3. QED
    BY <2>1, <2>2
<1>3. nextPart[m] \in 1 .. m.total
  BY <1>1, PartNumber
<1>4. PureOf(w, m)
  BY <1>1, <1>2, <1>3 DEF PureOf, Grown
<1>5. QED
  BY <1>2, <1>4 DEF s, w

LEMMA PureStep ==
    ASSUME Table, AgeBounded, OneSender, Pure, [Next]_vars
    PROVE  Pure'
<1>1. overlapped \subseteq overlapped'
  BY DEF Next, vars, StartMessage, LosePart, ProcessMultipartPacket, RefusePart,
         DuplicatePart, StorePart, CompletePart, Stores, Arrives, NoPacket,
         CleanupExpiredMultipartSessions, BeginCleanup, CleanupRemove, CleanupKeep,
         CleanupDone, Tick
<1>2. ASSUME NEW n \in Messages, StartMessage(n)
      PROVE  Pure'
  <2>1. /\ multipartBuffer' = multipartBuffer
        /\ \A x \in Messages : x # n => nextPart'[x] = nextPart[x]
        /\ Holding(Key(n)) # {} => Key(n) \in overlapped'
    BY <1>2 DEF StartMessage, Table, TypeOK
  <2> SUFFICES ASSUME NEW i \in DOMAIN multipartBuffer,
                      multipartBuffer[i].key \notin overlapped'
               PROVE  \E m \in Messages : PureOf(multipartBuffer[i], m)'
    BY <2>1 DEF Pure, PureOf
  <2>2. PICK m \in Messages : PureOf(multipartBuffer[i], m)
    BY <1>1 DEF Pure
  <2>3. Key(n) # multipartBuffer[i].key
    BY <2>1 DEF Holding
  <2>4. \A x \in Messages : Key(x) = multipartBuffer[i].key /\ Sending(x)' => Sending(x)
    BY <2>1, <2>3 DEF Sending
  <2>5. PureOf(multipartBuffer[i], m)'
    BY <2>1, <2>2, <2>4 DEF PureOf
  <2>6. QED
    BY <2>5
<1>3. CASE \A n \in Messages : ~StartMessage(n)
  <2>1. \A n \in Messages : Sending(n)' => Sending(n)
    BY <1>3, SendingShrinks
  <2> SUFFICES ASSUME NEW j \in DOMAIN multipartBuffer',
                      multipartBuffer'[j].key \notin overlapped'
               PROVE  \E m \in Messages : PureOf(multipartBuffer[j], m)'
    BY DEF Pure, PureOf
  <2>2. ASSUME Untouched(multipartBuffer'[j].key)
        PROVE  \E m \in Messages : PureOf(multipartBuffer[j], m)'
    <3>1. PICK a \in DOMAIN multipartBuffer : Alike(multipartBuffer'[j], multipartBuffer[a])
      BY <2>2 DEF Untouched
    <3>2. PICK m \in Messages : PureOf(multipartBuffer[a], m)
      BY <1>1, <3>1 DEF Pure, Alike
    <3>3. PureOf(multipartBuffer[j], m)'
      BY <2>1, <3>1, <3>2 DEF PureOf, Alike
    <3>4. QED
      BY <3>3
  <2>3. CASE multipartBuffer' = multipartBuffer
    BY <2>2, <2>3, SameUntouched
  <2>4. ASSUME NEW m \in Messages, StorePart(m)
        PROVE  \E n \in Messages : PureOf(multipartBuffer[j], n)'
    <3>1. CASE multipartBuffer'[j].key # Key(m)
      BY <2>2, <2>4, <3>1, StoreUntouched
    <3>2. CASE multipartBuffer'[j].key = Key(m)
      <4>1. Stores(m)
        BY <2>4 DEF StorePart
      <4>2. /\ Replaced(Located(m), Slot(m), WithPart(m), multipartBuffer')
            /\ BufferOK(multipartBuffer') /\ Found(m, Located(m), Slot(m))
            /\ Grown(m, Session(m), WithPart(m))
        BY <2>4, <4>1, StoreBuffer, FoundOK, PartStored
      <4>3. /\ DOMAIN multipartBuffer' = 1 .. Len(Located(m))
            /\ Slot(m) \in DOMAIN multipartBuffer'
        BY <4>2, LenProperties DEF BufferOK, Replaced, Found
      <4>4. multipartBuffer'[Slot(m)] = WithPart(m) /\ WithPart(m).key = Key(m)
        BY <4>2, <4>3 DEF Replaced, Grown
      <4>5. j = Slot(m)
        BY <3>2, <4>2, <4>3, <4>4 DEF BufferOK, KeysDiffer
      <4>6. PureOf(WithPart(m), m)
        BY <1>1, <3>2, <4>1, SessionPure
      <4>7. multipartBuffer'[j] = WithPart(m)
        BY <4>4, <4>5
      <4>8. PureOf(multipartBuffer[j], m)'
        BY <2>1, <4>6, <4>7 DEF PureOf
      <4>9. QED
        BY <4>8
    <3>3. QED
      BY <3>1, <3>2
  <2>5. ASSUME NEW m \in Messages, CompletePart(m)
        PROVE  \E n \in Messages : PureOf(multipartBuffer[j], n)'
    BY <2>2, <2>5, CompleteUntouched DEF Gone
  <2>6. CASE CleanupRemove
    BY <2>2, <2>6, CleanupUntouched DEF Gone
  <2>7. CASE Tick
    BY <2>2, <2>7, TickUntouched
  <2>8. QED
    BY <2>3, <2>4, <2>5, <2>6, <2>7
    DEF Next, vars, StartMessage, LosePart, ProcessMultipartPacket, RefusePart,
        DuplicatePart, NoPacket, CleanupExpiredMultipartSessions, BeginCleanup,
        CleanupKeep, CleanupDone
<1>4. QED
  BY <1>2, <1>3

\* A message whose sender and session the step leaves alone.
LEMMA WayKept ==
    ASSUME NEW x \in Messages, WayOf(x), Untouched(Key(x)), nextPart'[x] = nextPart[x]
    PROVE  WayOf(x)'
<1>1. Sending(x)' = Sending(x)
  BY DEF Sending
<1>2. Holding(Key(x)) = {} => (Holding(Key(x)) = {})'
  BY DEF Untouched, Alike, Holding
<1>3. Kept(x) => Kept(x)'
  <2> SUFFICES ASSUME Kept(x)
               PROVE  Kept(x)'
    OBVIOUS
  <2>1. PICK a \in DOMAIN multipartBuffer :
          /\ multipartBuffer[a].key = Key(x)
          /\ multipartBuffer[a].totalParts = x.total
          /\ multipartBuffer[a].parts = [q \in 1 .. (nextPart[x] - 1) |-> x]
    BY DEF Kept
  <2>2. PICK j \in DOMAIN multipartBuffer' : Alike(multipartBuffer'[j], multipartBuffer[a])
    BY <2>1 DEF Untouched
  <2>3. QED
    BY <2>1, <2>2 DEF Kept, Alike
<1>4. QED
  BY <1>1, <1>2, <1>3 DEF WayOf

\* The session of a message that has lost nothing, before its next part.
LEMMA ClearSession ==
    ASSUME Table, NEW m \in Messages, WayOf(m), Sending(m), nextPart[m] \notin DOMAIN Session(m).parts
           \/ Holding(Key(m)) = {}
    PROVE  /\ Session(m).totalParts = m.total
           /\ Session(m).parts = [q \in 1 .. (nextPart[m] - 1) |-> m]
           /\ Holding(Key(m)) = {} <=> nextPart[m] = 1
<1> DEFINE s == Session(m)
           p == nextPart[m]
<1>1. Found(m, Located(m), Slot(m)) /\ s = Located(m)[Slot(m)]
  BY FindOrCreate
<1>2. p \in Nat /\ p # 0
  BY PartNumber
<1>3. CASE p = 1
  <2>1. Holding(Key(m)) = {}
    BY <1>3 DEF WayOf
  <2>2. s = CreateMultipartSession(m)
    BY <1>1, <2>1 DEF Found
  <2>3. s.totalParts = m.total /\ s.parts = <<>>
    BY <2>2 DEF CreateMultipartSession
  <2>4. [q \in 1 .. (p - 1) |-> m] = <<>>
    BY <1>3
  <2>5. QED
    BY <1>3, <2>1, <2>3, <2>4
<1>4. CASE p # 1
  <2>1. PICK a \in DOMAIN multipartBuffer :
          /\ multipartBuffer[a].key = Key(m)
          /\ multipartBuffer[a].totalParts = m.total
          /\ multipartBuffer[a].parts = [q \in 1 .. (p - 1) |-> m]
    BY <1>4 DEF WayOf, Kept
  <2>2. a \in Holding(Key(m))
    BY <2>1 DEF Holding
  <2>3. Slot(m) = a /\ Located(m) = multipartBuffer
    <3>1. Located(m) = multipartBuffer
      BY <1>1, <2>2 DEF Found
    <3>2. multipartBuffer[Slot(m)].key = Key(m) /\ Slot(m) \in DOMAIN multipartBuffer
      BY <1>1, <3>1, BufferIsOK DEF Found
    <3>3. QED
      BY <2>1, <3>1, <3>2 DEF Table, KeysDiffer
  <2>4. QED
    BY <1>1, <1>4, <2>1, <2>2, <2>3
<1>5. QED
  BY <1>3, <1>4

\* What such a session is when its next part has been stored.
LEMMA ClearPart ==
    ASSUME Table, NEW m \in Messages, WayOf(m), Stores(m)
    PROVE  /\ WithPart(m).key = Key(m) /\ WithPart(m).totalParts = m.total
           /\ WithPart(m).parts = [q \in 1 .. nextPart[m] |-> m]
           /\ WithPart(m).receivedParts = nextPart[m]
<1> DEFINE p == nextPart[m]
           s == Session(m)
           w == WithPart(m)
<1>1. Sending(m) /\ p \notin DOMAIN s.parts
  BY DEF Stores, Arrives
<1>2. p \in Nat /\ p # 0
  BY <1>1, PartNumber
<1>3. Grown(m, s, w)
  BY PartStored
<1>4. s.totalParts = m.total /\ s.parts = [q \in 1 .. (p - 1) |-> m]
  BY <1>1, ClearSession
<1>5. DOMAIN s.parts \cup {p} = 1 .. p
  BY <1>2, <1>4
<1>6. w.parts = [q \in 1 .. p |-> m]
  BY <1>2, <1>3, <1>4, <1>5 DEF Grown
<1>7. w.receivedParts = p
  <2>1. DOMAIN w.parts = 1 .. p
    BY <1>6
  <2>2. Cardinality(1 .. p) = p
    BY <1>2, FS_Interval
  <2>3. QED
    BY <1>3, <2>1, <2>2 DEF Grown
<1>8. QED
  BY <1>3, <1>4, <1>6, <1>7 DEF Grown

\* A session with all parts of one message is handed over whole.
LEMMA FullIsWhole ==
    ASSUME NEW m \in Messages, NEW w \in Sessions, PureOf(w, m),
           Cardinality(DOMAIN w.parts) = m.total
    PROVE  Reassembled(w) = Whole(m)
<1>1. m.total \in Nat
  BY Constants
<1>2. IsFiniteSet(1 .. m.total) /\ Cardinality(1 .. m.total) = m.total
  BY <1>1, FS_Interval
<1>3. DOMAIN w.parts \in SUBSET (1 .. m.total)
  BY DEF PureOf
<1>4. DOMAIN w.parts = 1 .. m.total
  BY <1>2, <1>3, FS_Subset
<1>5. [p \in DOMAIN w.parts \cap (1 .. w.totalParts) |-> w.parts[p]] = [p \in 1 .. m.total |-> m]
  BY <1>4 DEF PureOf
<1>6. QED
  BY <1>5 DEF Reassembled, Whole, PureOf

LEMMA WholeStep ==
    ASSUME Table, OneSender, Pure, WholeUnlessOverlap, [Next]_vars
    PROVE  WholeUnlessOverlap'
<1>1. overlapped \subseteq overlapped'
  BY DEF Next, vars, StartMessage, LosePart, ProcessMultipartPacket, RefusePart,
         DuplicatePart, StorePart, CompletePart, Stores, Arrives, NoPacket,
         CleanupExpiredMultipartSessions, BeginCleanup, CleanupRemove, CleanupKeep,
         CleanupDone, Tick
<1>2. CASE delivered' = delivered
  BY <1>1, <1>2 DEF WholeUnlessOverlap, Whole
<1>3. ASSUME NEW m \in Messages, CompletePart(m)
      PROVE  WholeUnlessOverlap'
  <2> DEFINE w == WithPart(m)
  <2>1. /\ Stores(m) /\ delivered' = delivered \cup {Reassembled(w)}
        /\ w.receivedParts = m.total
    BY <1>3 DEF CompletePart
  <2>2. /\ w \in Sessions /\ w.key = Key(m)
        /\ Cardinality(DOMAIN w.parts) = m.total
    BY <2>1, PartStored DEF Grown
  <2>3. Reassembled(w).key = Key(m)
    BY <2>2 DEF Reassembled
  <2>4. Key(m) \notin overlapped => Reassembled(w) = Whole(m)
    BY <2>1, <2>2, SessionPure, FullIsWhole
  <2> HIDE DEF w
  <2>5. QED
    BY <1>1, <2>1, <2>3, <2>4 DEF WholeUnlessOverlap, Whole
<1>4. QED
  BY <1>2, <1>3
  DEF Next, vars, StartMessage, LosePart, ProcessMultipartPacket, RefusePart,
      DuplicatePart, StorePart, NoPacket, CleanupExpiredMultipartSessions,
      BeginCleanup, CleanupRemove, CleanupKeep, CleanupDone, Tick

Served(m) == Sent(m) => Whole(m) \in delivered

LEMMA ServedKept ==
    ASSUME NEW x \in Messages, Served(x), nextPart'[x] = nextPart[x],
           delivered \subseteq delivered'
    PROVE  Served(x)'
  BY DEF Served, Sent, Whole

\* Two messages that are being sent have different keys.
LEMMA KeysOfSenders ==
    ASSUME OneSender, NEW m \in Messages, NEW x \in Messages, x # m,
           Sending(m), Sending(x)
    PROVE  Key(x) # Key(m)
  BY DEF OneSender, Key

LEMMA IdleWay ==
    ASSUME NEW x \in Messages, ~Sending(x)'
    PROVE  WayOf(x)'
  BY DEF WayOf

\* The steps of the receiver, seen from the message whose part arrives.
LEMMA OwnPart ==
    ASSUME Table, NEW m \in Messages, WayOf(m), ProcessMultipartPacket(m), m \notin spoiled'
    PROVE  WayOf(m)' /\ Served(m)'
<1> DEFINE p == nextPart[m]
<1>1. Arrives(m)
  BY DEF ProcessMultipartPacket, RefusePart, DuplicatePart, StorePart, CompletePart, Stores
<1>2. Sending(m) /\ nextPart'[m] = p + 1 /\ p \in Nat /\ p # 0 /\ m.total \in Nat
      /\ p \in 1 .. m.total
  <2>1. Sending(m) /\ NextPartOK /\ nextPart' = [nextPart EXCEPT ![m] = @ + 1]
    BY <1>1 DEF Arrives, Table, TypeOK, NextPartOK
  <2>2. QED
    BY <2>1, AdvanceOK, PartNumber
<1>3. ~RefusePart(m)
  BY DEF RefusePart
<1>4. ~DuplicatePart(m)
  <2> SUFFICES ASSUME DuplicatePart(m)
               PROVE  FALSE
    OBVIOUS
  <2>1. Holding(Key(m)) # {} /\ p \in DOMAIN Session(m).parts
    BY DEF DuplicatePart
  <2>2. Kept(m)
    BY <1>2, <2>1 DEF WayOf
  <2>3. PICK a \in DOMAIN multipartBuffer :
          /\ multipartBuffer[a].key = Key(m)
          /\ multipartBuffer[a].parts = [q \in 1 .. (p - 1) |-> m]
    BY <2>2 DEF Kept
  <2>4. Found(m, Located(m), Slot(m)) /\ Session(m) = Located(m)[Slot(m)]
    BY FindOrCreate
  <2>5. /\ Session(m) = multipartBuffer[Slot(m)] /\ Slot(m) \in DOMAIN multipartBuffer
        /\ multipartBuffer[Slot(m)].key = Key(m)
    BY <2>1, <2>4, BufferIsOK DEF Found
  <2>6. Slot(m) = a
    BY <2>3, <2>5 DEF Table, KeysDiffer
  <2>7. p \in 1 .. (p - 1)
    BY <2>1, <2>3, <2>5, <2>6
  <2>8. QED
    BY <1>2, <2>7
<1>5. CASE StorePart(m)
  <2>1. Stores(m) /\ WithPart(m).receivedParts # m.total
    BY <1>5 DEF StorePart
  <2>2. /\ WithPart(m).key = Key(m) /\ WithPart(m).totalParts = m.total
        /\ WithPart(m).parts = [q \in 1 .. p |-> m] /\ p # m.total
    BY <2>1, ClearPart
  <2>3. /\ Slot(m) \in DOMAIN multipartBuffer' /\ multipartBuffer'[Slot(m)] = WithPart(m)
    <3>1. /\ Replaced(Located(m), Slot(m), WithPart(m), multipartBuffer')
          /\ BufferOK(multipartBuffer') /\ Found(m, Located(m), Slot(m))
      BY <1>5, <2>1, StoreBuffer, FoundOK
    <3>2. DOMAIN multipartBuffer' = 1 .. Len(Located(m))
      BY <3>1, LenProperties DEF BufferOK, Replaced
    <3>3. QED
      BY <3>1, <3>2 DEF Replaced, Found
  <2>4. (p + 1) - 1 = p /\ p + 1 # 1 /\ p + 1 # m.total + 1
    BY <1>2, <2>2
  <2>5. Kept(m)'
    BY <1>2, <2>2, <2>3, <2>4 DEF Kept
  <2>6. QED
    BY <1>2, <2>4, <2>5 DEF WayOf, Served, Sent
<1>6. CASE CompletePart(m)
  <2>1. /\ Stores(m) /\ WithPart(m).receivedParts = m.total
        /\ delivered' = delivered \cup {Reassembled(WithPart(m))}
    BY <1>6 DEF CompletePart
  <2>2. /\ WithPart(m).key = Key(m) /\ WithPart(m).totalParts = m.total
        /\ WithPart(m).parts = [q \in 1 .. m.total |-> m] /\ p = m.total
    BY <2>1, ClearPart
  <2>3. Reassembled(WithPart(m)) = Whole(m)
    BY <2>2 DEF Reassembled, Whole
  <2>4. ~Sending(m)'
    BY <1>2, <2>2 DEF Sending
  <2>5. QED
    BY <2>1, <2>3, <2>4 DEF WayOf, Served, Whole
<1>7. QED
  BY <1>3, <1>4, <1>5, <1>6 DEF ProcessMultipartPacket

LEMMA WayStep ==
    ASSUME Table, AgeBounded, OneSender, OnItsWay, NothingLostMeansDelivered,
           [Next]_vars
    PROVE  OnItsWay' /\ NothingLostMeansDelivered'
<1> SUFFICES ASSUME NEW x \in Messages, x \notin spoiled'
             PROVE  WayOf(x)' /\ Served(x)'
  BY DEF OnItsWay, NothingLostMeansDelivered, Served
<1>1. spoiled \subseteq spoiled' /\ delivered \subseteq delivered'
  BY DEF Next, vars, StartMessage, LosePart, ProcessMultipartPacket, RefusePart,
         DuplicatePart, StorePart, CompletePart, Stores, NoPacket,
         CleanupExpiredMultipartSessions, BeginCleanup, CleanupRemove, CleanupKeep,
         CleanupDone, Tick
<1>2. WayOf(x) /\ Served(x) /\ NextPartOK
  BY <1>1 DEF OnItsWay, NothingLostMeansDelivered, Served, Table, TypeOK, NextPartOK
<1>3. CASE multipartBuffer' = multipartBuffer /\ nextPart' = nextPart
  BY <1>1, <1>2, <1>3, SameUntouched, WayKept, ServedKept
<1>4. ASSUME NEW m \in Messages, StartMessage(m)
      PROVE  WayOf(x)' /\ Served(x)'
  <2>1. /\ nextPart' = [nextPart EXCEPT ![m] = 1] /\ multipartBuffer' = multipartBuffer
        /\ nextPart' \in [Messages -> Nat]
    BY <1>2, <1>4, Constants DEF StartMessage, NextPartOK
  <2>2. CASE x = m
    <3>1. nextPart'[x] = 1 /\ Holding(Key(x)) = {} /\ x.total \in Nat \ {0}
      BY <1>2, <1>4, <2>1, <2>2, Constants DEF StartMessage, NextPartOK
    <3>2. QED
      BY <2>1, <3>1 DEF WayOf, Served, Sent, Holding
  <2>3. CASE x # m
    BY <1>1, <1>2, <2>1, <2>3, SameUntouched, WayKept, ServedKept DEF NextPartOK
  <2>4. QED
    BY <2>2, <2>3
<1>5. ASSUME NEW m \in Messages, LosePart(m)
      PROVE  WayOf(x)' /\ Served(x)'
  <2>1. x # m
    BY <1>5 DEF LosePart
  <2>2. nextPart'[x] = nextPart[x] /\ multipartBuffer' = multipartBuffer
    BY <1>2, <1>5, <2>1 DEF LosePart, NextPartOK
  <2>3. QED
    BY <1>1, <1>2, <2>2, SameUntouched, WayKept, ServedKept
<1>6. ASSUME NEW m \in Messages, ProcessMultipartPacket(m)
      PROVE  WayOf(x)' /\ Served(x)'
  <2>1. CASE x = m
    BY <1>2, <1>6, <2>1, OwnPart
  <2>2. CASE x # m
    <3>1. Arrives(m)
      BY <1>6 DEF ProcessMultipartPacket, RefusePart, DuplicatePart, StorePart,
                  CompletePart, Stores
    <3>2. Sending(m) /\ nextPart'[x] = nextPart[x]
      BY <1>2, <2>2, <3>1, AdvanceSending DEF Arrives
    <3>3. Served(x)'
      BY <1>1, <1>2, <3>2, ServedKept
    <3>4. CASE ~Sending(x)
      BY <3>2, <3>3, <3>4, IdleWay DEF Sending
    <3>5. CASE Sending(x)
      <4>1. Key(x) # Key(m)
        BY <2>2, <3>2, <3>5, KeysOfSenders
      <4>2. Untouched(Key(x))
        BY <1>6, <4>1, SameUntouched, StoreUntouched, CompleteUntouched
        DEF ProcessMultipartPacket, RefusePart, DuplicatePart
      <4>3. QED
        BY <1>2, <3>2, <3>3, <4>2, WayKept
    <3>6. QED
      BY <3>4, <3>5
  <2>3. QED
    BY <2>1, <2>2
<1>7. CASE CleanupRemove
  <2>1. /\ nextPart' = nextPart
        /\ Sending(x) => Key(x) # multipartBuffer[scan].key
    BY <1>7 DEF CleanupRemove
  <2>2. Served(x)'
    BY <1>1, <1>2, <2>1, ServedKept
  <2>3. CASE ~Sending(x)
    BY <2>1, <2>2, <2>3, IdleWay DEF Sending
  <2>4. CASE Sending(x)
    BY <1>2, <1>7, <2>1, <2>2, <2>4, CleanupUntouched, WayKept
  <2>5. QED
    BY <2>3, <2>4
<1>8. CASE Tick
  BY <1>1, <1>2, <1>8, TickUntouched, WayKept, ServedKept DEF Tick
<1>9. QED
  BY <1>3, <1>4, <1>5, <1>6, <1>7, <1>8
  DEF Next, vars, NoPacket, CleanupExpiredMultipartSessions, BeginCleanup,
      CleanupKeep, CleanupDone

-----------------------------------------------------------------------------
(* The invariant and the properties.                                       *)

LEMMA InitInv == Init => IInv
<1> SUFFICES ASSUME Init PROVE IInv
  OBVIOUS
<1>1. /\ multipartBuffer = <<>> /\ DOMAIN multipartBuffer = {} /\ Len(multipartBuffer) = 0
      /\ multipartBuffer \in Seq(Sessions)
  BY DEF Init
<1>2. /\ pc = "web" /\ scan = 0 /\ sinceCleanup = 0 /\ delivered = {}
      /\ overlapped = {} /\ spoiled = {} /\ \A m \in Messages : nextPart[m] = 0
  BY DEF Init
<1>3. nextPart \in [Messages -> 0 .. (MAX_MULTIPART_PARTS + 1)]
  BY Constants DEF Init
<1>4. TypeOK
  BY <1>1, <1>2, <1>3, Constants DEF TypeOK
<1>5. KeysDiffer(multipartBuffer) /\ CountExact /\ Pure /\ AgeBounded
  BY <1>1, <1>2 DEF KeysDiffer, CountExact, Pure, AgeBounded
<1>6. \A m \in Messages : ~Sending(m) /\ ~Sent(m)
  BY <1>2, Constants DEF Sending, Sent
<1>7. OneSender /\ OnItsWay /\ NothingLostMeansDelivered
  BY <1>6 DEF OneSender, OnItsWay, WayOf, NothingLostMeansDelivered
<1>8. WholeUnlessOverlap
  BY <1>2 DEF WholeUnlessOverlap
<1>9. QED
  BY <1>4, <1>5, <1>7, <1>8 DEF IInv, Table

LEMMA IInvStep == IInv /\ [Next]_vars => IInv'
<1> SUFFICES ASSUME IInv, [Next]_vars PROVE IInv'
  OBVIOUS
<1>1. /\ Table /\ AgeBounded /\ OneSender /\ Pure /\ OnItsWay
      /\ WholeUnlessOverlap /\ NothingLostMeansDelivered
  BY DEF IInv
<1>2. Table' /\ AgeBounded'
  BY <1>1, TableStep
<1>3. OneSender'
  BY <1>1, OneSenderStep
<1>4. Pure'
  BY <1>1, PureStep
<1>5. WholeUnlessOverlap'
  BY <1>1, WholeStep
<1>6. OnItsWay' /\ NothingLostMeansDelivered'
  BY <1>1, WayStep
<1>7. QED
  BY <1>2, <1>3, <1>4, <1>5, <1>6 DEF IInv

LEMMA InvHolds == Spec => []IInv
<1>1. Init => IInv
  BY InitInv
<1>2. IInv /\ [Next]_vars => IInv'
  BY IInvStep
<1>3. QED
  BY <1>1, <1>2, PTL DEF Spec

\* Types: however many sessions are opened and removed, multipartBuffer is not
\* written past its end, nor a session's part arrays past theirs.
THEOREM BufferTypeCorrect == Spec => []TypeOK
<1>1. IInv => TypeOK
  BY DEF IInv, Table
<1>2. QED
  BY <1>1, InvHolds, PTL

\* receivedParts is the number of parts that are set in partsReceived.
THEOREM CountsAreExact == Spec => []CountExact
<1>1. IInv => CountExact
  BY DEF IInv, Table
<1>2. QED
  BY <1>1, InvHolds, PTL

\* CleanupExpiredMultipartSessions, which removes sessions from the array it
\* walks, skips none: no session outlives its timeout by more than the passes
\* of loop() around its expiry.
THEOREM SessionsAreBounded == Spec => []AgeBounded
<1>1. IInv => AgeBounded
  BY DEF IInv
<1>2. QED
  BY <1>1, InvHolds, PTL

\* ReassembleMultipartPacket gives one sent message, whole, unless a message of
\* its sender and type was sent while an older session of that key was open.
THEOREM OnlyWholeMessages == Spec => []WholeUnlessOverlap
<1>1. IInv => WholeUnlessOverlap
  BY DEF IInv
<1>2. QED
  BY <1>1, InvHolds, PTL

\* A message that lost no part, found room, met no older session and did not
\* expire is handed over whole, whatever happens to the sessions of others.
THEOREM CompleteMessagesArrive == Spec => []NothingLostMeansDelivered
<1>1. IInv => NothingLostMeansDelivered
  BY DEF IInv
<1>2. QED
  BY <1>1, InvHolds, PTL

-----------------------------------------------------------------------------
(* The array implements the table of PartTable.                            *)

HoldingIn(buf, k) == {i \in DOMAIN buf : buf[i].key = k}

FindIn(buf, k) ==
    IF HoldingIn(buf, k) = {} THEN 0
    ELSE CHOOSE i \in HoldingIn(buf, k) : \A j \in HoldingIn(buf, k) : i <= j

CollectionOf(s) == [totalParts |-> s.totalParts, parts |-> s.parts]

\* TableOf, for any array.
TableIn(buf) ==
    [k \in Keys |->
        IF HoldingIn(buf, k) = {} THEN [totalParts |-> 0, parts |-> <<>>]
        ELSE CollectionOf(buf[FindIn(buf, k)])]

LEMMA TableIsTableIn ==
    /\ TableOf = TableIn(multipartBuffer)
    /\ TableOf' = TableIn(multipartBuffer')
  BY DEF TableOf, TableIn, CollectionOf, Holding, HoldingIn, FindMultipartSession, FindIn

LEMMA TableValue ==
    ASSUME NEW buf, BufferOK(buf), NEW k \in Keys
    PROVE  /\ (\A i \in DOMAIN buf : buf[i].key # k) => TableIn(buf)[k] = PT!Closed
           /\ \A i \in DOMAIN buf : buf[i].key = k =>
                 TableIn(buf)[k] = CollectionOf(buf[i]) /\ TableIn(buf)[k] # PT!Closed
<1>1. ASSUME \A i \in DOMAIN buf : buf[i].key # k
      PROVE  TableIn(buf)[k] = PT!Closed
  BY <1>1 DEF TableIn, HoldingIn, PT!Closed
<1>2. ASSUME NEW i \in DOMAIN buf, buf[i].key = k
      PROVE  TableIn(buf)[k] = CollectionOf(buf[i]) /\ TableIn(buf)[k] # PT!Closed
  <2> DEFINE H == HoldingIn(buf, k)
  <2>1. /\ DOMAIN buf = 1 .. Len(buf) /\ buf \in Seq(Sessions) /\ buf[i] \in Sessions
        /\ i \in Nat
    BY LenProperties, ElementOfSeq DEF BufferOK
  <2>2. H = {i}
    BY <1>2 DEF BufferOK, KeysDiffer, HoldingIn
  <2>3. (CHOOSE a \in H : \A j \in H : a <= j) = i
    <3>1. i \in H /\ \A j \in H : i <= j
      BY <2>1, <2>2
    <3>2. (CHOOSE a \in H : \A j \in H : a <= j) \in H
      BY <3>1
    <3>3. QED
      BY <2>2, <3>2
  <2>4. FindIn(buf, k) = i
    BY <2>2, <2>3 DEF FindIn
  <2>5. TableIn(buf)[k] = CollectionOf(buf[i])
    BY <2>2, <2>4 DEF TableIn
  <2>6. buf[i].totalParts # 0
    BY <2>1, Constants DEF Sessions
  <2>7. CollectionOf(buf[i]).totalParts # PT!Closed.totalParts
    BY <2>6 DEF CollectionOf, PT!Closed
  <2>8. QED
    BY <2>5, <2>7
<1>3. QED
  BY <1>1, <1>2

LEMMA KeysOfSessions ==
    ASSUME Table, NEW i \in DOMAIN multipartBuffer
    PROVE  multipartBuffer[i].key \in Keys
<1>1. multipartBuffer[i] \in Sessions
  BY BufferIsOK
<1>2. QED
  BY <1>1 DEF Sessions

\* A collection is open when a session holds its key; the array has room for
\* another one only when the table has.
LEMMA OpenCollections ==
    ASSUME Table
    PROVE  /\ \A k \in Keys : k \in PT!Open <=> Holding(k) # {}
           /\ Cardinality(PT!Open) <= Len(multipartBuffer)
           /\ Cardinality(PT!Open) \in Nat
<1> DEFINE n == Len(multipartBuffer)
           f == [i \in 1 .. n |-> multipartBuffer[i].key]
           O == PT!Open
<1>1. /\ n \in Nat /\ DOMAIN multipartBuffer = 1 .. n /\ BufferOK(multipartBuffer)
  BY BufferIsOK
<1>2. PT!Keys = Keys
  BY DEF PT!Keys, PT!Key, Keys, Key
<1>3. \A k \in Keys : k \in O <=> Holding(k) # {}
  BY <1>1, <1>2, TableIsTableIn, TableValue DEF PT!Open, Holding
<1>4. O \subseteq Keys
  BY <1>2 DEF PT!Open
<1> HIDE DEF n, O
<1>5. f \in Surjection(1 .. n, {f[i] : i \in 1 .. n})
  <2> DEFINE T == {f[i] : i \in 1 .. n}
  <2>1. f \in [1 .. n -> T] /\ \A t \in T : \E i \in 1 .. n : f[i] = t
    OBVIOUS
  <2> HIDE DEF T, f
  <2>2. QED
    BY <2>1, Fun_IsSurj DEF T
<1>6. IsFiniteSet(1 .. n) /\ Cardinality(1 .. n) = n
  BY <1>1, FS_Interval
<1>7. O \subseteq {f[i] : i \in 1 .. n}
  <2> SUFFICES ASSUME NEW k \in O
               PROVE  \E i \in 1 .. n : f[i] = k
    OBVIOUS
  <2>1. Holding(k) # {}
    BY <1>3, <1>4
  <2>2. PICK i \in 1 .. n : multipartBuffer[i].key = k
    BY <1>1, <2>1 DEF Holding
  <2>3. QED
    BY <2>2
<1> HIDE DEF f
<1>8. /\ IsFiniteSet({f[i] : i \in 1 .. n})
      /\ Cardinality({f[i] : i \in 1 .. n}) <= n
  BY <1>5, <1>6, FS_Surjection
<1>9. Cardinality(O) <= Cardinality({f[i] : i \in 1 .. n}) /\ IsFiniteSet(O)
  BY <1>7, <1>8, FS_Subset
<1>10. Cardinality(O) <= n /\ Cardinality(O) \in Nat
  <2>1. Cardinality(O) \in Nat /\ Cardinality({f[i] : i \in 1 .. n}) \in Nat
    BY <1>8, <1>9, FS_CardinalityType
  <2>2. QED
    BY <1>1, <1>8, <1>9, <2>1
<1>11. QED
  BY <1>3, <1>10 DEF n, O

\* The collections of the keys a step leaves alone stay.
LEMMA TableKept ==
    ASSUME Table, BufferOK(multipartBuffer'), NEW k \in Keys, Untouched(k)
    PROVE  TableOf'[k] = TableOf[k]
<1>1. BufferOK(multipartBuffer)
  BY BufferIsOK
<1>2. CASE \E a \in DOMAIN multipartBuffer : multipartBuffer[a].key = k
  <2>1. PICK a \in DOMAIN multipartBuffer : multipartBuffer[a].key = k
    BY <1>2
  <2>2. PICK j \in DOMAIN multipartBuffer' : Alike(multipartBuffer'[j], multipartBuffer[a])
    BY <2>1 DEF Untouched
  <2>3. multipartBuffer'[j].key = k
    BY <2>1, <2>2 DEF Alike
  <2>4. CollectionOf(multipartBuffer'[j]) = CollectionOf(multipartBuffer[a])
    BY <2>2 DEF Alike, CollectionOf
  <2>5. TableIn(multipartBuffer)[k] = CollectionOf(multipartBuffer[a])
    BY <1>1, <2>1, TableValue
  <2>6. TableIn(multipartBuffer')[k] = CollectionOf(multipartBuffer'[j])
    BY <2>3, TableValue
  <2>7. QED
    BY <2>4, <2>5, <2>6, TableIsTableIn
<1>3. CASE \A a \in DOMAIN multipartBuffer : multipartBuffer[a].key # k
  <2>1. \A j \in DOMAIN multipartBuffer' : multipartBuffer'[j].key # k
    BY <1>3 DEF Untouched, Alike
  <2>2. QED
    BY <1>1, <1>3, <2>1, TableValue, TableIsTableIn
<1>4. QED
  BY <1>2, <1>3

LEMMA TableChange ==
    ASSUME Table, BufferOK(multipartBuffer'), NEW k \in Keys,
           \A l : l # k => Untouched(l)
    PROVE  TableOf' = [TableOf EXCEPT ![k] = TableOf'[k]]
<1>1. \A l \in Keys : l # k => TableOf'[l] = TableOf[l]
  BY TableKept
<1>2. /\ TableOf = [l \in Keys |-> TableOf[l]]
      /\ TableOf' = [l \in Keys |-> TableOf'[l]]
  BY DEF TableOf
<1>3. QED
  BY <1>1, <1>2

\* The counting of PartTable is that of FiniteSets.
LEMMA SameCardinality == \A S : PT!Cardinality(S) = Cardinality(S)
  BY DEF PT!Cardinality, Cardinality

\* What a stored part does to the table.
LEMMA PartOfCollection ==
    ASSUME Table, NEW m \in Messages, Stores(m)
    PROVE  /\ PT!Collection(m) = CollectionOf(Session(m))
           /\ PT!Plus(PT!Collection(m), m, nextPart[m]) = WithPart(m).parts
           /\ PT!Key(m) = Key(m) /\ Key(m) \in Keys
           /\ Key(m) \in PT!Open \/ Cardinality(PT!Open) < Slots
           /\ nextPart[m] \notin DOMAIN PT!Collection(m).parts
<1> DEFINE k == Key(m)
           s == Session(m)
           c == PT!Collection(m)
<1>1. /\ Found(m, Located(m), Slot(m)) /\ s = Located(m)[Slot(m)]
      /\ BufferOK(multipartBuffer) /\ DOMAIN multipartBuffer = 1 .. Len(multipartBuffer)
      /\ Len(multipartBuffer) \in Nat
  BY FoundOK, BufferIsOK
<1>2. PT!Key(m) = k /\ k \in Keys
  BY Constants DEF PT!Key, Key
<1>3. k \in PT!Open <=> Holding(k) # {}
  BY <1>2, OpenCollections
<1>4. c = CollectionOf(s)
  <2>1. CASE Holding(k) # {}
    <3>1. /\ Located(m) = multipartBuffer /\ Slot(m) \in DOMAIN multipartBuffer
          /\ multipartBuffer[Slot(m)].key = k
      BY <1>1, <2>1 DEF Found
    <3>2. TableOf[k] = CollectionOf(multipartBuffer[Slot(m)])
      BY <1>1, <1>2, <3>1, TableValue, TableIsTableIn
    <3>3. c = TableOf[k]
      BY <1>2, <1>3, <2>1 DEF PT!Collection
    <3>4. QED
      BY <1>1, <3>1, <3>2, <3>3
  <2>2. CASE Holding(k) = {}
    <3>1. s = CreateMultipartSession(m)
      BY <1>1, <2>2 DEF Found
    <3>2. c = [totalParts |-> m.total, parts |-> <<>>]
      BY <1>2, <1>3, <2>2 DEF PT!Collection
    <3>3. QED
      BY <3>1, <3>2 DEF CollectionOf, CreateMultipartSession
  <2>3. QED
    BY <2>1, <2>2
<1>5. c.parts = s.parts
  BY <1>4 DEF CollectionOf
<1>6. Grown(m, s, WithPart(m))
  BY PartStored
<1>7. PT!Plus(c, m, nextPart[m]) = WithPart(m).parts
  BY <1>5, <1>6 DEF PT!Plus, Grown
<1>8. k \in PT!Open \/ Cardinality(PT!Open) < Slots
  <2>1. Holding(k) # {} \/ Len(multipartBuffer) < Slots
    BY DEF Stores, HasRoom
  <2>2. CASE Holding(k) = {}
    <3>1. /\ Len(multipartBuffer) < Slots
          /\ Cardinality(PT!Open) <= Len(multipartBuffer)
          /\ Cardinality(PT!Open) \in Nat
      BY <2>1, <2>2, OpenCollections
    <3>2. QED
      BY <1>1, <3>1, Constants
  <2>3. QED
    BY <1>3, <2>1, <2>2
<1>9. nextPart[m] \notin DOMAIN s.parts
  BY DEF Stores
<1>10. QED
  BY <1>2, <1>4, <1>5, <1>7, <1>8, <1>9

LEMMA StoreAdds ==
    ASSUME Table, NEW m \in Messages, StorePart(m)
    PROVE  PT!Add(m, nextPart[m])
<1> DEFINE k == Key(m)
           w == WithPart(m)
           v == [totalParts |-> PT!Collection(m).totalParts, parts |-> w.parts]
<1>1. /\ Stores(m) /\ delivered' = delivered /\ w.receivedParts # m.total
  BY DEF StorePart
<1>2. /\ PT!Collection(m) = CollectionOf(Session(m))
      /\ PT!Plus(PT!Collection(m), m, nextPart[m]) = w.parts
      /\ PT!Key(m) = k /\ k \in Keys
      /\ k \in PT!Open \/ Cardinality(PT!Open) < Slots
      /\ nextPart[m] \notin DOMAIN PT!Collection(m).parts
  BY <1>1, PartOfCollection
<1>3. Grown(m, Session(m), w)
  BY <1>1, PartStored
<1>4. Cardinality(DOMAIN w.parts) # m.total
  BY <1>1, <1>3 DEF Grown
<1>5. /\ Replaced(Located(m), Slot(m), w, multipartBuffer')
      /\ BufferOK(multipartBuffer') /\ Found(m, Located(m), Slot(m))
  BY <1>1, StoreBuffer, FoundOK
<1>6. TableOf'[k] = CollectionOf(w)
  <2>1. DOMAIN multipartBuffer' = 1 .. Len(multipartBuffer')
    BY <1>5, LenProperties DEF BufferOK
  <2>2. Slot(m) \in DOMAIN multipartBuffer' /\ multipartBuffer'[Slot(m)] = w
    BY <1>5, <2>1 DEF Replaced, Found
  <2>3. w.key = k
    BY <1>3 DEF Grown
  <2>4. QED
    BY <1>2, <1>5, <2>2, <2>3, TableValue, TableIsTableIn
<1>7. CollectionOf(w) = v
  BY <1>2, <1>3 DEF CollectionOf, Grown
<1>8. TableOf' = [TableOf EXCEPT ![k] = v]
  BY <1>2, <1>5, <1>6, <1>7, TableChange, StoreUntouched
<1> HIDE DEF k, w, v
<1>9. TableOf' = [TableOf EXCEPT ![PT!Key(m)] =
                    [totalParts |-> PT!Collection(m).totalParts,
                     parts |-> PT!Plus(PT!Collection(m), m, nextPart[m])]]
  BY <1>2, <1>8 DEF v
<1>10. QED
  BY <1>1, <1>2, <1>4, <1>9, SameCardinality DEF PT!Add

LEMMA CompleteAdds ==
    ASSUME Table, NEW m \in Messages, CompletePart(m)
    PROVE  PT!Add(m, nextPart[m])
<1> DEFINE k == Key(m)
           w == WithPart(m)
           c == PT!Collection(m)
<1>1. /\ Stores(m) /\ w.receivedParts = m.total
      /\ delivered' = delivered \cup {Reassembled(w)}
  BY DEF CompletePart
<1>2. /\ c = CollectionOf(Session(m)) /\ PT!Plus(c, m, nextPart[m]) = w.parts
      /\ PT!Key(m) = k /\ k \in Keys
      /\ k \in PT!Open \/ Cardinality(PT!Open) < Slots
      /\ nextPart[m] \notin DOMAIN c.parts
  BY <1>1, PartOfCollection
<1>3. Grown(m, Session(m), w)
  BY <1>1, PartStored
<1>4. Cardinality(DOMAIN w.parts) = m.total
  BY <1>1, <1>3 DEF Grown
<1>5. c.totalParts = w.totalParts /\ w.key = k
  BY <1>2, <1>3 DEF CollectionOf, Grown
<1>6. Reassembled(w) = [key |-> k, body |-> PT!Body(w.parts, c.totalParts)]
  BY <1>5 DEF Reassembled, PT!Body
<1>7. BufferOK(multipartBuffer') /\ Gone(k) /\ \A l : l # k => Untouched(l)
  BY CompleteBuffer, CompleteUntouched
<1>8. TableOf'[k] = PT!Closed
  BY <1>2, <1>7, TableValue, TableIsTableIn DEF Gone
<1>9. TableOf' = [TableOf EXCEPT ![k] = PT!Closed]
  BY <1>2, <1>7, <1>8, TableChange
<1> HIDE DEF k, w, c
<1>10. /\ Cardinality(DOMAIN PT!Plus(c, m, nextPart[m])) = m.total
       /\ delivered' = delivered \cup
             {[key |-> PT!Key(m),
               body |-> PT!Body(PT!Plus(c, m, nextPart[m]), c.totalParts)]}
       /\ TableOf' = [TableOf EXCEPT ![PT!Key(m)] = PT!Closed]
  BY <1>1, <1>2, <1>4, <1>6, <1>9
<1>11. QED
  BY <1>2, <1>10, SameCardinality DEF PT!Add, c

LEMMA CleanupGivesUp ==
    ASSUME Table, AgeBounded, CleanupRemove
    PROVE  \E k \in PT!Keys : PT!GiveUp(k)
<1> DEFINE k == multipartBuffer[scan].key
<1>1. /\ scan \in 1 .. Len(multipartBuffer) /\ BufferOK(multipartBuffer')
      /\ DOMAIN multipartBuffer = 1 .. Len(multipartBuffer)
      /\ delivered' = delivered
  BY CleanupBuffer, BufferIsOK DEF CleanupRemove
<1>2. k \in Keys /\ k \in PT!Keys
  BY <1>1, KeysOfSessions DEF PT!Keys, PT!Key, Keys, Key
<1>3. k \in PT!Open
  BY <1>1, <1>2, OpenCollections DEF Holding
<1>4. Gone(k) /\ \A l : l # k => Untouched(l)
  BY CleanupUntouched
<1>5. TableOf'[k] = PT!Closed
  BY <1>1, <1>2, <1>4, TableValue, TableIsTableIn DEF Gone
<1>6. TableOf' = [TableOf EXCEPT ![k] = PT!Closed]
  BY <1>1, <1>2, <1>4, <1>5, TableChange
<1> HIDE DEF k
<1>7. PT!GiveUp(k)
  BY <1>1, <1>3, <1>6 DEF PT!GiveUp
<1>8. QED
  BY <1>2, <1>7

LEMMA TickKeepsTable ==
    ASSUME Table, AgeBounded, Tick
    PROVE  UNCHANGED <<TableOf, delivered>>
<1>1. BufferOK(multipartBuffer') /\ delivered' = delivered
  BY TickBuffer DEF Tick
<1>2. \A k \in Keys : TableOf'[k] = TableOf[k]
  BY <1>1, TickUntouched, TableKept
<1>3. /\ TableOf = [k \in Keys |-> TableOf[k]]
      /\ TableOf' = [k \in Keys |-> TableOf'[k]]
  BY DEF TableOf
<1>4. QED
  BY <1>1, <1>2, <1>3

LEMMA StepImplements ==
    ASSUME IInv, [Next]_vars
    PROVE  [PT!Next]_<<TableOf, delivered>>
<1>1. Table /\ AgeBounded
  BY DEF IInv
<1>2. CASE \E m \in Messages : StorePart(m) \/ CompletePart(m)
  <2>1. PICK m \in Messages : StorePart(m) \/ CompletePart(m)
    BY <1>2
  <2>2. PT!Add(m, nextPart[m])
    BY <1>1, <2>1, StoreAdds, CompleteAdds
  <2>3. nextPart[m] \in 1 .. m.total
    BY <2>1 DEF StorePart, CompletePart, Stores, Arrives, Sending
  <2>4. QED
    BY <2>2, <2>3 DEF PT!Next
<1>3. CASE CleanupRemove
  BY <1>1, <1>3, CleanupGivesUp DEF PT!Next
<1>4. CASE Tick
  BY <1>1, <1>4, TickKeepsTable
<1>5. CASE UNCHANGED <<multipartBuffer, delivered>>
  BY <1>5, TableIsTableIn
<1>6. QED
  BY <1>2, <1>3, <1>4, <1>5
  DEF Next, vars, StartMessage, LosePart, ProcessMultipartPacket, RefusePart,
      DuplicatePart, NoPacket, CleanupExpiredMultipartSessions, BeginCleanup,
      CleanupKeep, CleanupDone

\* The array with its linear search, its creation of sessions, the shifting of
\* RemoveMultipartSession and its counters implements a table with one
\* collection per sender and type: no step changes the collection of another
\* key, and only a collection with all its parts is handed over.
THEOREM ArrayImplementsTable == Spec => ImplementsPartTable
<1>1. Init => PT!Init
  BY DEF Init, TableOf, Holding, PT!Init, PT!Closed, PT!Keys, PT!Key, Keys, Key
<1>2. IInv /\ [Next]_vars => [PT!Next]_<<TableOf, delivered>>
  BY StepImplements
<1>3. QED
  BY <1>1, <1>2, InvHolds, PTL DEF Spec, ImplementsPartTable, PT!Spec
=============================================================================
