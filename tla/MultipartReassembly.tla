------------------------ MODULE MultipartReassembly -------------------------
(***************************************************************************)
(* Multipart packets in the v3 firmware: the senders that split a message  *)
(* into numbered parts, the air that loses some of them, and the receiver  *)
(* that collects them in multipartBuffer and hands the message over when   *)
(* it has counted as many parts as a packet announces.                     *)
(*                                                                         *)
(* A packet names its sender and its data type but no message, so two      *)
(* messages of one sender and type share a session while it is open.       *)
(*                                                                         *)
(* loop() calls CleanupExpiredMultipartSessions, then lets the radio       *)
(* deliver one packet; pc is the place in that pass.  The contents of part *)
(* p of message m are represented by m itself: what matters is which       *)
(* message a slot was filled from.                                         *)
(***************************************************************************)
EXTENDS Naturals, Sequences, FiniteSets

CONSTANTS
    Messages,             \* records with src, dataType and total
    MAX_MULTIPART_PARTS,  \* capacity of a session
    Slots,                \* of multipartBuffer: MAX_MULTIPART_PARTS again
    MULTIPART_TIMEOUT,    \* MULTIPART_TIMEOUT_MS, in model time units
    ClockMod,             \* millis() counts modulo this number
    MaxPass               \* longest time between two cleanups

ASSUME BoundsAssumption ==
    /\ MAX_MULTIPART_PARTS \in Nat \ {0}
    /\ Slots \in Nat \ {0}
    /\ MULTIPART_TIMEOUT \in Nat
    /\ MaxPass \in Nat
    /\ ClockMod \in Nat

(* A pass of loop() is seconds long and the clock wraps after 49 days.     *)
ASSUME ClockAssumption == ClockMod > MULTIPART_TIMEOUT + 2 * MaxPass

(* SendMultipartTransaction and SendMultipartBroadcast refuse more parts.  *)
ASSUME MessagesAssumption ==
    \A m \in Messages : m.total \in 1 .. MAX_MULTIPART_PARTS

VARIABLES
    pc,               \* where loop() is: "web", "cleanup" or "radio"
    multipartBuffer,  \* the open sessions, activeMultipartSessions of them
    scan,             \* loop index i of the cleanup, plus one
    nextPart,         \* senders: the next part of each message, 0 before it
    sinceCleanup,     \* ghost: time since the last cleanup read millis()
    delivered,        \* ghost: what was handed to the ProcessReassembled*
    overlapped,       \* ghost: keys a message was sent for while a session
                      \*   of that key was open
    spoiled           \* ghost: messages that lost a part, were refused one,
                      \*   overlapped, or expired while being sent

vars == <<pc, multipartBuffer, scan, nextPart, sinceCleanup, delivered,
          overlapped, spoiled>>

Key(m) == <<m.src, m.dataType>>
Keys == {Key(m) : m \in Messages}

(* The senders are blocked while they send: parts 1 to total, in order.    *)
Sending(m) == nextPart[m] \in 1 .. m.total
Sent(m) == nextPart[m] = m.total + 1

Holding(k) == {i \in DOMAIN multipartBuffer : multipartBuffer[i].key = k}

(* Mutant: the data type is not compared. *)
FindBySource(k) ==
    LET S == {i \in DOMAIN multipartBuffer : multipartBuffer[i].key[1] = k[1]}
    IN  IF S = {} THEN 0 ELSE CHOOSE i \in S : \A j \in S : i <= j

(* The first slot of that sender and type, or 0. *)
FindMultipartSession(k) ==
    IF Holding(k) = {} THEN 0
    ELSE CHOOSE i \in Holding(k) : \A j \in Holding(k) : i <= j

(* Mutant: a new session already counts one part. *)
CreateCountsOne(m) ==
    [key |-> Key(m), totalParts |-> m.total, receivedParts |-> 1,
     parts |-> <<>>, elapsed |-> 0]

(* elapsed is millis() - startTime, which no later part refreshes.         *)
CreateMultipartSession(m) ==
    [key |-> Key(m), totalParts |-> m.total, receivedParts |-> 0,
     parts |-> <<>>, elapsed |-> 0]

HasRoom == Len(multipartBuffer) < Slots

(* The sessions after find-or-create, and the slot of m's session.         *)
Located(m) ==
    IF FindMultipartSession(Key(m)) = 0
    THEN Append(multipartBuffer, CreateMultipartSession(m))
    ELSE multipartBuffer

Slot(m) ==
    IF FindMultipartSession(Key(m)) = 0
    THEN Len(multipartBuffer) + 1
    ELSE FindMultipartSession(Key(m))

Session(m) == Located(m)[Slot(m)]

(* The session of m with the part of m that is on the air put in its slot. *)
WithPart(m) ==
    [Session(m) EXCEPT
        !.parts = [p \in DOMAIN @ \cup {nextPart[m]} |->
                      IF p = nextPart[m] THEN m ELSE @[p]],
        !.receivedParts = @ + 1]

(* Mutant: the shift starts one slot too late and loses the next session. *)
RemoveNextSession(buf, i) ==
    [j \in 1 .. (Len(buf) - 1) |-> IF j <= i THEN buf[j] ELSE buf[j + 1]]

(* The later sessions move down by one. *)
RemoveMultipartSession(buf, i) ==
    [j \in 1 .. (Len(buf) - 1) |-> IF j < i THEN buf[j] ELSE buf[j + 1]]

(* ReassembleMultipartPacket walks the total the session was created with. *)
Reassembled(s) ==
    [key |-> s.key,
     body |-> [p \in DOMAIN s.parts \cap (1 .. s.totalParts) |-> s.parts[p]]]
-----------------------------------------------------------------------------
Init ==
    /\ pc = "web"
    /\ multipartBuffer = <<>>
    /\ scan = 0
    /\ nextPart = [m \in Messages |-> 0]
    /\ sinceCleanup = 0
    /\ delivered = {}
    /\ overlapped = {}
    /\ spoiled = {}

(* A node starts sending m, unless it is still sending another message.    *)
StartMessage(m) ==
    /\ nextPart[m] = 0
    /\ \A n \in Messages : n.src = m.src => ~Sending(n)
    /\ nextPart' = [nextPart EXCEPT ![m] = 1]
    /\ IF Holding(Key(m)) = {}
       THEN UNCHANGED <<overlapped, spoiled>>
       ELSE /\ overlapped' = overlapped \cup {Key(m)}
            /\ spoiled' = spoiled \cup {m}
    /\ UNCHANGED <<pc, multipartBuffer, scan, sinceCleanup, delivered>>

(* The part that is on the air is not received, or its sender was reset.   *)
LosePart(m) ==
    /\ Sending(m)
    /\ nextPart' = [nextPart EXCEPT ![m] = @ + 1]
    /\ spoiled' = spoiled \cup {m}
    /\ UNCHANGED <<pc, multipartBuffer, scan, sinceCleanup, delivered,
                   overlapped>>

(* What the branches of ProcessMultipartPacket share: the radio delivers   *)
(* the next part of m and loop() goes on to its next pass.                 *)
Arrives(m) ==
    /\ pc = "radio"
    /\ Sending(m)
    /\ nextPart' = [nextPart EXCEPT ![m] = @ + 1]
    /\ pc' = "web"
    /\ UNCHANGED <<scan, sinceCleanup, overlapped>>

(* No session for this sender and type, and no room for one. *)
RefusePart(m) ==
    /\ Arrives(m)
    /\ Holding(Key(m)) = {} /\ ~HasRoom
    /\ spoiled' = spoiled \cup {m}
    /\ UNCHANGED <<multipartBuffer, delivered>>

(* Mutant: a duplicate is counted. *)
DuplicateCounted(m) ==
    /\ Arrives(m)
    /\ Holding(Key(m)) # {}
    /\ nextPart[m] \in DOMAIN Session(m).parts
    /\ multipartBuffer' = [multipartBuffer EXCEPT ![Slot(m)].receivedParts = @ + 1]
    /\ UNCHANGED <<delivered, spoiled>>

(* The slot is taken: the part is a duplicate, or of another message.      *)
DuplicatePart(m) ==
    /\ Arrives(m)
    /\ Holding(Key(m)) # {}
    /\ nextPart[m] \in DOMAIN Session(m).parts
    /\ UNCHANGED <<multipartBuffer, delivered, spoiled>>

(* A part is stored; its number is within its packet's total by the way    *)
(* the senders count.                                                      *)
Stores(m) ==
    /\ Arrives(m)
    /\ Holding(Key(m)) # {} \/ HasRoom
    /\ nextPart[m] \notin DOMAIN Session(m).parts
    /\ UNCHANGED spoiled

StorePart(m) ==
    /\ Stores(m)
    /\ WithPart(m).receivedParts # m.total
    /\ multipartBuffer' = [Located(m) EXCEPT ![Slot(m)] = WithPart(m)]
    /\ UNCHANGED delivered

(* The count reaches the total of this packet: hand over and remove.       *)
CompletePart(m) ==
    /\ Stores(m)
    /\ WithPart(m).receivedParts = m.total
    /\ delivered' = delivered \cup {Reassembled(WithPart(m))}
    /\ multipartBuffer' = RemoveMultipartSession(Located(m), Slot(m))

ProcessMultipartPacket(m) ==
    \/ RefusePart(m)
    \/ DuplicatePart(m)
    \/ StorePart(m)
    \/ CompletePart(m)

(* A pass in which the radio has nothing to deliver. *)
NoPacket ==
    /\ pc = "radio"
    /\ pc' = "web"
    /\ UNCHANGED <<multipartBuffer, scan, nextPart, sinceCleanup, delivered,
                   overlapped, spoiled>>

Expired(s) == s.elapsed > MULTIPART_TIMEOUT

(* CleanupExpiredMultipartSessions reads the clock and walks down from the *)
(* last session.                                                           *)
BeginCleanup ==
    /\ pc = "web"
    /\ pc' = "cleanup"
    /\ scan' = Len(multipartBuffer)
    /\ sinceCleanup' = 0
    /\ UNCHANGED <<multipartBuffer, nextPart, delivered, overlapped, spoiled>>

(* Mutant: the walk ends after the first session it removes. *)
CleanupRemovesOne ==
    /\ pc = "cleanup"
    /\ scan > 0
    /\ Expired(multipartBuffer[scan])
    /\ multipartBuffer' = RemoveMultipartSession(multipartBuffer, scan)
    /\ spoiled' = spoiled \cup
           {m \in Messages : Sending(m) /\ Key(m) = multipartBuffer[scan].key}
    /\ scan' = 0
    /\ UNCHANGED <<pc, nextPart, sinceCleanup, delivered, overlapped>>

CleanupRemove ==
    /\ pc = "cleanup"
    /\ scan > 0
    /\ Expired(multipartBuffer[scan])
    /\ multipartBuffer' = RemoveMultipartSession(multipartBuffer, scan)
    /\ spoiled' = spoiled \cup
           {m \in Messages : Sending(m) /\ Key(m) = multipartBuffer[scan].key}
    /\ scan' = scan - 1
    /\ UNCHANGED <<pc, nextPart, sinceCleanup, delivered, overlapped>>

CleanupKeep ==
    /\ pc = "cleanup"
    /\ scan > 0
    /\ ~Expired(multipartBuffer[scan])
    /\ scan' = scan - 1
    /\ UNCHANGED <<pc, multipartBuffer, nextPart, sinceCleanup, delivered,
                   overlapped, spoiled>>

(* Mutant: the walk stops before the first slot. *)
CleanupDoneEarly ==
    /\ pc = "cleanup"
    /\ scan <= 1
    /\ pc' = "radio"
    /\ scan' = 0
    /\ UNCHANGED <<multipartBuffer, nextPart, sinceCleanup, delivered,
                   overlapped, spoiled>>

CleanupDone ==
    /\ pc = "cleanup"
    /\ scan = 0
    /\ pc' = "radio"
    /\ UNCHANGED <<multipartBuffer, scan, nextPart, sinceCleanup, delivered,
                   overlapped, spoiled>>

CleanupExpiredMultipartSessions ==
    \/ BeginCleanup
    \/ CleanupRemove
    \/ CleanupKeep
    \/ CleanupDone

(* Time passes while loop() is busy with anything else.                    *)
Tick ==
    /\ pc # "cleanup"
    /\ sinceCleanup < MaxPass
    /\ sinceCleanup' = sinceCleanup + 1
    /\ multipartBuffer' =
           [i \in DOMAIN multipartBuffer |->
               [multipartBuffer[i] EXCEPT !.elapsed = (@ + 1) % ClockMod]]
    /\ UNCHANGED <<pc, scan, nextPart, delivered, overlapped, spoiled>>

Next ==
    \/ \E m \in Messages :
          StartMessage(m) \/ LosePart(m) \/ ProcessMultipartPacket(m)
    \/ NoPacket
    \/ CleanupExpiredMultipartSessions
    \/ Tick

Spec == Init /\ [][Next]_vars

(* loop() never stops and millis() never stops; nothing is assumed of the  *)
(* senders or of the air.                                                  *)
FairSpec ==
    /\ Spec
    /\ WF_vars(CleanupExpiredMultipartSessions)
    /\ WF_vars(NoPacket \/ \E m \in Messages : ProcessMultipartPacket(m))
    /\ SF_vars(Tick)
-----------------------------------------------------------------------------
Sessions ==
    [key : Keys,
     totalParts : 1 .. MAX_MULTIPART_PARTS,
     receivedParts : 0 .. MAX_MULTIPART_PARTS,
     parts : UNION {[S -> Messages] : S \in SUBSET (1 .. MAX_MULTIPART_PARTS)},
     elapsed : 0 .. (ClockMod - 1)]

(* The variables keep their types, and neither multipartBuffer nor the     *)
(* part arrays of a session are written past their ends.                   *)
TypeOK ==
    /\ pc \in {"web", "cleanup", "radio"}
    /\ multipartBuffer \in Seq(Sessions)
    /\ Len(multipartBuffer) <= Slots
    /\ scan \in 0 .. Slots
    /\ nextPart \in [Messages -> 0 .. (MAX_MULTIPART_PARTS + 1)]
    /\ sinceCleanup \in 0 .. MaxPass
    /\ overlapped \in SUBSET Keys
    /\ spoiled \in SUBSET Messages

(* receivedParts counts the set entries of partsReceived, whatever mix of  *)
(* messages, duplicates and losses filled them.                            *)
CountExact ==
    \A i \in DOMAIN multipartBuffer :
        multipartBuffer[i].receivedParts
            = Cardinality(DOMAIN multipartBuffer[i].parts)

(* No session outlives MULTIPART_TIMEOUT_MS by more than the passes around *)
(* its expiry, however many parts keep coming in: a slot is not held for   *)
(* ever by a sender that went away.                                        *)
AgeBounded ==
    /\ pc = "cleanup" => scan <= Len(multipartBuffer)
    /\ \A i \in DOMAIN multipartBuffer :
          multipartBuffer[i].elapsed <=
              MULTIPART_TIMEOUT + sinceCleanup
                  + (IF pc = "cleanup" /\ i <= scan THEN MaxPass ELSE 0)

(* The whole of m, as it is handed over. *)
Whole(m) == [key |-> Key(m), body |-> [p \in 1 .. m.total |-> m]]

(* Losses, duplicates, a full buffer and expiry never make the receiver    *)
(* hand over anything but a whole message, as long as no message is sent   *)
(* while an older session of its sender and type is still open.            *)
WholeUnlessOverlap ==
    \A d \in delivered :
        d.key \in overlapped \/ \E m \in Messages : d = Whole(m)

(* A message all of whose parts arrived in time, found room and met no     *)
(* older session of its key has been handed over, whole: interleaving with *)
(* other senders, and the removal of their sessions from the array, lose   *)
(* nothing.                                                                *)
NothingLostMeansDelivered ==
    \A m \in Messages : Sent(m) /\ m \notin spoiled => Whole(m) \in delivered

(* The slot of a sender that went away is freed in the end.                *)
SessionsEnd == \A k \in Keys : Holding(k) # {} ~> Holding(k) = {}

(* The array with its search, creation, shifting and counting implements   *)
(* the table of PartTable.                                                 *)
TableOf ==
    [k \in Keys |->
        IF Holding(k) = {} THEN [totalParts |-> 0, parts |-> <<>>]
        ELSE LET s == multipartBuffer[FindMultipartSession(k)]
             IN  [totalParts |-> s.totalParts, parts |-> s.parts]]

PT == INSTANCE PartTable WITH table <- TableOf, Capacity <- Slots

ImplementsPartTable == PT!Spec

(* README, Multipart Packet Support: "Receiving devices automatically      *)
(* reassemble the full transaction": what is handed over is one message.   *)
ReassembledIsWhole == \A d \in delivered : \E m \in Messages : d = Whole(m)
=============================================================================
