------------------------- MODULE CommandLoopProofs --------------------------
(***************************************************************************)
(* Proofs about CommandLoop, for any set of nodes, any number of parts and *)
(* both versions of the firmware.                                          *)
(***************************************************************************)
EXTENDS CommandLoop, SequenceTheorems, TLAPS

(* A received packet is one: an interrupt is told from none.               *)
LEMMA ReceivedIsPacket == Received \subseteq Packets /\ None \notin Packets
BY DEF None, Received, Packets, Ping, Plain, Answered, Relayed

(* The numbered parts of a message are a list of transmissions, all of the *)
(* one kind and followed by the one delay.                                 *)
LEMMA PartsType ==
    ASSUME NEW kind \in Kinds, NEW delay \in {"none", "short", "long"},
           NEW n \in Nat
    PROVE  /\ Parts(kind, delay, n) \in Seq(Transmissions)
           /\ Len(Parts(kind, delay, n)) = n
           /\ \A i \in 1 .. n : /\ Parts(kind, delay, n)[i].kind = kind
                                /\ Parts(kind, delay, n)[i].delay = delay
<1>1. Transmission(kind, delay) \in Transmissions
    BY DEF Transmission, Transmissions
<1>2. Parts(kind, delay, n) \in [1 .. n -> Transmissions]
    BY <1>1 DEF Parts
<1>3. Parts(kind, delay, n) \in Seq(Transmissions)
    BY <1>2, SeqDef
<1>4. Len(Parts(kind, delay, n)) = n
    BY <1>2, <1>3, LenProperties
<1>5. QED
    BY <1>3, <1>4 DEF Parts, Transmission

(* The kinds whose handlers wait for the transmission to end, and the      *)
(* lists of transmissions in which each packet of theirs is followed by a  *)
(* long delay.                                                             *)
Paused == {"transaction", "confirmation"}

Patient(list) ==
    /\ list \in Seq(Transmissions)
    /\ \A i \in 1 .. Len(list) : list[i].kind \in Paused => list[i].delay = "long"

(* Lists are patient when their parts are, and stay so as they are sent.   *)
LEMMA PatientParts ==
    ASSUME NEW kind \in Kinds, NEW delay \in {"none", "short", "long"},
           NEW n \in Nat, kind \in Paused => delay = "long"
    PROVE  Patient(Parts(kind, delay, n)) /\ Len(Parts(kind, delay, n)) = n
BY PartsType DEF Patient

LEMMA PatientOne ==
    ASSUME NEW kind \in Kinds, NEW delay \in {"none", "short", "long"},
           kind \in Paused => delay = "long"
    PROVE  Patient(<<Transmission(kind, delay)>>)
<1>1. Transmission(kind, delay) \in Transmissions
    BY DEF Transmission, Transmissions
<1>2. QED
    BY <1>1 DEF Patient, Transmission

LEMMA PatientTwo ==
    ASSUME NEW s \in Transmissions, NEW t \in Transmissions,
           s.kind \in Paused => s.delay = "long",
           t.kind \in Paused => t.delay = "long"
    PROVE  Patient(<<s, t>>) /\ Len(<<s, t>>) = 2
BY DEF Patient

LEMMA PatientConcat ==
    ASSUME NEW s, NEW t, Patient(s), Patient(t)
    PROVE  /\ Patient(s \o t)
           /\ Len(s \o t) = Len(s) + Len(t)
<1>1. s \in Seq(Transmissions) /\ t \in Seq(Transmissions)
    BY DEF Patient
<1>2. /\ s \o t \in Seq(Transmissions)
      /\ Len(s \o t) = Len(s) + Len(t)
      /\ Len(s) \in Nat /\ Len(t) \in Nat
    BY <1>1, ConcatProperties, LenProperties
<1>3. ASSUME NEW i \in 1 .. Len(s) + Len(t)
      PROVE  (s \o t)[i].kind \in Paused => (s \o t)[i].delay = "long"
    <2>1. CASE i <= Len(s)
        BY <1>1, <1>2, <2>1, ConcatProperties DEF Patient
    <2>2. CASE i > Len(s)
        <3>1. i - Len(s) \in 1 .. Len(t)
            BY <1>2, <2>2
        <3>2. (s \o t)[i] = t[i - Len(s)]
            BY <1>1, <1>2, <2>2, ConcatProperties
        <3>3. QED
            BY <3>1, <3>2 DEF Patient
    <2>3. QED
        BY <1>2, <2>1, <2>2
<1>4. QED
    BY <1>2, <1>3 DEF Patient

LEMMA PatientTail ==
    ASSUME NEW s, Patient(s), s # <<>>
    PROVE  /\ Patient(Tail(s))
           /\ Head(s) \in Transmissions
           /\ Head(s).kind \in Paused => Head(s).delay = "long"
           /\ Len(s) \in Nat /\ Len(Tail(s)) = Len(s) - 1
<1>1. s \in Seq(Transmissions)
    BY DEF Patient
<1>2. /\ Tail(s) \in Seq(Transmissions)
      /\ Len(Tail(s)) = Len(s) - 1
      /\ Head(s) \in Transmissions
      /\ \A i \in 1 .. Len(Tail(s)) : Tail(s)[i] = s[i + 1]
    BY <1>1, HeadTailProperties
<1>3. Len(s) \in Nat /\ Len(s) # 0
    BY <1>1, LenProperties, EmptySeq
<1>4. Head(s) = s[1]
    BY <1>1
<1>5. Patient(Tail(s))
    BY <1>2, <1>3 DEF Patient
<1>6. QED
    BY <1>2, <1>3, <1>4, <1>5 DEF Patient

(* Every list a handler begins with is patient, and of bounded length.     *)
Fits(list) == Patient(list) /\ Len(list) <= 2 * MaxParts

LEMMA HandlersFit ==
    ASSUME NEW n \in 1 .. MaxParts
    PROVE  /\ Fits(<<Transmission("message", "none")>>)
           /\ Fits(<<Transmission("relay", "none")>>)
           /\ Fits(Parts("transaction", "long", n))
           /\ Fits(<<Transmission("confirmation", "long"),
                     Transmission("second", "none")>>)
           /\ Fits(Parts("part", "short", n - 1)
                       \o <<Transmission("part", "long")>>
                       \o Parts("part", "short", n))
<1> USE DEF Kinds
<1>1. n \in Nat /\ n - 1 \in Nat /\ MaxParts \in Nat /\ n <= MaxParts
    BY ConstantsAssumption
<1>2. /\ Patient(<<Transmission("message", "none")>>)
      /\ Patient(<<Transmission("relay", "none")>>)
      /\ Patient(<<Transmission("confirmation", "long")>>)
      /\ Patient(<<Transmission("second", "none")>>)
      /\ Patient(<<Transmission("part", "long")>>)
    BY PatientOne DEF Paused
<1>3. Patient(Parts("transaction", "long", n)) /\ Len(Parts("transaction", "long", n)) = n
    BY <1>1, PatientParts
<1>4. /\ Patient(Parts("part", "short", n - 1))
      /\ Len(Parts("part", "short", n - 1)) = n - 1
      /\ Patient(Parts("part", "short", n))
      /\ Len(Parts("part", "short", n)) = n
    BY <1>1, PatientParts DEF Paused
<1>5. /\ Len(<<Transmission("message", "none")>>) = 1
      /\ Len(<<Transmission("relay", "none")>>) = 1
      /\ Len(<<Transmission("confirmation", "long")>>) = 1
      /\ Len(<<Transmission("second", "none")>>) = 1
      /\ Len(<<Transmission("part", "long")>>) = 1
    OBVIOUS
<1>6. Fits(<<Transmission("message", "none")>>)
    BY <1>1, <1>2, <1>5 DEF Fits
<1>7. Fits(<<Transmission("relay", "none")>>)
    BY <1>1, <1>2, <1>5 DEF Fits
<1>8. Fits(Parts("transaction", "long", n))
    BY <1>1, <1>3 DEF Fits
<1>9. Fits(<<Transmission("confirmation", "long"), Transmission("second", "none")>>)
    <2>1. /\ Transmission("confirmation", "long") \in Transmissions
          /\ Transmission("second", "none") \in Transmissions
          /\ Transmission("confirmation", "long").delay = "long"
          /\ Transmission("second", "none").kind \notin Paused
        BY DEF Transmission, Transmissions, Paused
    <2>2. QED
        BY <1>1, <2>1, PatientTwo DEF Fits
<1>10. Fits(Parts("part", "short", n - 1)
                \o <<Transmission("part", "long")>>
                \o Parts("part", "short", n))
    <2> DEFINE first == Parts("part", "short", n - 1) \o <<Transmission("part", "long")>>
    <2>1. Patient(first) /\ Len(first) = n
        BY <1>1, <1>2, <1>4, <1>5, PatientConcat
    <2> HIDE DEF first
    <2>2. Fits(first \o Parts("part", "short", n))
        BY <1>1, <1>4, <2>1, PatientConcat DEF Fits
    <2>3. QED
        BY <2>2 DEF first
<1>11. QED
    BY <1>6, <1>7, <1>8, <1>9, <1>10

-----------------------------------------------------------------------------
(* What is true in every reachable state of both versions.                 *)
TypeInv == NodeTypeOK /\ Patient(todo)

(* A packet of a paused kind is on the air only while its handler waits.   *)
PausedOnAir ==
    /\ radio = "tx" /\ onAir \in Paused => pc = "sending" /\ gap = "long"
    /\ cut \cap Paused = {}

(* From OnRxDone to the ACK, the radio does not receive and has received   *)
(* nothing more, and the loop is not between the ACK and the callbacks.    *)
OneDebt ==
    /\ EachPingAcknowledgedOnce
    /\ needToSendACK =>
          /\ rxIrq = None
          /\ radio # "rx"
          /\ pc \notin {"rx", "host", "command"}
          /\ pc = "sending" => back.pc # "irq"

(* What a new operation interrupts is a packet. *)
LEMMA InterruptedType == NodeTypeOK => Interrupted \in SUBSET Kinds
<1>1. CASE radio = "tx"
    BY <1>1 DEF NodeTypeOK, Interrupted
<1>2. CASE radio # "tx"
    BY <1>2 DEF NodeTypeOK, Interrupted
<1>3. QED
    BY <1>1, <1>2

(* Type correctness, by action: the types that matter are those of the     *)
(* list of transmissions and of the pingers.                               *)
LEMMA TypeInit == Init => TypeInv
<1> SUFFICES ASSUME Init PROVE TypeInv
    OBVIOUS
<1>1. <<>> \in Seq(Transmissions) /\ <<>> \in Seq(Addresses) /\ Len(<<>>) = 0
    BY EmptySeq
<1>2. Patient(todo)
    BY <1>1 DEF Init, Patient
<1>3. Len(<<>>) <= 2 * MaxParts
    BY <1>1, ConstantsAssumption
<1>4. NodeTypeOK
    BY <1>1, <1>3, ConstantsAssumption DEF Init, NodeTypeOK, NoReturn, PassStart
<1>5. QED
    BY <1>2, <1>4 DEF TypeInv

(* The actions of the web server keep the types. *)
LEMMA TypeWeb == TypeInv /\ Web => TypeInv'
<1> SUFFICES ASSUME TypeInv, Web PROVE TypeInv'
    OBVIOUS
<1> USE DEF TypeInv, NextWeb, NoHandler, RadioUnchanged
<1>1. CASE WebIdle
    BY <1>1 DEF WebIdle, NodeTypeOK
<1>2. ASSUME NEW d \in Addresses \cup {Broadcast, dest}, WebControl(d)
      PROVE  TypeInv'
    BY <1>2, InterruptedType DEF WebControl, Send, Kinds, NodeTypeOK
<1>3. ASSUME NEW d \in Addresses \cup {Broadcast, dest}, WebPacket(d)
      PROVE  TypeInv'
    <2>1. MaxParts >= 1 /\ MaxParts \in Nat
        BY ConstantsAssumption
    <2>2. Fits(<<Transmission("message", "none")>>)
        BY <2>1, HandlersFit
    <2>3. Fits(todo')
        BY <1>3, <2>2 DEF WebPacket, Begin
    <2>4. QED
        BY <1>3, <2>3 DEF WebPacket, Begin, NodeTypeOK, Patient, Fits
<1>4. ASSUME NEW d \in Addresses \cup {Broadcast}, WebParts(d)
      PROVE  TypeInv'
    <2>1. Fits(todo')
        BY <1>4, HandlersFit DEF WebParts, Begin
    <2>2. QED
        BY <1>4, <2>1 DEF WebParts, Begin, NodeTypeOK, Patient, Fits
<1>5. QED
    BY <1>1, <1>2, <1>3, <1>4 DEF Web

(* The steps of the loop that send what a handler or a ping left keep them. *)
LEMMA TypeLoop ==
    TypeInv /\ (Transmit \/ EndOfHandler \/ Acknowledge
                    \/ NothingToAcknowledge \/ BackToRx \/ Host) => TypeInv'
<1> SUFFICES ASSUME TypeInv PROVE
        (Transmit \/ EndOfHandler \/ Acknowledge
            \/ NothingToAcknowledge \/ BackToRx \/ Host) => TypeInv'
    OBVIOUS
<1> USE DEF TypeInv, NoHandler, RadioUnchanged
<1>1. CASE Transmit
    <2>1. todo # <<>> /\ todo' = Tail(todo)
        BY <1>1 DEF Transmit
    <2>2. Patient(todo') /\ Head(todo) \in Transmissions
          /\ Len(todo) \in Nat /\ Len(todo') = Len(todo) - 1
        BY <2>1, PatientTail
    <2>5. Len(todo') <= 2 * MaxParts
        BY <2>2, ConstantsAssumption DEF NodeTypeOK
    <2>3. Head(todo).kind \in Kinds /\ Head(todo).delay \in {"none", "short", "long"}
        BY <2>2 DEF Transmissions
    <2>4. QED
        BY <1>1, <2>2, <2>3, <2>5, InterruptedType DEF Transmit, Send, NodeTypeOK, Patient
<1>2. CASE EndOfHandler
    BY <1>2 DEF EndOfHandler, NoReturn, PassStart, NodeTypeOK
<1>3. CASE Acknowledge
    <2>1. owed' \in Seq(Addresses)
        BY <1>3, HeadTailProperties DEF Acknowledge, NodeTypeOK
    <2>2. QED
        BY <1>3, <2>1, InterruptedType DEF Acknowledge, Send, Kinds, NodeTypeOK
<1>4. CASE NothingToAcknowledge
    BY <1>4 DEF NothingToAcknowledge, NodeTypeOK
<1>5. CASE BackToRx
    BY <1>5, InterruptedType DEF BackToRx, Rx, NodeTypeOK
<1>6. CASE HostNothing \/ HostRead
    BY <1>6 DEF HostNothing, HostRead, NodeTypeOK
<1>7. ASSUME NEW d \in Addresses \cup {Broadcast}, HostPing(d) \/ HostPacket(d)
      PROVE  TypeInv'
    BY <1>7, InterruptedType DEF HostPing, HostPacket, Send, Kinds, NodeTypeOK
<1>8. QED
    BY <1>1, <1>2, <1>3, <1>4, <1>5, <1>6, <1>7 DEF Host

(* The callbacks and the radio keep them. *)
LEMMA TypeRadio ==
    TypeInv /\ (IrqProcess \/ TxEnds \/ \E p \in Received : PacketArrives(p))
        => TypeInv'
<1> SUFFICES ASSUME TypeInv PROVE
        (IrqProcess \/ TxEnds \/ \E p \in Received : PacketArrives(p)) => TypeInv'
    OBVIOUS
<1> USE DEF TypeInv, NoHandler, RadioUnchanged, Sleep
<1>1. CASE OnTxDone \/ OnTxTimeout
    BY <1>1, InterruptedType DEF OnTxDone, OnTxTimeout, NodeTypeOK
<1>2. ASSUME NEW p \in Received, ReceivePing(p)
      PROVE  TypeInv'
    <2>1. p.from \in Addresses
        BY <1>2 DEF ReceivePing, Received, Packets, Ping, Plain, Answered, Relayed
    <2>2. owed' \in Seq(Addresses)
        BY <1>2, <2>1, AppendProperties DEF ReceivePing, NodeTypeOK
    <2>3. QED
        BY <1>2, <2>1, <2>2, InterruptedType DEF ReceivePing, PacketRead, NodeTypeOK
<1>3. ASSUME NEW p \in Received, ReceivePlain(p)
      PROVE  TypeInv'
    BY <1>3, InterruptedType DEF ReceivePlain, PacketRead, NodeTypeOK
<1>4. ASSUME NEW p \in Received, AnswerRequest(p)
      PROVE  TypeInv'
    <2>1. 1 \in 1 .. MaxParts
        BY ConstantsAssumption
    <2>2. Fits(todo')
        BY <1>4, <2>1, HandlersFit DEF AnswerRequest, Begin
    <2>3. dest' \in Addresses \cup {Broadcast, Unset}
        BY <1>4 DEF AnswerRequest, NodeTypeOK
    <2>4. /\ pc' = "sending" /\ gap' = "none"
          /\ back' = [pc |-> "irq", idle |-> TRUE]
        BY <1>4 DEF AnswerRequest, Begin
    <2>5. QED
        BY <1>4, <2>2, <2>3, <2>4, InterruptedType DEF AnswerRequest, PacketRead, NodeTypeOK, Patient, Fits
<1>5. ASSUME NEW p \in Received, Rebroadcast(p)
      PROVE  TypeInv'
    <2>1. 1 \in 1 .. MaxParts
        BY ConstantsAssumption
    <2>2. Fits(todo')
        BY <1>5, <2>1, HandlersFit DEF Rebroadcast, Begin
    <2>3. /\ pc' = "sending" /\ gap' = "none"
          /\ back' = [pc |-> "irq", idle |-> TRUE]
        BY <1>5 DEF Rebroadcast, Begin
    <2>4. dest' \in Addresses \cup {Broadcast, Unset}
        BY <1>5 DEF Rebroadcast, NodeTypeOK
    <2>5. QED
        BY <1>5, <2>2, <2>3, <2>4, InterruptedType DEF Rebroadcast, PacketRead, NodeTypeOK, Patient, Fits
<1>6. CASE NextPass
    BY <1>6 DEF NextPass, PassStart, NodeTypeOK
<1>7. CASE TxEnds
    BY <1>7 DEF TxEnds, loopVars, NodeTypeOK
<1>8. ASSUME NEW p \in Received, PacketArrives(p)
      PROVE  TypeInv'
    BY <1>8, ReceivedIsPacket DEF PacketArrives, loopVars, NodeTypeOK
<1>9. QED
    BY <1>1, <1>2, <1>3, <1>4, <1>5, <1>6, <1>7, <1>8 DEF IrqProcess, OnRxDone

(* Every variable keeps its type, and the lists that handlers send keep    *)
(* the long delay after the packets that need one.                         *)
THEOREM TypeInvariant == Spec => []TypeInv
<1>1. Init => TypeInv
    BY TypeInit
<1>2. TypeInv /\ [Next]_vars => TypeInv'
    <2> SUFFICES ASSUME TypeInv, [Next]_vars PROVE TypeInv'
        OBVIOUS
    <2>1. CASE Next
        BY <2>1, TypeWeb, TypeLoop, TypeRadio DEF Next, Loop
    <2>2. CASE UNCHANGED vars
        BY <2>2 DEF vars, TypeInv, NodeTypeOK, Patient
    <2>3. QED
        BY <2>1, <2>2
<1>3. QED
    BY <1>1, <1>2, PTL DEF Spec
-----------------------------------------------------------------------------
(* The rest of the proofs use only a few facts of each action, and share   *)
(* one case analysis: the actions that start no handler and end none ...   *)
Steps ==
    \/ WebIdle \/ NothingToAcknowledge \/ BackToRx \/ HostNothing \/ HostRead
    \/ OnTxDone \/ OnTxTimeout \/ NextPass \/ TxEnds
    \/ \E p \in Received : ReceivePlain(p) \/ PacketArrives(p)

(* ... those of handlers ... *)
Handlers ==
    \/ Transmit \/ EndOfHandler
    \/ \E d : WebPacket(d) \/ WebParts(d)
    \/ \E p \in Received : AnswerRequest(p) \/ Rebroadcast(p)

(* ... and those that send one packet or owe one. *)
Controls ==
    \/ Acknowledge
    \/ \E d : WebControl(d) \/ HostPing(d) \/ HostPacket(d)
    \/ \E p \in Received : ReceivePing(p)

LEMMA NextSplit == Next => Steps \/ Handlers \/ Controls
BY DEF Next, Loop, Web, Host, IrqProcess, OnRxDone, Steps, Handlers, Controls

(* What a step of each kind does to the flag, the radio and the interrupts.*)
LEMMA NeverDeafStep ==
    ASSUME TypeInv, NeverDeaf, [Next]_vars
    PROVE  NeverDeaf'
<1> USE DEF NeverDeaf, NoHandler, RadioUnchanged, Send, Rx, Sleep
<1>1. CASE Steps
    BY <1>1, ReceivedIsPacket
       DEF Steps, WebIdle, NothingToAcknowledge, BackToRx, HostNothing,
           HostRead, OnTxDone, OnTxTimeout, NextPass, TxEnds, loopVars,
           ReceivePlain, PacketRead, PacketArrives
<1>2. CASE Handlers
    BY <1>2, ConstantsAssumption
       DEF Handlers, Transmit, EndOfHandler, WebPacket, WebParts, Begin,
           AnswerRequest, Rebroadcast, PacketRead, TypeInv, NodeTypeOK
<1>3. CASE Controls
    BY <1>3
       DEF Controls, Acknowledge, WebControl, HostPing, HostPacket,
           ReceivePing, PacketRead
<1>4. CASE UNCHANGED vars
    BY <1>4 DEF vars
<1>5. QED
    BY <1>1, <1>2, <1>3, <1>4, NextSplit

(* No path of any handler or callback leaves the node deaf with the idle   *)
(* flag lost.                                                              *)
THEOREM NodeIsNeverDeaf == Spec => []NeverDeaf
<1>1. Init => NeverDeaf
    BY DEF Init, NeverDeaf
<1>2. TypeInv /\ NeverDeaf /\ [Next]_vars => NeverDeaf'
    BY NeverDeafStep
<1>3. QED
    BY <1>1, <1>2, TypeInvariant, PTL DEF Spec

(* A step with a ping owed leads to its ACK before the radio receives.     *)
LEMMA OneDebtStep ==
    ASSUME TypeInv, OneDebt, [Next]_vars
    PROVE  OneDebt'
<1> USE DEF OneDebt, EachPingAcknowledgedOnce, NoHandler, RadioUnchanged, Send,
            Rx, Sleep
<1>1. CASE Steps
    BY <1>1, ReceivedIsPacket
       DEF Steps, WebIdle, NextWeb, NothingToAcknowledge, BackToRx, HostNothing,
           HostRead, OnTxDone, OnTxTimeout, NextPass, PassStart, TxEnds, loopVars,
           ReceivePlain, PacketRead, PacketArrives
<1>2. CASE Handlers
    BY <1>2, ReceivedIsPacket
       DEF Handlers, Transmit, EndOfHandler, WebPacket, WebParts, Begin, NextWeb,
           AnswerRequest, Rebroadcast, PacketRead, TypeInv, NodeTypeOK
<1>3. CASE Acknowledge
    <2>1. owed \in Seq(Addresses) /\ Len(owed) = 1
        BY <1>3 DEF Acknowledge, TypeInv, NodeTypeOK
    <2>2. owed # <<>>
        BY <2>1, EmptySeq
    <2>3. Len(owed') = 0
        BY <1>3, <2>1, <2>2, HeadTailProperties DEF Acknowledge
    <2>4. QED
        BY <1>3, <2>3 DEF Acknowledge
<1>4. ASSUME NEW d, WebControl(d) \/ HostPing(d) \/ HostPacket(d)
      PROVE  OneDebt'
    BY <1>4 DEF WebControl, NextWeb, HostPing, HostPacket
<1>5. ASSUME NEW p \in Received, ReceivePing(p)
      PROVE  OneDebt'
    <2>1. rxIrq # None /\ ~needToSendACK
        BY <1>5, ReceivedIsPacket DEF ReceivePing, PacketRead
    <2>2. p.from \in Addresses
        BY <1>5 DEF ReceivePing, Received, Packets, Ping, Plain, Answered, Relayed
    <2>3. Len(owed') = 1
        BY <1>5, <2>1, <2>2, AppendProperties DEF ReceivePing, TypeInv, NodeTypeOK
    <2>4. QED
        BY <1>5, <2>3 DEF ReceivePing, PacketRead
<1>6. CASE UNCHANGED vars
    BY <1>6 DEF vars
<1>7. QED
    BY <1>1, <1>2, <1>3, <1>4, <1>5, <1>6, NextSplit DEF Controls

LEMMA OneDebtAlways == Spec => []OneDebt
<1>1. Init => OneDebt
    BY EmptySeq DEF Init, OneDebt, EachPingAcknowledgedOnce
<1>2. TypeInv /\ OneDebt /\ [Next]_vars => OneDebt'
    BY OneDebtStep
<1>3. QED
    BY <1>1, <1>2, TypeInvariant, PTL DEF Spec

(* Both versions acknowledge each ping they read once: the flag is never   *)
(* set while it is set.                                                    *)
THEOREM PingsAcknowledgedOnce == Spec => []EachPingAcknowledgedOnce
<1>1. OneDebt => EachPingAcknowledgedOnce
    BY DEF OneDebt
<1>2. QED
    BY <1>1, OneDebtAlways, PTL
-----------------------------------------------------------------------------
(* The packets sent with a long delay are on the air only while their      *)
(* handler waits for them, so nothing else can be sent over them.          *)
LEMMA PausedStep ==
    ASSUME TypeInv, PausedOnAir, [Next]_vars
    PROVE  PausedOnAir'
<1> USE DEF PausedOnAir, Paused, NoHandler, RadioUnchanged, Send, Rx, Sleep,
            Interrupted
<1>1. CASE Steps
    BY <1>1
       DEF Steps, WebIdle, NothingToAcknowledge, BackToRx, HostNothing,
           HostRead, OnTxDone, OnTxTimeout, NextPass, TxEnds, loopVars,
           ReceivePlain, PacketRead, PacketArrives
<1>2. CASE Transmit
    <2>1. Head(todo).kind \in Paused => Head(todo).delay = "long"
        BY <1>2, PatientTail DEF Transmit, TypeInv
    <2>2. gap = "long" => radio # "tx"
        BY <1>2 DEF Transmit, AirIsClear
    <2>3. cut' \cap Paused = {}
        BY <1>2, <2>2 DEF Transmit
    <2>4. QED
        BY <1>2, <2>1, <2>3 DEF Transmit
<1>3. CASE EndOfHandler
    BY <1>3 DEF EndOfHandler, AirIsClear
<1>4. ASSUME NEW d, WebPacket(d) \/ WebParts(d)
      PROVE  PausedOnAir'
    BY <1>4 DEF WebPacket, WebParts, Begin
<1>5. ASSUME NEW p \in Received, AnswerRequest(p) \/ Rebroadcast(p)
      PROVE  PausedOnAir'
    BY <1>5 DEF AnswerRequest, Rebroadcast, PacketRead, Begin
<1>6. CASE Controls
    BY <1>6
       DEF Controls, Acknowledge, WebControl, HostPing, HostPacket,
           ReceivePing, PacketRead
<1>7. CASE UNCHANGED vars
    BY <1>7 DEF vars
<1>8. QED
    BY <1>1, <1>2, <1>3, <1>4, <1>5, <1>6, <1>7, NextSplit DEF Handlers

LEMMA PausedAlways == Spec => []PausedOnAir
<1>1. Init => PausedOnAir
    BY DEF Init, PausedOnAir
<1>2. TypeInv /\ PausedOnAir /\ [Next]_vars => PausedOnAir'
    BY PausedStep
<1>3. QED
    BY <1>1, <1>2, TypeInvariant, PTL DEF Spec

(* No part of a transaction or a broadcast is interrupted by anything the  *)
(* node does: SendMultipartTransaction waits 500 ms after each.            *)
THEOREM TransactionPartsAreSent == Spec => []TransactionPartsAreTransmitted
<1>1. PausedOnAir => TransactionPartsAreTransmitted
    BY DEF PausedOnAir, Paused, TransactionPartsAreTransmitted
<1>2. QED
    BY <1>1, PausedAlways, PTL

(* Nor is the first one-packet answer of a gateway: the second follows it  *)
(* after 3 s, inside the callback.                                         *)
THEOREM ConfirmationsAreSent == Spec => []ConfirmationIsTransmitted
<1>1. PausedOnAir => ConfirmationIsTransmitted
    BY DEF PausedOnAir, Paused, ConfirmationIsTransmitted
<1>2. QED
    BY <1>1, PausedAlways, PTL
-----------------------------------------------------------------------------
(* What is true in v2 only: a ping waits for its ACK in a node that does   *)
(* nothing else, and the ACK is sent by a node with nothing left to poll.  *)
AckIsPrivate ==
    /\ pc \notin {"web", "queue", "sending"}
    /\ needToSendACK => radio = "sleep" /\ txIrq = "none" /\ Head(owed) = dest
    /\ radio = "tx" /\ onAir = "ack" =>
          isLoRaIdle = FALSE /\ txIrq = "none" /\ rxIrq = None
    /\ "ack" \notin cut

LEMMA AckIsPrivateStep ==
    ASSUME ~hasWeb, TypeInv, OneDebt, AckIsPrivate, [Next]_vars
    PROVE  AckIsPrivate'
<1> USE DEF AckIsPrivate, NoHandler, RadioUnchanged, Send, Rx, Sleep, Interrupted
<1>1. Received \subseteq Packets /\ Answered \notin Received /\ Relayed \notin Received
    BY DEF Received
<1>2. CASE Steps
    BY <1>2, ReceivedIsPacket
       DEF Steps, WebIdle, NothingToAcknowledge, BackToRx, HostNothing,
           HostRead, OnTxDone, OnTxTimeout, NextPass, PassStart, TxEnds, loopVars,
           ReceivePlain, PacketRead, PacketArrives, OneDebt, TypeInv, NodeTypeOK
<1>3. CASE Handlers
    <2>1. ASSUME NEW p \in Received PROVE p # Answered /\ p # Relayed
        BY <1>1
    <2>2. QED
        BY <1>3, <2>1 DEF Handlers, Transmit, EndOfHandler, WebPacket, WebParts,
                          AnswerRequest, Rebroadcast
<1>4. CASE Acknowledge
    BY <1>4 DEF Acknowledge, AirIsClear, OneDebt
<1>5. ASSUME NEW d, WebControl(d) \/ HostPing(d) \/ HostPacket(d)
      PROVE  AckIsPrivate'
    BY <1>5 DEF WebControl, HostPing, HostPacket, AirIsClear, OneDebt
<1>6. ASSUME NEW p \in Received, ReceivePing(p)
      PROVE  AckIsPrivate'
    <2>1. rxIrq # None /\ ~needToSendACK
        BY <1>6, ReceivedIsPacket DEF ReceivePing, PacketRead, OneDebt
    <2>2. p.from \in Addresses
        BY <1>6 DEF ReceivePing, Received, Packets, Ping, Plain, Answered, Relayed
    <2>3. owed \in Seq(Addresses) /\ Len(owed) = 0
        BY <2>1 DEF OneDebt, EachPingAcknowledgedOnce, TypeInv, NodeTypeOK
    <2>4. Head(owed') = p.from
        BY <1>6, <2>2, <2>3 DEF ReceivePing
    <2>5. QED
        BY <1>6, <2>1, <2>4 DEF ReceivePing, PacketRead
<1>7. CASE UNCHANGED vars
    BY <1>7 DEF vars
<1>8. QED
    BY <1>2, <1>3, <1>4, <1>5, <1>6, <1>7, NextSplit DEF Controls

(* No step of a v2 node breaks the privacy of an acknowledgement, and no   *)
(* node changes its version.                                               *)
LEMMA AckIsPrivateAlways == Spec => [](~hasWeb => AckIsPrivate)
<1>1. Init => (~hasWeb => AckIsPrivate)
    BY DEF Init, AckIsPrivate, PassStart
<1>2. TypeInv /\ OneDebt /\ (~hasWeb => AckIsPrivate) /\ [Next]_vars
          => (~hasWeb => AckIsPrivate)'
    <2>1. [Next]_vars => hasWeb' = hasWeb
        BY DEF Next, vars
    <2>2. QED
        BY <2>1, AckIsPrivateStep
<1>3. QED
    BY <1>1, <1>2, TypeInvariant, OneDebtAlways, PTL DEF Spec

(* In v2, where no web server runs between ParseReceivedMessage and        *)
(* SendACK(dest), the acknowledgement goes to the node that sent the ping. *)
THEOREM V2AcksGoToPinger == Spec => []V2AckGoesToPinger
<1>1. (~hasWeb => AckIsPrivate) => V2AckGoesToPinger
    BY DEF AckIsPrivate, AckGoesToPinger, V2AckGoesToPinger
<1>2. QED
    BY <1>1, AckIsPrivateAlways, PTL

(* In v2 nothing the node does interrupts an acknowledgement: while one is *)
(* on the air isLoRaIdle is FALSE and IrqProcess has nothing to report.    *)
THEOREM V2AcksAreTransmitted == Spec => []V2AckIsTransmitted
<1>1. (~hasWeb => AckIsPrivate) => V2AckIsTransmitted
    BY DEF AckIsPrivate, V2AckIsTransmitted
<1>2. QED
    BY <1>1, AckIsPrivateAlways, PTL

(* Every variable keeps its type in both versions. *)
THEOREM LoopTypeCorrect == Spec => []TypeOK
<1>1. Init => hasWeb \in BOOLEAN
    BY DEF Init
<1>2. hasWeb \in BOOLEAN /\ [Next]_vars => (hasWeb \in BOOLEAN)'
    BY DEF Next, vars
<1>3. TypeInv /\ hasWeb \in BOOLEAN => TypeOK
    BY DEF TypeInv, TypeOK
<1>4. QED
    BY <1>1, <1>2, <1>3, TypeInvariant, PTL DEF Spec
=============================================================================
