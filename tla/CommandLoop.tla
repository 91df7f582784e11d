---------------------------- MODULE CommandLoop -----------------------------
(***************************************************************************)
(* One node: CommandAndControlLoop, the callbacks the radio library calls  *)
(* from Radio.IrqProcess, and the two who ask it to send, the serial host  *)
(* and, in the v3 firmware, the web server.  hasWeb tells the two versions *)
(* apart: v2 has the same loop, without the web server and without the     *)
(* packets that make a v3 node transmit from inside OnRxDone.              *)
(*                                                                         *)
(* The radio is one chip: Radio.Send, Radio.Rx and Radio.Sleep take effect *)
(* at once and end whatever it was doing, so a packet whose transmission   *)
(* they interrupt never leaves the node.  What the chip has finished is    *)
(* kept until the loop polls it.  A packet of 255 bytes at SF7 and 125 kHz *)
(* is on the air for 399 ms: a delay of 500 ms or more after Radio.Send    *)
(* outlasts it and one of 100 ms does not.                                 *)
(***************************************************************************)
EXTENDS Naturals, Sequences

CONSTANTS
    Addresses,   \* the nodes that ping this one, or that it sends to
    Broadcast,   \* the address 255.255.255
    Unset,       \* the address 0.0.0 that dest starts with
    MaxParts     \* most parts of a message

ASSUME ConstantsAssumption ==
    /\ MaxParts \in Nat \ {0}
    /\ Broadcast \notin Addresses /\ Unset \notin Addresses

VARIABLES
    pc,            \* the step of loop() that comes next
    isLoRaIdle,    \* the radio is done, and is to go back to receiving
    needToSendACK, \* a ping was received and is to be acknowledged
    dest,          \* the destination address, shared by every sender
    todo,          \* the transmissions left of the handler that is running
    gap,           \* the delay that follows the last one
    back,          \* how that handler ends: the step after, and isLoRaIdle
    radio,         \* the chip: "sleep", "rx" or "tx"
    onAir,         \* the packet it is sending
    txIrq,         \* unpolled interrupt: "none", "done" or "timeout"
    rxIrq,         \* the packet of an unpolled receive interrupt, or None
    owed,          \* ghost: the pingers not yet acknowledged, oldest first
    cut,           \* ghost: the kinds of packet that were interrupted
    hasWeb         \* the firmware is v3, not v2: never changes

loopVars == <<pc, isLoRaIdle, needToSendACK, dest, todo, gap, back>>
nodeVars == <<pc, isLoRaIdle, needToSendACK, dest, todo, gap, back,
              radio, onAir, txIrq, rxIrq, owed, cut>>
vars == <<pc, isLoRaIdle, needToSendACK, dest, todo, gap, back,
          radio, onAir, txIrq, rxIrq, owed, cut, hasWeb>>

None == [kind |-> "none"]
Ping(a) == [kind |-> "ping", from |-> a]
Plain == [kind |-> "plain"]    \* received, displayed, passed to the host
Answered == [kind |-> "answered"]  \* v3: a request that is forwarded to a gateway
Relayed == [kind |-> "relayed"]    \* v3: a broadcast that is sent again

Packets == {Ping(a) : a \in Addresses} \cup {Plain, Answered, Relayed}

Received == {p \in Packets : p \in {Answered, Relayed} => hasWeb}

Kinds == {"control", "ack", "host", "message", "transaction",
          "confirmation", "second", "part", "relay"}

(* loop() of v2 is CommandAndControlLoop alone. *)
PassStart == IF hasWeb THEN "web" ELSE "ack"
-----------------------------------------------------------------------------
Interrupted == IF radio = "tx" THEN cut \cup {onAir} ELSE cut

Send(kind) ==
    /\ radio' = "tx"
    /\ onAir' = kind
    /\ cut' = Interrupted
    /\ UNCHANGED <<txIrq, rxIrq>>

Rx == radio' = "rx" /\ onAir' = "none" /\ cut' = Interrupted
Sleep == radio' = "sleep" /\ onAir' = "none" /\ cut' = Interrupted

RadioUnchanged == UNCHANGED <<radio, onAir, txIrq, rxIrq, cut>>
NoHandler == UNCHANGED <<todo, gap, back>>

(* A delay of 500 ms or more leaves no transmission under way. *)
AirIsClear == radio # "tx"

NoReturn == [pc |-> PassStart, idle |-> FALSE]

Transmission(kind, delay) == [kind |-> kind, delay |-> delay]

Parts(kind, delay, n) == [i \in 1 .. n |-> Transmission(kind, delay)]

Init ==
    /\ hasWeb \in BOOLEAN
    /\ pc = PassStart
    /\ isLoRaIdle = TRUE
    /\ needToSendACK = FALSE
    /\ dest = Unset
    /\ todo = <<>>
    /\ gap = "none"
    /\ back = NoReturn
    /\ radio = "sleep"
    /\ onAir = "none"
    /\ txIrq = "none"
    /\ rxIrq = None
    /\ owed = <<>>
    /\ cut = {}

(* A handler sends list, one packet after the other, and then leaves       *)
(* isLoRaIdle as it is or sets it.                                         *)
Begin(list, next, idle) ==
    /\ pc' = "sending"
    /\ todo' = list
    /\ gap' = "none"
    /\ back' = [pc |-> next, idle |-> idle]

(* Mutant: the next part does not wait for the last one. *)
TransmitWithoutDelay ==
    /\ pc = "sending"
    /\ todo # <<>>
    /\ Send(Head(todo).kind)
    /\ gap' = Head(todo).delay
    /\ todo' = Tail(todo)
    /\ UNCHANGED <<pc, isLoRaIdle, needToSendACK, dest, back, owed>>

Transmit ==
    /\ pc = "sending"
    /\ todo # <<>>
    /\ gap = "long" => AirIsClear
    /\ Send(Head(todo).kind)
    /\ gap' = Head(todo).delay
    /\ todo' = Tail(todo)
    /\ UNCHANGED <<pc, isLoRaIdle, needToSendACK, dest, back, owed>>

EndOfHandler ==
    /\ pc = "sending"
    /\ todo = <<>>
    /\ gap = "long" => AirIsClear
    /\ pc' = back.pc
    /\ gap' = "none"
    /\ back' = NoReturn
    /\ isLoRaIdle' = (isLoRaIdle \/ back.idle)
    /\ UNCHANGED <<needToSendACK, dest, todo, owed>>
    /\ RadioUnchanged
-----------------------------------------------------------------------------
(* server.handleClient() comes first, then CheckRequestTimeouts, which may *)
(* send a queued broadcast.                                                *)
NextWeb == IF pc = "web" THEN "queue" ELSE "ack"

WebIdle ==
    /\ pc \in {"web", "queue"}
    /\ pc' = NextWeb
    /\ UNCHANGED <<isLoRaIdle, needToSendACK, dest, owed>>
    /\ NoHandler /\ RadioUnchanged

(* handlePing and handleACK; only a broadcast ping goes through dest.      *)
WebControl(d) ==
    /\ pc = "web"
    /\ d \in {dest, Broadcast}
    /\ dest' = d
    /\ isLoRaIdle' = FALSE
    /\ Send("control")
    /\ pc' = NextWeb
    /\ UNCHANGED <<needToSendACK, owed>>
    /\ NoHandler

(* A request for one packet: handleMessage, handleTransaction and          *)
(* handleBroadcast, SendMessage and SendTransaction, which all set dest,   *)
(* and SendBroadcast, which does not.  None touches isLoRaIdle.            *)
WebPacket(d) ==
    /\ pc = "web" \/ (pc = "queue" /\ d = dest)
    /\ dest' = d
    /\ Begin(<<Transmission("message", "none")>>, NextWeb, FALSE)
    /\ UNCHANGED <<isLoRaIdle, needToSendACK, owed>>
    /\ RadioUnchanged

(* SendMultipartTransaction and SendMultipartBroadcast. *)
WebParts(d) ==
    /\ pc = "web" \/ (pc = "queue" /\ d = Broadcast)
    /\ dest' = d
    /\ \E n \in 1 .. MaxParts :
          Begin(Parts("transaction", "long", n), NextWeb, TRUE)
    /\ UNCHANGED <<isLoRaIdle, needToSendACK, owed>>
    /\ RadioUnchanged

Web ==
    \/ WebIdle
    \/ \E d \in Addresses \cup {Broadcast, dest} : WebControl(d) \/ WebPacket(d)
    \/ \E d \in Addresses \cup {Broadcast} : WebParts(d)
-----------------------------------------------------------------------------
(* Mutant: the flag is not reset. *)
AckKept ==
    /\ pc = "ack"
    /\ needToSendACK
    /\ AirIsClear
    /\ isLoRaIdle' = FALSE
    /\ needToSendACK' = needToSendACK
    /\ Send("ack")
    /\ owed' = IF owed = <<>> THEN owed ELSE Tail(owed)
    /\ pc' = "rx"
    /\ UNCHANGED dest
    /\ NoHandler

(* Mutant: the radio is still taken for idle. *)
AckLeavesIdle ==
    /\ pc = "ack"
    /\ needToSendACK
    /\ AirIsClear
    /\ isLoRaIdle' = isLoRaIdle
    /\ needToSendACK' = FALSE
    /\ Send("ack")
    /\ owed' = IF owed = <<>> THEN owed ELSE Tail(owed)
    /\ pc' = "rx"
    /\ UNCHANGED dest
    /\ NoHandler

(* delay(2000), then SendACK(dest). *)
Acknowledge ==
    /\ pc = "ack"
    /\ needToSendACK
    /\ AirIsClear
    /\ isLoRaIdle' = FALSE
    /\ needToSendACK' = FALSE
    /\ Send("ack")
    /\ owed' = IF owed = <<>> THEN owed ELSE Tail(owed)
    /\ pc' = "rx"
    /\ UNCHANGED dest
    /\ NoHandler

NothingToAcknowledge ==
    /\ pc = "ack"
    /\ ~needToSendACK
    /\ pc' = "rx"
    /\ UNCHANGED <<isLoRaIdle, needToSendACK, dest, owed>>
    /\ NoHandler /\ RadioUnchanged

BackToRx ==
    /\ pc = "rx"
    /\ pc' = "host"
    /\ isLoRaIdle' = FALSE
    /\ IF isLoRaIdle THEN Rx ELSE UNCHANGED <<radio, onAir, cut>>
    /\ UNCHANGED <<needToSendACK, dest, txIrq, rxIrq, owed>>
    /\ NoHandler

(* No command, a short one, or one that sends nothing over the air.        *)
HostNothing ==
    /\ pc = "host"
    /\ pc' = "irq"
    /\ UNCHANGED <<isLoRaIdle, needToSendACK, dest, owed>>
    /\ NoHandler /\ RadioUnchanged

(* The header and the payload of a command were read: delay(500).          *)
HostRead ==
    /\ pc = "host"
    /\ pc' = "command"
    /\ UNCHANGED <<isLoRaIdle, needToSendACK, dest, owed>>
    /\ NoHandler /\ RadioUnchanged

HostPing(d) ==
    /\ pc = "command"
    /\ AirIsClear
    /\ dest' = d
    /\ isLoRaIdle' = FALSE
    /\ Send("control")
    /\ pc' = "irq"
    /\ UNCHANGED <<needToSendACK, owed>>
    /\ NoHandler

(* HOST_FORMED_PACKET and MULTIPART_PACKET, which write the host an ACK,   *)
(* and MESSAGE_REQUEST, which does not.                                    *)
HostPacket(d) ==
    /\ pc = "command"
    /\ AirIsClear
    /\ dest' = d
    /\ Send("host")
    /\ pc' = "irq"
    /\ UNCHANGED <<isLoRaIdle, needToSendACK, owed>>
    /\ NoHandler

Host ==
    \/ HostNothing
    \/ HostRead
    \/ \E d \in Addresses \cup {Broadcast} : HostPing(d) \/ HostPacket(d)
-----------------------------------------------------------------------------
(* Radio.IrqProcess, a transmit interrupt first. *)
OnTxDone ==
    /\ pc = "irq"
    /\ txIrq = "done"
    /\ txIrq' = "none"
    /\ isLoRaIdle' = TRUE
    /\ UNCHANGED <<pc, needToSendACK, dest, radio, onAir, rxIrq, owed, cut>>
    /\ NoHandler

(* Mutant: the flag is not set after a timeout. *)
TxTimeoutForgotten ==
    /\ pc = "irq"
    /\ txIrq = "timeout"
    /\ txIrq' = "none"
    /\ Sleep
    /\ UNCHANGED <<pc, isLoRaIdle, needToSendACK, dest, rxIrq, owed>>
    /\ NoHandler

OnTxTimeout ==
    /\ pc = "irq"
    /\ txIrq = "timeout"
    /\ txIrq' = "none"
    /\ Sleep
    /\ isLoRaIdle' = TRUE
    /\ UNCHANGED <<pc, needToSendACK, dest, rxIrq, owed>>
    /\ NoHandler

(* What the branches of OnRxDone share. *)
PacketRead(p) ==
    /\ pc = "irq"
    /\ txIrq = "none"
    /\ rxIrq = p
    /\ rxIrq' = None
    /\ Sleep
    /\ UNCHANGED txIrq

(* Mutant: the destination is left as it was. *)
ReceivePingKeepsDest(p) ==
    /\ PacketRead(p)
    /\ p.kind = "ping"
    /\ needToSendACK' = TRUE
    /\ owed' = Append(owed, p.from)
    /\ isLoRaIdle' = TRUE
    /\ UNCHANGED <<pc, dest>>
    /\ NoHandler

ReceivePing(p) ==
    /\ PacketRead(p)
    /\ p.kind = "ping"
    /\ dest' = p.from
    /\ needToSendACK' = TRUE
    /\ owed' = Append(owed, p.from)
    /\ isLoRaIdle' = TRUE
    /\ UNCHANGED pc
    /\ NoHandler

(* Mutant: the callback ends without setting the flag. *)
ReceiveForgotten(p) ==
    /\ PacketRead(p)
    /\ p = Plain
    /\ UNCHANGED <<pc, isLoRaIdle, needToSendACK, dest, owed>>
    /\ NoHandler

ReceivePlain(p) ==
    /\ PacketRead(p)
    /\ p = Plain
    /\ isLoRaIdle' = TRUE
    /\ UNCHANGED <<pc, needToSendACK, dest, owed>>
    /\ NoHandler

(* Mutant: the two answers of a gateway are sent without a pause. *)
AnswerWithoutPause(p) ==
    /\ PacketRead(p)
    /\ p = Answered
    /\ Begin(<<Transmission("confirmation", "short"),
               Transmission("second", "none")>>, "irq", TRUE)
    /\ UNCHANGED <<isLoRaIdle, needToSendACK, dest, owed>>

(* The gateway's answer is sent twice, 3 s apart; a long one goes in parts *)
(* and only a short one through SendMessage, which sets dest.              *)
AnswerRequest(p) ==
    /\ PacketRead(p)
    /\ p = Answered
    /\ \/ /\ Begin(<<Transmission("confirmation", "long"),
                     Transmission("second", "none")>>, "irq", TRUE)
          /\ \E d \in Addresses : dest' = d
       \/ /\ \E n \in 1 .. MaxParts :
                Begin(Parts("part", "short", n - 1)
                          \o <<Transmission("part", "long")>>
                          \o Parts("part", "short", n), "irq", TRUE)
          /\ UNCHANGED dest
    /\ UNCHANGED <<isLoRaIdle, needToSendACK, owed>>

(* Without a gateway a request is broadcast again, in one packet or more.  *)
Rebroadcast(p) ==
    /\ PacketRead(p)
    /\ p = Relayed
    /\ \/ /\ Begin(<<Transmission("relay", "none")>>, "irq", TRUE)
          /\ UNCHANGED dest
       \/ /\ \E n \in 1 .. MaxParts :
                Begin(Parts("transaction", "long", n), "irq", TRUE)
          /\ dest' = Broadcast
    /\ UNCHANGED <<isLoRaIdle, needToSendACK, owed>>

OnRxDone(p) ==
    \/ ReceivePing(p)
    \/ ReceivePlain(p)
    \/ AnswerRequest(p)
    \/ Rebroadcast(p)

NextPass ==
    /\ pc = "irq"
    /\ txIrq = "none" /\ rxIrq = None
    /\ pc' = PassStart
    /\ UNCHANGED <<isLoRaIdle, needToSendACK, dest, owed>>
    /\ NoHandler /\ RadioUnchanged

IrqProcess ==
    OnTxDone \/ OnTxTimeout \/ (\E p \in Received : OnRxDone(p)) \/ NextPass
-----------------------------------------------------------------------------
(* The chip, whatever the loop is doing: a transmission ends, or a packet  *)
(* is received, over one that was not polled yet.                          *)
TxEnds ==
    /\ radio = "tx"
    /\ radio' = "sleep"
    /\ onAir' = "none"
    /\ txIrq' \in {"done", "timeout"}
    /\ UNCHANGED <<loopVars, rxIrq, owed, cut>>

PacketArrives(p) ==
    /\ radio = "rx"
    /\ rxIrq' = p
    /\ UNCHANGED <<loopVars, radio, onAir, txIrq, owed, cut>>

Loop ==
    \/ Web
    \/ Transmit \/ EndOfHandler
    \/ Acknowledge \/ NothingToAcknowledge
    \/ BackToRx
    \/ Host
    \/ IrqProcess

Next ==
    /\ Loop \/ TxEnds \/ \E p \in Received : PacketArrives(p)
    /\ UNCHANGED hasWeb

Spec == Init /\ [][Next]_vars

(* loop() is called again and again, and a transmission ends: SetTxConfig  *)
(* gives it 3 s.                                                           *)
FairSpec == Spec /\ WF_nodeVars(Loop) /\ WF_nodeVars(TxEnds)
-----------------------------------------------------------------------------
Transmissions == [kind : Kinds, delay : {"none", "short", "long"}]

NodeTypeOK ==
    /\ pc \in {"web", "queue", "ack", "rx", "host", "command", "irq", "sending"}
    /\ isLoRaIdle \in BOOLEAN
    /\ needToSendACK \in BOOLEAN
    /\ dest \in Addresses \cup {Broadcast, Unset}
    /\ todo \in Seq(Transmissions)
    /\ Len(todo) <= 2 * MaxParts
    /\ gap \in {"none", "short", "long"}
    /\ back \in [pc : {"web", "queue", "ack", "irq"}, idle : BOOLEAN]
    /\ radio \in {"sleep", "rx", "tx"}
    /\ onAir \in IF radio = "tx" THEN Kinds ELSE {"none"}
    /\ txIrq \in {"none", "done", "timeout"}
    /\ rxIrq \in Packets \cup {None}
    /\ owed \in Seq(Addresses)
    /\ cut \in SUBSET Kinds

(* Every variable keeps its type, through every handler and callback, and  *)
(* no handler sends more than a message twice.                             *)
TypeOK == hasWeb \in BOOLEAN /\ NodeTypeOK

(* isLoRaIdle is FALSE only while the radio receives, sends, or has        *)
(* something for IrqProcess to report: a flag lost between a handler and a *)
(* callback would leave the node deaf for good.                            *)
NeverDeaf ==
    \/ isLoRaIdle
    \/ radio \in {"rx", "tx"}
    \/ txIrq # "none" \/ rxIrq # None
    \/ (pc = "sending" /\ back.idle)

(* Each ping addressed to the node gets one ACK: the flag is never set     *)
(* again before the ACK of the ping before it went out.                    *)
EachPingAcknowledgedOnce == Len(owed) = IF needToSendACK THEN 1 ELSE 0

(* ParseReceivedMessage, "Set the ACK destination as the address of the    *)
(* sender": dest still holds it when SendACK(dest) reads it, one pass of   *)
(* loop() later.  In v3 the web server runs in between.                    *)
AckGoesToPinger == needToSendACK => Head(owed) = dest

(* In v2, whatever the host sends between the two, it does.                *)
V2AckGoesToPinger == ~hasWeb => AckGoesToPinger

(* Nor does anything a v2 node does, between SendACK and the interrupt     *)
(* that reports its end, interrupt an acknowledgement.                     *)
V2AckIsTransmitted == ~hasWeb => "ack" \notin cut

(* README: "500ms delay between parts to ensure proper reception".  The    *)
(* parts of transactions and of broadcasts, the last included, are never   *)
(* interrupted, whatever else the node is asked to send.                   *)
TransactionPartsAreTransmitted == "transaction" \notin cut

(* The first answer of a gateway is not interrupted when it is one packet. *)
ConfirmationIsTransmitted == "confirmation" \notin cut

(* A ping is acknowledged in the end, whatever host and web server ask.    *)
PingIsAcknowledged == needToSendACK ~> ~needToSendACK

(* After whatever it did, a v2 node receives again; a v3 node that is      *)
(* asked for a ping in every pass never gets to Radio.Rx.                  *)
V2ListensAgain == ~hasWeb /\ radio # "rx" ~> radio = "rx"
=============================================================================
