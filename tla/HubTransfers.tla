------------------------------ MODULE HubTransfers ------------------------------
(***************************************************************************)
(* Transactions on their way through the hub: serdog wallets send a signed *)
(* transaction in parts (cmdSendTransaction, src/serdog/serdog.c), the     *)
(* hub's serial port callback puts one packet together at a time           *)
(* (SerialPortManager.cs, MultipartPacket.cs), and a complete one is       *)
(* broadcast and answered (ServiceTransactionRequest, DogeMode.cs).        *)
(*                                                                         *)
(* The parts of one wallet arrive in order or are lost; those of two       *)
(* wallets interleave.  A part carries its sender and its number; after    *)
(* the first part the hub looks at the number only.  A piece is modelled   *)
(* by its message and its number.                                          *)
(***************************************************************************)
EXTENDS Integers, Sequences

CONSTANTS
    Transactions,  \* raw transactions: records of id, wallet and total parts
    MaxLost        \* bound: parts and answers lost

ASSUME TransactionAssumption ==
    /\ \A m \in Transactions : m.total \in Nat \ {0}
    /\ MaxLost \in Nat

VARIABLES
    unsent,     \* transactions the wallets have not sent
    onAir,      \* parts on their way to the hub, for each wallet
    packet,     \* currMultipartPacket
    disturbed,  \* ghost: the packet may rightly be a mixture
    broadcast,  \* the payload broadcast last
    answers,    \* transaction results on their way, for each wallet
    confirmed,  \* transactions whose result their wallet has printed
    upset,      \* ghost: a part was lost, or two transfers overlapped
    lost        \* bound: parts and answers lost

transferVars == <<unsent, onAir, packet, disturbed, broadcast, answers, confirmed,
                  upset, lost>>

Senders == {m.wallet : m \in Transactions}
Piece   == [msg : Transactions, no : Nat \ {0}]

\* new MultipartPacket(): totalNumberParts is zero until the first part.
NewPacket == [currentPart |-> 1, total |-> 0, sender |-> {}, payload |-> <<>>]

TransferTypeOK ==
    /\ unsent \subseteq Transactions
    /\ onAir \in [Senders -> Seq(Piece)]
    /\ packet \in [currentPart : Nat \ {0}, total : Nat, sender : SUBSET Senders,
                   payload : Seq(Piece)]
    /\ disturbed \in BOOLEAN
    /\ broadcast \in Seq(Piece)
    /\ answers \in [Senders -> Seq(SUBSET Transactions)]
    /\ confirmed \subseteq Transactions
    /\ upset \in BOOLEAN
    /\ lost \in 0..MaxLost

TransferInit ==
    /\ unsent = Transactions
    /\ onAir = [w \in Senders |-> <<>>]
    /\ packet = NewPacket
    /\ disturbed = FALSE
    /\ broadcast = <<>>
    /\ answers = [w \in Senders |-> <<>>]
    /\ confirmed = {}
    /\ upset = FALSE
    /\ lost = 0

PartsOfTransaction(m) == [k \in 1..m.total |-> [msg |-> m, no |-> k]]

\* cmdSendTransaction.  The menu thread is in cmdSendMultipartMessage until the
\* last part is out, so a wallet's next transaction comes behind.
SendTransaction(m) ==
    /\ m \in unsent
    /\ unsent' = unsent \ {m}
    /\ onAir' = [onAir EXCEPT ![m.wallet] = @ \o PartsOfTransaction(m)]
    /\ UNCHANGED <<packet, disturbed, broadcast, answers, confirmed, upset, lost>>

\* Some part of a transfer of another wallet has come by and more will.
Overlaps(w) == \E v \in Senders \ {w} : onAir[v] # <<>> /\ Head(onAir[v]).no > 1

\* The piece goes behind the others; the first one names sender and total.
Added(p) ==
    LET first == packet.currentPart = 1
    IN  [currentPart |-> packet.currentPart + 1,
         total   |-> IF first THEN p.msg.total ELSE packet.total,
         sender  |-> IF first THEN {p.msg.wallet} ELSE packet.sender,
         payload |-> Append(packet.payload, p)]

\* Mutant: the number is not compared.
AnyPiece(p) == TRUE

\* AddPacketPiece takes the piece whose number is the one it waits for, from
\* whichever message; any other is MissingPiece and changes nothing.
Expected(p) == packet.currentPart = p.no

Complete(q) == q.currentPart > q.total

\* Mutant: the result goes to every wallet.
ResultToEveryWallet(q) ==
    /\ broadcast' = q.payload
    /\ answers' = [w \in Senders |->
                     Append(answers[w], {q.payload[i].msg : i \in DOMAIN q.payload})]

\* ServiceTransactionRequest: the answer says only how the broadcast went, the
\* messages of the pieces are a ghost.
ServiceTransactionRequest(q) ==
    /\ broadcast' = q.payload
    /\ answers' = [w \in Senders |->
                     IF w \in q.sender
                     THEN Append(answers[w], {q.payload[i].msg : i \in DOMAIN q.payload})
                     ELSE answers[w]]

\* Mutant: the packet is used on after it is complete.
SamePacket(q) == q

\* currMultipartPacket once q is complete.
AfterComplete(q) == NewPacket

\* PortDataReceived, for a part that has come over the serial port.
PortDataReceived(w) ==
    /\ onAir[w] # <<>>
    /\ onAir' = [onAir EXCEPT ![w] = Tail(@)]
    /\ upset' = (upset \/ Overlaps(w))
    /\ LET p == Head(onAir[w])
           q == Added(p)
       IN  /\ disturbed' = (Overlaps(w) \/ (disturbed /\ packet.currentPart # 1))
           /\ IF ~Expected(p) THEN UNCHANGED <<packet, broadcast, answers>>
              ELSE IF Complete(q)
              THEN packet' = AfterComplete(q) /\ ServiceTransactionRequest(q)
              ELSE packet' = q /\ UNCHANGED <<broadcast, answers>>
    /\ UNCHANGED <<unsent, confirmed, lost>>

LosePiece(w) ==
    /\ onAir[w] # <<>>
    /\ lost < MaxLost
    /\ onAir' = [onAir EXCEPT ![w] = Tail(@)]
    /\ disturbed' = TRUE
    /\ upset' = TRUE
    /\ lost' = lost + 1
    /\ UNCHANGED <<unsent, packet, broadcast, answers, confirmed>>

\* processTransactionResult prints the result.
ProcessTransactionResult(w) ==
    /\ answers[w] # <<>>
    /\ confirmed' = confirmed \cup Head(answers[w])
    /\ answers' = [answers EXCEPT ![w] = Tail(@)]
    /\ UNCHANGED <<unsent, onAir, packet, disturbed, broadcast, upset, lost>>

LoseResult(w) ==
    /\ answers[w] # <<>>
    /\ lost < MaxLost
    /\ answers' = [answers EXCEPT ![w] = Tail(@)]
    /\ upset' = TRUE
    /\ lost' = lost + 1
    /\ UNCHANGED <<unsent, onAir, packet, disturbed, broadcast, confirmed>>

Arrives(w) == PortDataReceived(w) \/ LosePiece(w)
Answered(w) == ProcessTransactionResult(w) \/ LoseResult(w)

\* What is on the air arrives or is lost; one condition is enough, as each step
\* of it takes something off the air.
Receive == \E w \in Senders : Arrives(w) \/ Answered(w)

TransferNext ==
    \/ \E m \in Transactions : SendTransaction(m)
    \/ Receive

TransferSpec ==
    TransferInit /\ [][TransferNext]_transferVars /\ WF_transferVars(Receive)

---------------------------------------------------------------------------
(* AddPacketPiece and PortDataReceived: what the hub broadcasts is all of  *)
(* one transaction, each part in its place, unless since the packet was    *)
(* begun a part was lost or another wallet's transfer was under way.       *)
BroadcastIsWhole ==
    [][broadcast' # broadcast /\ ~disturbed' =>
         \E m \in Transactions : broadcast' = PartsOfTransaction(m)]_transferVars

\* The last part of m has not come to the hub.
Coming(m) == \E i \in DOMAIN onAir[m.wallet] :
                 onAir[m.wallet][i] = [msg |-> m, no |-> m.total]

(* ServiceTransactionRequest answers the sender of a complete packet with  *)
(* a result that names no transaction.  Unless something was lost or two   *)
(* transfers overlapped, each transaction sent has exactly one: its last   *)
(* part is still to come, or its result is on the way to its own wallet,   *)
(* alone and once, or the wallet has printed it.  None waits for an answer *)
(* that will not come, and none is told twice or by another's.             *)
OneResultEach ==
    ~upset =>
        /\ \A w \in Senders : \A i \in DOMAIN answers[w] :
               /\ \E m \in Transactions \ (unsent \cup confirmed) :
                      m.wallet = w /\ answers[w][i] = {m} /\ ~Coming(m)
               /\ \A j \in DOMAIN answers[w] : answers[w][j] = answers[w][i] => j = i
        /\ \A m \in Transactions \ unsent :
               \/ Coming(m)
               \/ m \in confirmed
               \/ \E i \in DOMAIN answers[m.wallet] : answers[m.wallet][i] = {m}
        /\ \A m \in confirmed : ~Coming(m)

(* cmdSendTransaction to processTransactionResult: a wallet that has sent  *)
(* a transaction is told how it went, unless something was lost or two     *)
(* transfers overlapped, from which the hub's half-filled packet may never *)
(* recover.                                                                *)
SentIsAnswered ==
    \A m \in Transactions : (m \notin unsent) ~> (m \in confirmed \/ upset)
=============================================================================
