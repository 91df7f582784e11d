-------------------------- MODULE HubTransfersProofs --------------------------
(***************************************************************************)
(* What the hub broadcasts is one whole transaction, and each transaction  *)
(* sent has one result, for any number of wallets, transactions and parts. *)
(*                                                                         *)
(* The inductive invariant relates the packet to what is still on the air: *)
(* the parts of a wallet follow each other up to the last one of each      *)
(* message (InOrder), and an undisturbed packet holds the first parts of   *)
(* one message whose next part is the next one its wallet has on the air   *)
(* (Continues).  Another wallet's part that comes first finds that         *)
(* transfer under way, so it counts as a disturbance whether the hub takes *)
(* it or not.                                                              *)
(***************************************************************************)
EXTENDS HubTransfers, SequenceTheorems, TLAPS

\* p is followed by q on the air: the next part of its message, or, after the
\* last, the first of another.
Follows(p, q) ==
    IF p.no = p.msg.total THEN q.no = 1
    ELSE q.msg = p.msg /\ q.no = p.no + 1

\* What a wallet w has on the air: its own pieces, each followed by the next,
\* up to the last one of a message.
Stream(s, w) ==
    /\ s \in Seq(Piece)
    /\ \A i \in 1..Len(s) : s[i].msg.wallet = w /\ s[i].no <= s[i].msg.total
    /\ \A i \in 1..(Len(s) - 1) : Follows(s[i], s[i + 1])
    /\ s # <<>> => s[Len(s)].no = s[Len(s)].msg.total

InOrder == \A w \in Senders : Stream(onAir[w], w)

\* q holds the first parts of m, and nothing else.
FirstParts(q, m) ==
    /\ q.total = m.total
    /\ Len(q.payload) = q.currentPart - 1
    /\ \A k \in 1..(q.currentPart - 1) : q.payload[k] = [msg |-> m, no |-> k]

\* ... and the next one is the next of its wallet on the air.
Holds(m) ==
    /\ FirstParts(packet, m)
    /\ packet.currentPart <= m.total
    /\ onAir[m.wallet] # <<>>
    /\ Head(onAir[m.wallet]) = [msg |-> m, no |-> packet.currentPart]

Continues == ~disturbed /\ packet.currentPart # 1 => \E m \in Transactions : Holds(m)

Fresh == packet.currentPart = 1 => packet.payload = <<>>

TransferInv == TransferTypeOK /\ InOrder /\ Fresh /\ Continues

(* Pieces numbered from one to the total of their message are a stream.    *)
LEMMA NumberedIsAStream ==
    ASSUME NEW m \in Transactions, NEW s \in Seq(Piece), Len(s) = m.total,
           \A i \in 1..Len(s) : s[i] = [msg |-> m, no |-> i]
    PROVE  Stream(s, m.wallet) /\ s # <<>> /\ s[1].no = 1
<1>1. m.total \in Nat \ {0}
  BY TransactionAssumption
<1>2. ASSUME NEW i \in 1..Len(s)
      PROVE  s[i].msg = m /\ s[i].no = i
  <2>1. s[i] = [msg |-> m, no |-> i]
    OBVIOUS
  <2> QED
    BY <2>1
<1>3. s # <<>> /\ s[1].no = 1 /\ s[Len(s)].no = m.total /\ s[Len(s)].msg = m
  BY <1>1, <1>2
<1>4. \A i \in 1..(Len(s) - 1) : Follows(s[i], s[i + 1])
  BY <1>1, <1>2 DEF Follows
<1>5. \A i \in 1..Len(s) : s[i].msg.wallet = m.wallet /\ s[i].no <= s[i].msg.total
  BY <1>1, <1>2
<1> QED
  BY <1>3, <1>4, <1>5 DEF Stream

(* A transaction's parts, cmdSendMultipartMessage: one piece for each      *)
(* number, ending with the last.                                           *)
LEMMA PartsAreAStream ==
    ASSUME NEW m \in Transactions
    PROVE  /\ Stream(PartsOfTransaction(m), m.wallet)
           /\ Len(PartsOfTransaction(m)) = m.total
           /\ PartsOfTransaction(m) # <<>>
           /\ PartsOfTransaction(m)[1].no = 1
<1> DEFINE s == PartsOfTransaction(m)
<1>1. m.total \in Nat \ {0}
  BY TransactionAssumption
<1>2. /\ s \in Seq(Piece) /\ Len(s) = m.total
      /\ \A i \in 1..Len(s) : s[i] = [msg |-> m, no |-> i]
  <2>1. /\ s \in [1..m.total -> Piece]
        /\ \A i \in 1..m.total : s[i] = [msg |-> m, no |-> i]
    BY <1>1 DEF PartsOfTransaction, Piece
  <2>2. s \in Seq(Piece) /\ Len(s) = m.total
    BY <1>1, <2>1
  <2> QED
    BY <2>1, <2>2
<1>3. Stream(s, m.wallet) /\ s # <<>> /\ s[1].no = 1
  BY <1>2, NumberedIsAStream
<1> QED
  BY <1>2, <1>3

(* A wallet's next transaction comes behind what it has on the air.        *)
LEMMA StreamsJoin ==
    ASSUME NEW w, NEW s, NEW t, Stream(s, w), Stream(t, w), t # <<>>, t[1].no = 1
    PROVE  Stream(s \o t, w)
<1> DEFINE u == s \o t
<1>1. /\ s \in Seq(Piece) /\ t \in Seq(Piece) /\ Len(t) \in Nat \ {0} /\ Len(s) \in Nat
  BY DEF Stream
<1>2. /\ u \in Seq(Piece) /\ Len(u) = Len(s) + Len(t)
      /\ \A i \in 1..Len(s) : u[i] = s[i]
      /\ \A i \in (Len(s) + 1)..Len(u) : u[i] = t[i - Len(s)]
  BY <1>1
<1>3. \A i \in 1..Len(u) : u[i].msg.wallet = w /\ u[i].no <= u[i].msg.total
  BY <1>1, <1>2 DEF Stream
<1>4. ASSUME NEW i \in 1..(Len(u) - 1)
      PROVE  Follows(u[i], u[i + 1])
  <2>1. CASE i < Len(s)
    BY <1>1, <1>2, <2>1 DEF Stream
  <2>2. CASE i = Len(s)
    <3>1. /\ u[i] = s[Len(s)] /\ u[i + 1] = t[1] /\ s # <<>>
      BY <1>1, <1>2, <2>2
    <3> QED
      BY <3>1 DEF Stream, Follows
  <2>3. CASE i > Len(s)
    <3>1. /\ u[i] = t[i - Len(s)] /\ u[i + 1] = t[(i - Len(s)) + 1]
          /\ i - Len(s) \in 1..(Len(t) - 1)
      BY <1>1, <1>2, <2>3
    <3> QED
      BY <3>1 DEF Stream
  <2> QED
    BY <1>1, <2>1, <2>2, <2>3
<1>5. u[Len(u)].no = u[Len(u)].msg.total
  <2>1. u[Len(u)] = t[Len(t)]
    BY <1>1, <1>2
  <2> QED
    BY <2>1 DEF Stream
<1> QED
  BY <1>2, <1>3, <1>4, <1>5 DEF Stream

(* What arrives or is lost is the first part; the next is its successor.   *)
LEMMA StreamTail ==
    ASSUME NEW w, NEW s, Stream(s, w), s # <<>>
    PROVE  /\ Stream(Tail(s), w)
           /\ Head(s) \in Piece /\ Head(s).msg.wallet = w
           /\ Head(s).no <= Head(s).msg.total
           /\ Head(s).no # Head(s).msg.total =>
                Tail(s) # <<>> /\ Head(Tail(s)) = [msg |-> Head(s).msg, no |-> Head(s).no + 1]
<1> DEFINE u == Tail(s)
<1>1. s \in Seq(Piece) /\ Len(s) \in Nat \ {0} /\ Head(s) = s[1]
  BY DEF Stream
<1>2. /\ u \in Seq(Piece) /\ Len(u) = Len(s) - 1
      /\ \A i \in 1..Len(u) : u[i] = s[i + 1]
  BY <1>1
<1>3. Head(s) \in Piece /\ Head(s).msg.wallet = w /\ Head(s).no <= Head(s).msg.total
  BY <1>1 DEF Stream
<1>4. Stream(u, w)
  <2>1. \A i \in 1..Len(u) : u[i].msg.wallet = w /\ u[i].no <= u[i].msg.total
    BY <1>1, <1>2 DEF Stream
  <2>2. \A i \in 1..(Len(u) - 1) : Follows(u[i], u[i + 1])
    BY <1>1, <1>2 DEF Stream
  <2>3. u # <<>> => u[Len(u)] = s[Len(s)]
    BY <1>1, <1>2
  <2> QED
    BY <1>1, <1>2, <2>1, <2>2, <2>3 DEF Stream
<1>5. ASSUME Head(s).no # Head(s).msg.total
      PROVE  u # <<>> /\ Head(u) = [msg |-> Head(s).msg, no |-> Head(s).no + 1]
  <2>1. Len(s) # 1
    BY <1>1, <1>5 DEF Stream
  <2>2. 1 \in 1..(Len(s) - 1) /\ u # <<>> /\ Head(u) = s[2]
    <3>1. Len(s) >= 2 /\ Len(u) >= 1 /\ u[1] = s[2]
      BY <1>1, <1>2, <2>1
    <3> HIDE DEF u
    <3> QED
      BY <1>1, <1>2, <3>1
  <2>3. Follows(s[1], s[2])
    <3>1. \A i \in 1..(Len(s) - 1) : Follows(s[i], s[i + 1])
      BY DEF Stream
    <3> QED
      BY <2>2, <3>1
  <2>4. s[2] \in Piece /\ s[1] \in Piece
    <3>1. \A i \in 1..Len(s) : s[i] \in Piece
      BY <1>1
    <3> QED
      BY <1>1, <2>2, <3>1
  <2>5. s[2].msg = Head(s).msg /\ s[2].no = Head(s).no + 1
    BY <1>1, <1>5, <2>3, <2>4 DEF Follows
  <2>6. s[2] = [msg |-> s[2].msg, no |-> s[2].no]
    BY <2>4 DEF Piece
  <2> QED
    BY <2>2, <2>5, <2>6
<1> QED
  BY <1>3, <1>4, <1>5

(* Before anything is sent, nothing is on the air and the packet is new.   *)
LEMMA TransferInitOK == TransferInit => TransferInv
<1> SUFFICES ASSUME TransferInit PROVE TransferInv
  OBVIOUS
<1>1. TransferTypeOK
  <2>1. packet \in [currentPart : Nat \ {0}, total : Nat, sender : SUBSET Senders,
                   payload : Seq(Piece)]
    BY DEF TransferInit, NewPacket
  <2>2. /\ onAir \in [Senders -> Seq(Piece)]
        /\ answers \in [Senders -> Seq(SUBSET Transactions)]
        /\ broadcast \in Seq(Piece)
    BY DEF TransferInit
  <2>3. disturbed \in BOOLEAN /\ upset \in BOOLEAN
    BY DEF TransferInit
  <2>4. lost \in 0..MaxLost
    BY TransactionAssumption DEF TransferInit
  <2> QED
    BY <2>1, <2>2, <2>3, <2>4 DEF TransferInit, TransferTypeOK
<1>2. InOrder
  BY DEF TransferInit, InOrder, Stream
<1> QED
  BY <1>1, <1>2 DEF TransferInit, TransferInv, Fresh, Continues, NewPacket

(* AddPacketPiece: a part that the hub takes undisturbed goes behind the   *)
(* earlier parts of its own message.                                       *)
LEMMA PieceOfSameMessage ==
    ASSUME TransferInv, NEW w \in Senders, onAir[w] # <<>>, ~Overlaps(w),
           ~(disturbed /\ packet.currentPart # 1), packet.currentPart # 1
    PROVE  Expected(Head(onAir[w])) /\ Holds(Head(onAir[w]).msg)
<1>1. PICK m \in Transactions : Holds(m)
  BY DEF TransferInv, Continues
<1>2. m.wallet \in Senders
  BY DEF Senders
<1>3. packet.currentPart \in Nat \ {0, 1}
  BY DEF TransferInv, TransferTypeOK
<1>4. onAir[m.wallet] # <<>> /\ Head(onAir[m.wallet]) = [msg |-> m, no |-> packet.currentPart]
  BY <1>1 DEF Holds
<1>5. Head(onAir[m.wallet]).no > 1
  BY <1>3, <1>4
<1>6. w = m.wallet
  BY <1>2, <1>4, <1>5 DEF Overlaps
<1> QED
  BY <1>1, <1>4, <1>6 DEF Expected

LEMMA PieceJoins ==
    ASSUME TransferInv, NEW w \in Senders, onAir[w] # <<>>, ~Overlaps(w),
           ~(disturbed /\ packet.currentPart # 1), Expected(Head(onAir[w]))
    PROVE  FirstParts(Added(Head(onAir[w])), Head(onAir[w]).msg)
<1> DEFINE p == Head(onAir[w])
           m == p.msg
<1>1. /\ packet.currentPart \in Nat \ {0} /\ packet.payload \in Seq(Piece)
      /\ p \in Piece
  <2>1. Stream(onAir[w], w)
    BY DEF TransferInv, InOrder
  <2> QED
    BY <2>1, StreamTail DEF TransferInv, TransferTypeOK
<1>2. p.no = packet.currentPart /\ p = [msg |-> m, no |-> packet.currentPart]
  BY <1>1 DEF Expected, Piece
<1>3. /\ Added(p).currentPart = packet.currentPart + 1
      /\ Added(p).payload = Append(packet.payload, p)
      /\ Added(p).total = IF packet.currentPart = 1 THEN m.total ELSE packet.total
  BY DEF Added
<1>4. /\ Len(packet.payload) = packet.currentPart - 1
      /\ \A k \in 1..(packet.currentPart - 1) : packet.payload[k] = [msg |-> m, no |-> k]
      /\ packet.currentPart # 1 => packet.total = m.total
  <2>1. CASE packet.currentPart = 1
    BY <2>1 DEF TransferInv, Fresh
  <2>2. CASE packet.currentPart # 1
    BY <2>2, PieceOfSameMessage DEF Holds, FirstParts
  <2> QED
    BY <2>1, <2>2
<1>5. /\ Len(Append(packet.payload, p)) = packet.currentPart
      /\ \A k \in 1..packet.currentPart :
           Append(packet.payload, p)[k] = [msg |-> m, no |-> k]
  BY <1>1, <1>2, <1>4
<1>6. Added(p).total = m.total
  BY <1>3, <1>4
<1>7. Len(Added(p).payload) = Added(p).currentPart - 1
  BY <1>1, <1>3, <1>5
<1>8. ASSUME NEW k \in 1..(Added(p).currentPart - 1)
      PROVE  Added(p).payload[k] = [msg |-> m, no |-> k]
  <2>1. k \in 1..packet.currentPart
    BY <1>1, <1>3
  <2> QED
    BY <1>3, <1>5, <2>1
<1> QED
  BY <1>6, <1>7, <1>8 DEF FirstParts

(* A stream that has lost its head, or gained a whole transaction, leaves  *)
(* the others alone.                                                       *)
LEMMA AirAfterPiece ==
    ASSUME TransferInv, NEW w \in Senders, onAir[w] # <<>>,
           onAir' = [onAir EXCEPT ![w] = Tail(@)]
    PROVE  onAir' \in [Senders -> Seq(Piece)] /\ InOrder'
<1>1. Stream(onAir[w], w)
  BY DEF TransferInv, InOrder
<1>2. Stream(Tail(onAir[w]), w)
  BY <1>1, StreamTail
<1>3. Tail(onAir[w]) \in Seq(Piece)
  BY <1>2 DEF Stream
<1>4. onAir \in [Senders -> Seq(Piece)]
  BY DEF TransferInv, TransferTypeOK
<1>5. ASSUME NEW v \in Senders
      PROVE  Stream(onAir'[v], v)
  <2>1. onAir'[v] = IF v = w THEN Tail(onAir[w]) ELSE onAir[v]
    BY <1>4
  <2> QED
    BY <1>2, <2>1 DEF TransferInv, InOrder
<1> QED
  BY <1>3, <1>4, <1>5 DEF InOrder

LEMMA AirAfterSend ==
    ASSUME TransferInv, NEW m \in Transactions, SendTransaction(m)
    PROVE  /\ onAir' \in [Senders -> Seq(Piece)] /\ InOrder'
           /\ \A v \in Senders : onAir[v] # <<>> =>
                onAir'[v] # <<>> /\ Head(onAir'[v]) = Head(onAir[v])
<1> DEFINE w == m.wallet
           t == PartsOfTransaction(m)
<1>1. w \in Senders /\ onAir \in [Senders -> Seq(Piece)]
  BY DEF Senders, TransferInv, TransferTypeOK
<1>2. Stream(onAir[w], w) /\ Stream(t, w) /\ t # <<>> /\ t[1].no = 1
  BY <1>1, PartsAreAStream DEF TransferInv, InOrder
<1>3. Stream(onAir[w] \o t, w)
  BY <1>2, StreamsJoin
<1>4. onAir' = [onAir EXCEPT ![w] = onAir[w] \o t]
  BY DEF SendTransaction
<1>5. t \in Seq(Piece) /\ onAir[w] \in Seq(Piece) /\ onAir[w] \o t \in Seq(Piece)
  BY <1>2, <1>3 DEF Stream
<1> HIDE DEF w, t
<1>6. \A v \in Senders : onAir'[v] = IF v = w THEN onAir[w] \o t ELSE onAir[v]
  BY <1>1, <1>4
<1>7. onAir' \in [Senders -> Seq(Piece)]
  BY <1>1, <1>4, <1>5
<1>8. InOrder'
  BY <1>3, <1>6 DEF TransferInv, InOrder
<1>9. ASSUME NEW v \in Senders, onAir[v] # <<>>
      PROVE  onAir'[v] # <<>> /\ Head(onAir'[v]) = Head(onAir[v])
  <2>1. CASE v # w
    BY <1>6, <1>9, <2>1
  <2>2. CASE v = w
    <3>1. Len(onAir[w]) \in Nat \ {0} /\ (onAir[w] \o t)[1] = onAir[w][1]
      BY <1>5, <1>9, <2>2
    <3>2. onAir[w] \o t # <<>> /\ Head(onAir[w] \o t) = Head(onAir[w])
      BY <1>5, <1>9, <2>2, <3>1
    <3> QED
      BY <1>6, <2>2, <3>2
  <2> QED
    BY <2>1, <2>2
<1> QED
  BY <1>7, <1>8, <1>9

(* SendTransaction changes nothing of the packet and nothing in front of   *)
(* what is on the air.                                                     *)
LEMMA SendKeepsInv ==
    ASSUME TransferInv, NEW m \in Transactions, SendTransaction(m)
    PROVE  TransferInv'
<1>1. /\ onAir' \in [Senders -> Seq(Piece)] /\ InOrder'
      /\ \A v \in Senders : onAir[v] # <<>> =>
           onAir'[v] # <<>> /\ Head(onAir'[v]) = Head(onAir[v])
  BY AirAfterSend
<1>2. TransferTypeOK'
  BY <1>1 DEF TransferInv, TransferTypeOK, SendTransaction
<1>3. Fresh'
  BY DEF TransferInv, Fresh, SendTransaction
<1>4. ASSUME NEW n \in Transactions, Holds(n)
      PROVE  Holds(n)'
  <2>1. n.wallet \in Senders
    BY DEF Senders
  <2> QED
    BY <1>1, <1>4, <2>1 DEF Holds, FirstParts, SendTransaction
<1>5. Continues'
  BY <1>4 DEF TransferInv, Continues, SendTransaction
<1> QED
  BY <1>1, <1>2, <1>3, <1>5 DEF TransferInv

(* LosePiece disturbs the packet.                                          *)
LEMMA LossKeepsInv ==
    ASSUME TransferInv, NEW w \in Senders, LosePiece(w)
    PROVE  TransferInv'
<1>1. onAir' \in [Senders -> Seq(Piece)] /\ InOrder'
  BY AirAfterPiece DEF LosePiece
<1>2. TransferTypeOK'
  BY <1>1, TransactionAssumption DEF TransferInv, TransferTypeOK, LosePiece
<1>3. Fresh' /\ Continues'
  BY DEF TransferInv, Fresh, Continues, LosePiece
<1> QED
  BY <1>1, <1>2, <1>3 DEF TransferInv

(* The results on their way back touch neither packet nor parts.           *)
LEMMA ResultKeepsInv ==
    ASSUME TransferInv, NEW w \in Senders, Answered(w)
    PROVE  TransferInv'
<1>1. UNCHANGED <<unsent, onAir, packet, disturbed, broadcast>>
  BY DEF Answered, ProcessTransactionResult, LoseResult
<1>2. answers[w] # <<>> /\ answers \in [Senders -> Seq(SUBSET Transactions)]
  BY DEF Answered, ProcessTransactionResult, LoseResult, TransferInv, TransferTypeOK
<1>3. /\ Head(answers[w]) \subseteq Transactions
      /\ Tail(answers[w]) \in Seq(SUBSET Transactions)
  BY <1>2
<1>4. answers' \in [Senders -> Seq(SUBSET Transactions)]
  BY <1>2, <1>3 DEF Answered, ProcessTransactionResult, LoseResult
<1>5. confirmed' \subseteq Transactions /\ upset' \in BOOLEAN /\ lost' \in 0..MaxLost
  <2>1. confirmed' \subseteq Transactions
    BY <1>3 DEF Answered, ProcessTransactionResult, LoseResult, TransferInv, TransferTypeOK
  <2>2. upset' \in BOOLEAN
    BY DEF Answered, ProcessTransactionResult, LoseResult, TransferInv, TransferTypeOK
  <2>3. lost' \in 0..MaxLost
    BY TransactionAssumption
       DEF Answered, ProcessTransactionResult, LoseResult, TransferInv, TransferTypeOK
  <2> QED
    BY <2>1, <2>2, <2>3
<1>6. TransferTypeOK'
  BY <1>1, <1>4, <1>5 DEF TransferInv, TransferTypeOK
<1>7. InOrder' /\ Fresh' /\ Continues'
  BY <1>1 DEF TransferInv, InOrder, Fresh, Continues, Holds, FirstParts
<1> QED
  BY <1>6, <1>7 DEF TransferInv

(* ServiceTransactionRequest gets the parts of one message when the packet *)
(* is complete and undisturbed.                                            *)
LEMMA CompleteIsWhole ==
    ASSUME TransferInv, NEW w \in Senders, onAir[w] # <<>>, ~Overlaps(w),
           ~(disturbed /\ packet.currentPart # 1), Expected(Head(onAir[w])),
           Complete(Added(Head(onAir[w])))
    PROVE  \E m \in Transactions : Added(Head(onAir[w])).payload = PartsOfTransaction(m)
<1> DEFINE p == Head(onAir[w])
           q == Added(p)
<1>1. p \in Piece /\ p.no <= p.msg.total /\ p.msg \in Transactions
  <2>1. Stream(onAir[w], w)
    BY DEF TransferInv, InOrder
  <2>2. p \in Piece /\ p.no <= p.msg.total
    BY <2>1, StreamTail
  <2> QED
    BY <2>2 DEF Piece
<1>2. FirstParts(q, p.msg)
  BY PieceJoins
<1>3. q.currentPart = p.no + 1 /\ q.payload = Append(packet.payload, p)
  BY DEF Added, Expected
<1>4. p.msg.total \in Nat \ {0} /\ p.no \in Nat \ {0}
  BY <1>1, TransactionAssumption DEF Piece
<1>5. q.currentPart - 1 = p.msg.total
  BY <1>1, <1>2, <1>3, <1>4 DEF Complete, FirstParts
<1>6. q.payload \in Seq(Piece)
  <2>1. packet.payload \in Seq(Piece)
    BY DEF TransferInv, TransferTypeOK
  <2> HIDE DEF p, q
  <2> QED
    BY <1>1, <1>3, <2>1
<1>7. /\ PartsOfTransaction(p.msg) \in Seq(Piece)
      /\ Len(PartsOfTransaction(p.msg)) = p.msg.total
      /\ \A k \in 1..p.msg.total : PartsOfTransaction(p.msg)[k] = [msg |-> p.msg, no |-> k]
  BY <1>1, <1>4, PartsAreAStream DEF PartsOfTransaction, Stream
<1>8. Len(q.payload) = p.msg.total
  BY <1>2, <1>5 DEF FirstParts
<1>9. \A k \in 1..p.msg.total : q.payload[k] = [msg |-> p.msg, no |-> k]
  BY <1>2, <1>5 DEF FirstParts
<1>10. q.payload = PartsOfTransaction(p.msg)
  <2>1. \A k \in 1..Len(q.payload) : q.payload[k] = PartsOfTransaction(p.msg)[k]
    BY <1>7, <1>8, <1>9
  <2> QED
    BY <1>6, <1>7, <1>8, <2>1, SeqEqual
<1> QED
  BY <1>1, <1>10

(* The messages of a payload are transactions.                             *)
LEMMA MessagesOf ==
    ASSUME NEW s \in Seq(Piece)
    PROVE  {s[i].msg : i \in DOMAIN s} \subseteq Transactions
<1>1. \A i \in DOMAIN s : s[i] \in Piece
  OBVIOUS
<1> QED
  BY <1>1 DEF Piece

(* A part that comes by keeps the invariant, whether the hub takes it,     *)
(* completes the packet with it, or refuses it.                            *)
LEMMA PieceKeepsInv ==
    ASSUME TransferInv, NEW w \in Senders, PortDataReceived(w)
    PROVE  TransferInv'
<1> DEFINE p == Head(onAir[w])
           q == Added(p)
<1>1. /\ onAir[w] # <<>>
      /\ onAir' = [onAir EXCEPT ![w] = Tail(@)]
      /\ disturbed' = (Overlaps(w) \/ (disturbed /\ packet.currentPart # 1))
  BY DEF PortDataReceived
<1>2. onAir' \in [Senders -> Seq(Piece)] /\ InOrder'
  BY <1>1, AirAfterPiece
<1>3. /\ p \in Piece /\ p.msg.wallet = w /\ p.no <= p.msg.total
      /\ p.no # p.msg.total =>
           Tail(onAir[w]) # <<>> /\ Head(Tail(onAir[w])) = [msg |-> p.msg, no |-> p.no + 1]
  <2>1. Stream(onAir[w], w)
    BY DEF TransferInv, InOrder
  <2> QED
    BY <1>1, <2>1, StreamTail
<1>4. p.msg \in Transactions /\ p.msg.total \in Nat \ {0} /\ p.no \in Nat \ {0}
  BY <1>3, TransactionAssumption DEF Piece
<1>5. /\ packet \in [currentPart : Nat \ {0}, total : Nat, sender : SUBSET Senders,
                     payload : Seq(Piece)]
      /\ onAir \in [Senders -> Seq(Piece)]
  BY DEF TransferInv, TransferTypeOK
<1>6. q \in [currentPart : Nat \ {0}, total : Nat, sender : SUBSET Senders,
             payload : Seq(Piece)]
  BY <1>3, <1>4, <1>5 DEF Added
<1>7. \/ ~Expected(p) /\ UNCHANGED <<packet, broadcast, answers>>
      \/ /\ Expected(p) /\ Complete(q)
         /\ packet' = NewPacket /\ ServiceTransactionRequest(q)
      \/ Expected(p) /\ ~Complete(q) /\ packet' = q /\ UNCHANGED <<broadcast, answers>>
  BY DEF PortDataReceived, AfterComplete
<1>8. TransferTypeOK'
  <2>1. packet' \in [currentPart : Nat \ {0}, total : Nat, sender : SUBSET Senders,
                    payload : Seq(Piece)]
    <3>1. NewPacket \in [currentPart : Nat \ {0}, total : Nat, sender : SUBSET Senders,
                         payload : Seq(Piece)]
      BY DEF NewPacket
    <3>2. packet' \in {packet, q, NewPacket}
      BY <1>7
    <3> QED
      BY <1>5, <1>6, <3>1, <3>2
  <2>2. broadcast' \in Seq(Piece)
    BY <1>6, <1>7 DEF ServiceTransactionRequest, TransferInv, TransferTypeOK
  <2>3. {q.payload[i].msg : i \in DOMAIN q.payload} \subseteq Transactions
    BY <1>6, MessagesOf
  <2>4. answers' \in [Senders -> Seq(SUBSET Transactions)]
    <3>1. answers \in [Senders -> Seq(SUBSET Transactions)]
      BY DEF TransferInv, TransferTypeOK
    <3>2. ASSUME NEW v \in Senders
          PROVE  Append(answers[v], {q.payload[i].msg : i \in DOMAIN q.payload})
                   \in Seq(SUBSET Transactions)
      BY <2>3, <3>1
    <3>3. CASE ServiceTransactionRequest(q)
      BY <3>1, <3>2, <3>3 DEF ServiceTransactionRequest
    <3> QED
      BY <1>7, <3>1, <3>3
  <2>5. disturbed' \in BOOLEAN /\ upset' \in BOOLEAN
    BY DEF PortDataReceived, TransferInv, TransferTypeOK
  <2> QED
    BY <1>2, <2>1, <2>2, <2>4, <2>5 DEF PortDataReceived, TransferInv, TransferTypeOK
<1>9. Fresh'
  BY <1>5, <1>7 DEF TransferInv, Fresh, NewPacket, Added
<1>10. Continues'
  <2> SUFFICES ASSUME ~disturbed', packet'.currentPart # 1
               PROVE  \E m \in Transactions : Holds(m)'
    BY DEF Continues
  <2>1. ~Overlaps(w) /\ ~(disturbed /\ packet.currentPart # 1)
    BY <1>1
  <2>2. CASE ~Expected(p)
    BY <1>1, <1>7, <2>1, <2>2, PieceOfSameMessage
  <2>3. CASE Expected(p) /\ Complete(q)
    BY <1>7, <2>3 DEF NewPacket
  <2>4. CASE Expected(p) /\ ~Complete(q)
    <3>1. PICK m \in Transactions : m = p.msg
      BY <1>4
    <3>2. FirstParts(q, m)
      BY <1>1, <2>1, <2>4, <3>1, PieceJoins
    <3>3. packet' = q /\ q.currentPart = p.no + 1 /\ q.total = m.total
      BY <1>7, <2>4, <3>2 DEF Added, Expected, FirstParts
    <3>4. q.currentPart <= m.total /\ p.no # m.total
      BY <1>4, <2>4, <3>1, <3>3 DEF Complete
    <3>5. onAir'[m.wallet] = Tail(onAir[w])
      BY <1>1, <1>3, <1>5, <3>1
    <3>6. /\ onAir'[m.wallet] # <<>>
          /\ Head(onAir'[m.wallet]) = [msg |-> m, no |-> q.currentPart]
      BY <1>3, <3>1, <3>3, <3>4, <3>5
    <3>7. FirstParts(packet', m)
      BY <3>2, <3>3
    <3>8. Holds(m)'
      BY <3>3, <3>4, <3>6, <3>7 DEF Holds, FirstParts
    <3> QED
      BY <3>8
  <2> QED
    BY <2>2, <2>3, <2>4
<1> QED
  BY <1>2, <1>8, <1>9, <1>10 DEF TransferInv

(* The invariant is inductive.                                             *)
LEMMA TransferNextOK == TransferInv /\ [TransferNext]_transferVars => TransferInv'
<1> SUFFICES ASSUME TransferInv, [TransferNext]_transferVars PROVE TransferInv'
  OBVIOUS
<1>1. CASE \E m \in Transactions : SendTransaction(m)
  BY <1>1, SendKeepsInv
<1>2. CASE \E w \in Senders : PortDataReceived(w)
  BY <1>2, PieceKeepsInv
<1>3. CASE \E w \in Senders : LosePiece(w)
  BY <1>3, LossKeepsInv
<1>4. CASE \E w \in Senders : Answered(w)
  BY <1>4, ResultKeepsInv
<1>5. CASE UNCHANGED transferVars
  BY <1>5 DEF transferVars, TransferInv, TransferTypeOK, InOrder, Fresh, Continues,
              Holds, FirstParts
<1> QED
  BY <1>1, <1>2, <1>3, <1>4, <1>5 DEF TransferNext, Receive, Arrives

(* Every state of the transfers satisfies the invariant; type correctness  *)
(* is a part of it.                                                        *)
THEOREM TransferInvariant == TransferSpec => [](TransferTypeOK /\ TransferInv)
<1>1. TransferInv => TransferTypeOK
  BY DEF TransferInv
<1> QED
  BY <1>1, TransferInitOK, TransferNextOK, PTL DEF TransferSpec

(* PortDataReceived is the only step that broadcasts.                      *)
LEMMA BroadcastStep ==
    ASSUME TransferInv, [TransferNext]_transferVars
    PROVE  [broadcast' # broadcast /\ ~disturbed' =>
              \E m \in Transactions : broadcast' = PartsOfTransaction(m)]_transferVars
<1> SUFFICES ASSUME broadcast' # broadcast, ~disturbed'
             PROVE  \E m \in Transactions : broadcast' = PartsOfTransaction(m)
  OBVIOUS
<1>1. PICK w \in Senders : PortDataReceived(w)
  BY DEF TransferNext, Receive, Arrives, Answered, SendTransaction, LosePiece,
         ProcessTransactionResult, LoseResult, transferVars
<1> DEFINE p == Head(onAir[w])
<1>2. /\ onAir[w] # <<>> /\ ~Overlaps(w) /\ ~(disturbed /\ packet.currentPart # 1)
      /\ Expected(p) /\ Complete(Added(p)) /\ broadcast' = Added(p).payload
  BY <1>1 DEF PortDataReceived, ServiceTransactionRequest
<1> QED
  BY <1>2, CompleteIsWhole

(* BroadcastIsWhole of HubTransfers: for any wallets, transactions and     *)
(* numbers of parts, AddPacketPiece and PortDataReceived let nothing but a *)
(* whole transaction be broadcast, unless a part was lost or another       *)
(* wallet's transfer was under way since the packet was begun.             *)
THEOREM BroadcastsAreWhole == TransferSpec => BroadcastIsWhole
<1>1. TransferInv /\ [TransferNext]_transferVars =>
        [broadcast' # broadcast /\ ~disturbed' =>
           \E m \in Transactions : broadcast' = PartsOfTransaction(m)]_transferVars
  BY BroadcastStep
<1> QED
  BY <1>1, TransferInitOK, TransferNextOK, PTL DEF TransferSpec, BroadcastIsWhole

---------------------------------------------------------------------------
(* Every transaction has one result: OneResultEach.  As long as nothing    *)
(* was lost and no two transfers overlapped, the packet is in step with    *)
(* the one wallet that is in the middle of a transfer (InStep), so every   *)
(* part is the expected one and each last part makes one answer, to its    *)
(* own wallet.                                                             *)

\* x is somewhere in the sequence s.
In(x, s) == \E i \in DOMAIN s : s[i] = x

NoRepeat(s) == \A i, j \in DOMAIN s : s[i] = s[j] => i = j

LastPart(m) == [msg |-> m, no |-> m.total]

\* The pieces on the air are of transactions that were sent, each once.
AirOnce ==
    \A w \in Senders :
        /\ \A x \in Piece : In(x, onAir[w]) => x.msg \notin unsent
        /\ NoRepeat(onAir[w])

\* A wallet in the middle of a transfer is the one the packet is from.
InStep ==
    ~upset =>
        /\ ~disturbed
        /\ \A w \in Senders :
              onAir[w] # <<>> /\ Head(onAir[w]).no # 1 =>
                 packet.currentPart = Head(onAir[w]).no /\ packet.sender = {w}

\* What m is: its last part still comes, it has an answer, or it is settled.
AnswersFit(w) ==
    /\ \A x : In(x, answers[w]) =>
          \E m \in Transactions \ (unsent \cup confirmed) :
             m.wallet = w /\ x = {m} /\ ~In(LastPart(m), onAir[w])
    /\ NoRepeat(answers[w])

ResultDue(m) ==
    \/ In(LastPart(m), onAir[m.wallet])
    \/ m \in confirmed
    \/ In({m}, answers[m.wallet])

Accounted ==
    ~upset =>
        /\ \A w \in Senders : AnswersFit(w)
        /\ \A m \in Transactions \ unsent : ResultDue(m)
        /\ \A m \in confirmed : ~In(LastPart(m), onAir[m.wallet]) /\ m \notin unsent

ResultInv == TransferInv /\ AirOnce /\ InStep /\ Accounted

(* The fields of a piece. *)
LEMMA PieceFields ==
    \A m, k, x : x = [msg |-> m, no |-> k] => x.msg = m /\ x.no = k
OBVIOUS

(* What is in a sequence is its head or in its tail.                       *)
LEMMA InTail ==
    ASSUME NEW S, NEW s \in Seq(S), s # <<>>
    PROVE  /\ \A x : In(x, s) <=> x = Head(s) \/ In(x, Tail(s))
           /\ NoRepeat(s) => NoRepeat(Tail(s)) /\ ~In(Head(s), Tail(s))
           /\ Head(s) \in S
<1> DEFINE L == Len(s)
           t == Tail(s)
<1>1. /\ L \in Nat \ {0} /\ DOMAIN s = 1..L /\ Head(s) = s[1]
      /\ DOMAIN t = 1..(L - 1)
      /\ \A i \in 1..(L - 1) : t[i] = s[i + 1]
      /\ Head(s) \in S
  <2>1. L \in Nat \ {0} /\ DOMAIN s = 1..L /\ Head(s) = s[1]
    OBVIOUS
  <2>2. t \in Seq(S) /\ Len(t) = L - 1 /\ \A i \in 1..(L - 1) : t[i] = s[i + 1]
    BY <2>1
  <2>3. DOMAIN t = 1..(L - 1)
    BY <2>2, LenProperties
  <2>4. s[1] \in S
    BY <2>1, ElementOfSeq
  <2> QED
    BY <2>1, <2>2, <2>3, <2>4
<1> HIDE DEF L, t
<1>2. ASSUME NEW x
      PROVE  In(x, s) <=> x = s[1] \/ In(x, t)
  <2>1. ASSUME NEW i \in 1..L, s[i] = x
        PROVE  x = s[1] \/ In(x, t)
    <3>1. CASE i = 1
      BY <2>1, <3>1
    <3>2. CASE i # 1
      <4>1. i - 1 \in 1..(L - 1) /\ i = (i - 1) + 1
        BY <1>1, <3>2
      <4> QED
        BY <1>1, <2>1, <4>1 DEF In
    <3> QED
      BY <3>1, <3>2
  <2>2. ASSUME NEW i \in 1..(L - 1)
        PROVE  i + 1 \in 1..L /\ t[i] = s[i + 1]
    BY <1>1
  <2>3. 1 \in 1..L
    BY <1>1
  <2> QED
    BY <1>1, <2>1, <2>2, <2>3 DEF In
<1>3. ASSUME NoRepeat(s)
      PROVE  NoRepeat(t) /\ ~In(s[1], t)
  <2>1. \A i \in 1..(L - 1) : i + 1 \in 1..L /\ t[i] = s[i + 1] /\ i + 1 # 1
    BY <1>1
  <2>2. 1 \in 1..L
    BY <1>1
  <2>3. ~In(s[1], t)
    BY <1>1, <1>3, <2>1, <2>2 DEF NoRepeat, In
  <2>4. ASSUME NEW i \in 1..(L - 1), NEW j \in 1..(L - 1), t[i] = t[j]
        PROVE  i = j
    <3>1. i + 1 = j + 1
      BY <1>1, <1>3, <2>1, <2>4 DEF NoRepeat
    <3> QED
      BY <3>1
  <2> QED
    BY <1>1, <2>3, <2>4 DEF NoRepeat
<1> QED
  BY <1>1, <1>2, <1>3 DEF t

(* What is in two sequences joined is in one of them.                      *)
LEMMA InJoin ==
    ASSUME NEW S, NEW s \in Seq(S), NEW t \in Seq(S)
    PROVE  /\ \A x : In(x, s \o t) <=> In(x, s) \/ In(x, t)
           /\ NoRepeat(s) /\ NoRepeat(t) /\ (\A x : ~(In(x, s) /\ In(x, t)))
                 => NoRepeat(s \o t)
<1> DEFINE L == Len(s)
           N == Len(t)
           u == s \o t
<1>1. /\ L \in Nat /\ DOMAIN s = 1..L /\ N \in Nat /\ DOMAIN t = 1..N
      /\ DOMAIN u = 1..(L + N)
      /\ \A i \in 1..(L + N) : u[i] = IF i <= L THEN s[i] ELSE t[i - L]
  <2>1. u \in Seq(S) /\ Len(u) = L + N
    BY ConcatProperties
  <2>2. DOMAIN u = 1..(L + N)
    BY <2>1, LenProperties
  <2>3. \A i \in 1..(L + N) : u[i] = IF i <= L THEN s[i] ELSE t[i - L]
    BY ConcatProperties
  <2> QED
    BY <2>2, <2>3
<1> HIDE DEF L, N, u
<1>2. ASSUME NEW i \in 1..(L + N)
      PROVE  \/ i \in 1..L /\ u[i] = s[i]
             \/ i - L \in 1..N /\ u[i] = t[i - L]
  BY <1>1
<1>3. ASSUME NEW i \in 1..L
      PROVE  i \in 1..(L + N) /\ u[i] = s[i]
  BY <1>1
<1>4. ASSUME NEW i \in 1..N
      PROVE  i + L \in 1..(L + N) /\ u[i + L] = t[i]
  <2>1. i + L \in 1..(L + N) /\ ~(i + L <= L) /\ (i + L) - L = i
    BY <1>1
  <2> QED
    BY <1>1, <2>1
<1>5. ASSUME NEW x
      PROVE  In(x, u) <=> In(x, s) \/ In(x, t)
  BY <1>1, <1>2, <1>3, <1>4 DEF In
<1>6. ASSUME NoRepeat(s), NoRepeat(t), \A x : ~(In(x, s) /\ In(x, t))
      PROVE  NoRepeat(u)
  <2> SUFFICES ASSUME NEW i \in 1..(L + N), NEW j \in 1..(L + N), u[i] = u[j]
               PROVE  i = j
    BY <1>1 DEF NoRepeat
  <2>1. CASE i \in 1..L /\ j \in 1..L
    BY <1>1, <1>3, <1>6, <2>1 DEF NoRepeat
  <2>2. CASE i \notin 1..L /\ j \notin 1..L
    <3>1. i - L = j - L
      BY <1>1, <1>2, <1>6, <2>2 DEF NoRepeat
    <3> QED
      BY <1>1, <3>1
  <2>3. ASSUME NEW a \in 1..(L + N), NEW b \in 1..(L + N), a \in 1..L, b \notin 1..L
        PROVE  u[a] # u[b]
    <3>1. In(u[a], s) /\ In(u[b], t)
      BY <1>1, <1>2, <1>3, <2>3 DEF In
    <3> QED
      BY <1>6, <3>1
  <2> QED
    BY <2>1, <2>2, <2>3
<1> QED
  BY <1>5, <1>6 DEF u

(* The part behind the last one of a message is the first of another.      *)
LEMMA BehindTheLast ==
    ASSUME NEW w, NEW s, Stream(s, w), s # <<>>, Head(s).no = Head(s).msg.total,
           Tail(s) # <<>>
    PROVE  Head(Tail(s)).no = 1
<1> DEFINE u == Tail(s)
<1>1. s \in Seq(Piece) /\ Len(s) \in Nat \ {0} /\ Head(s) = s[1]
  BY DEF Stream
<1>2. u \in Seq(Piece) /\ Len(u) = Len(s) - 1 /\ \A i \in 1..Len(u) : u[i] = s[i + 1]
  BY <1>1
<1>3. Len(u) \in Nat \ {0} /\ Head(u) = u[1]
  BY <1>2
<1> HIDE DEF u
<1>4. 1 \in 1..Len(u) /\ 1 \in 1..(Len(s) - 1) /\ 1 + 1 = 2
  BY <1>1, <1>2, <1>3
<1>5. Head(u) = s[2] /\ Follows(s[1], s[2])
  BY <1>2, <1>3, <1>4 DEF Stream
<1> QED
  BY <1>1, <1>5 DEF Follows, u

(* What comes over the air, or is lost, is one part.                       *)
LEMMA AirOnceAfterPiece ==
    ASSUME ResultInv, NEW w \in Senders, onAir[w] # <<>>,
           onAir' = [onAir EXCEPT ![w] = Tail(@)], unsent' = unsent
    PROVE  /\ AirOnce'
           /\ \A m \in Transactions :
                In(LastPart(m), onAir'[m.wallet]) <=>
                   In(LastPart(m), onAir[m.wallet])
                     /\ ~(m.wallet = w /\ Head(onAir[w]) = LastPart(m))
<1>1. onAir \in [Senders -> Seq(Piece)]
  BY DEF ResultInv, TransferInv, TransferTypeOK
<1>2. \A v \in Senders : onAir'[v] = IF v = w THEN Tail(onAir[w]) ELSE onAir[v]
  BY <1>1
<1>3. onAir[w] \in Seq(Piece)
  BY <1>1
<1>4. NoRepeat(onAir[w]) /\ \A x \in Piece : In(x, onAir[w]) => x.msg \notin unsent
  BY DEF ResultInv, AirOnce
<1>5. /\ \A x : In(x, onAir[w]) <=> x = Head(onAir[w]) \/ In(x, Tail(onAir[w]))
      /\ NoRepeat(Tail(onAir[w])) /\ ~In(Head(onAir[w]), Tail(onAir[w]))
  BY <1>3, <1>4, InTail
<1>6. AirOnce'
  <2> SUFFICES ASSUME NEW v \in Senders
               PROVE  /\ \A x \in Piece : In(x, onAir'[v]) => x.msg \notin unsent
                      /\ NoRepeat(onAir'[v])
    BY DEF AirOnce
  <2>1. CASE v = w
    BY <1>2, <1>4, <1>5, <2>1
  <2>2. CASE v # w
    BY <1>2, <2>2 DEF ResultInv, AirOnce
  <2> QED
    BY <2>1, <2>2
<1>7. ASSUME NEW m \in Transactions
      PROVE  In(LastPart(m), onAir'[m.wallet]) <=>
               In(LastPart(m), onAir[m.wallet])
                 /\ ~(m.wallet = w /\ Head(onAir[w]) = LastPart(m))
  <2>1. m.wallet \in Senders
    BY DEF Senders
  <2>2. CASE m.wallet = w
    BY <1>2, <1>5, <2>2
  <2>3. CASE m.wallet # w
    BY <1>2, <2>1, <2>3
  <2> QED
    BY <2>2, <2>3
<1> QED
  BY <1>6, <1>7

(* A transaction that is sent comes with its last part, and no other does. *)
LEMMA AirOnceAfterSend ==
    ASSUME ResultInv, NEW m \in Transactions, SendTransaction(m)
    PROVE  /\ AirOnce'
           /\ \A n \in Transactions :
                In(LastPart(n), onAir'[n.wallet]) <=>
                   In(LastPart(n), onAir[n.wallet]) \/ n = m
<1> DEFINE w == m.wallet
           t == PartsOfTransaction(m)
<1>1. /\ onAir \in [Senders -> Seq(Piece)] /\ w \in Senders /\ onAir[w] \in Seq(Piece)
      /\ m \in unsent /\ unsent' = unsent \ {m}
      /\ onAir' = [onAir EXCEPT ![w] = onAir[w] \o t]
  BY DEF ResultInv, TransferInv, TransferTypeOK, Senders, SendTransaction
<1>2. /\ t \in Seq(Piece) /\ m.total \in Nat \ {0} /\ DOMAIN t = 1..m.total
      /\ \A k \in 1..m.total : t[k] = [msg |-> m, no |-> k]
  BY PartsAreAStream, TransactionAssumption DEF PartsOfTransaction, Stream
<1> HIDE DEF t
<1>3. ASSUME NEW x, In(x, t)
      PROVE  x.msg = m
  <2>1. PICK k \in 1..m.total : t[k] = x
    BY <1>2, <1>3 DEF In
  <2>2. x = [msg |-> m, no |-> k]
    BY <1>2, <2>1
  <2> QED
    BY <2>2
<1>3a. ASSUME NEW k \in 1..m.total
       PROVE  t[k].no = k
  <2> DEFINE x == t[k]
  <2>1. x = [msg |-> m, no |-> k]
    BY <1>2
  <2> HIDE DEF x
  <2>2. x.no = k
    BY <2>1, PieceFields
  <2> QED
    BY <2>2 DEF x
<1>4. NoRepeat(t)
  <2> SUFFICES ASSUME NEW i \in 1..m.total, NEW j \in 1..m.total, t[i] = t[j]
               PROVE  i = j
    BY <1>2 DEF NoRepeat
  <2> QED
    BY <1>3a
<1>5. In(LastPart(m), t)
  <2>1. m.total \in 1..m.total
    BY <1>2
  <2> QED
    BY <1>2, <2>1 DEF In, LastPart
<1>6. \A v \in Senders : onAir'[v] = IF v = w THEN onAir[w] \o t ELSE onAir[v]
  BY <1>1
<1>7. NoRepeat(onAir[w]) /\ \A x \in Piece : In(x, onAir[w]) => x.msg \notin unsent
  BY <1>1 DEF ResultInv, AirOnce
<1>8. \A x : In(x, onAir[w]) => x \in Piece
  <2>1. \A i \in DOMAIN onAir[w] : onAir[w][i] \in Piece
    BY <1>1, LenProperties, ElementOfSeq
  <2> QED
    BY <2>1 DEF In
<1> HIDE DEF w
<1>9. /\ \A x : In(x, onAir[w] \o t) <=> In(x, onAir[w]) \/ In(x, t)
      /\ NoRepeat(onAir[w] \o t)
  <2>1. \A x : ~(In(x, onAir[w]) /\ In(x, t))
    BY <1>1, <1>3, <1>7, <1>8
  <2> QED
    BY <1>1, <1>2, <1>4, <1>7, <2>1, InJoin
<1>10. AirOnce'
  <2> SUFFICES ASSUME NEW v \in Senders
               PROVE  /\ \A x \in Piece : In(x, onAir'[v]) => x.msg \notin unsent'
                      /\ NoRepeat(onAir'[v])
    BY DEF AirOnce
  <2>1. CASE v = w
    BY <1>1, <1>3, <1>6, <1>7, <1>9, <2>1
  <2>2. CASE v # w
    BY <1>1, <1>6, <2>2 DEF ResultInv, AirOnce
  <2> QED
    BY <2>1, <2>2
<1>11. ASSUME NEW n \in Transactions
       PROVE  In(LastPart(n), onAir'[n.wallet]) <=>
                In(LastPart(n), onAir[n.wallet]) \/ n = m
  <2>1. n.wallet \in Senders /\ LastPart(n).msg = n
    BY DEF Senders, LastPart
  <2>2. CASE n.wallet = w
    BY <1>3, <1>5, <1>6, <1>9, <2>1, <2>2
  <2>3. CASE n.wallet # w
    BY <1>6, <2>1, <2>3 DEF w
  <2> QED
    BY <2>2, <2>3
<1> QED
  BY <1>10, <1>11

(* SendTransaction: what is sent is due, and nothing else changes.         *)
LEMMA SendKeepsResults ==
    ASSUME ResultInv, NEW m \in Transactions, SendTransaction(m)
    PROVE  ResultInv'
<1>1. TransferInv'
  BY SendKeepsInv DEF ResultInv
<1>2. /\ AirOnce'
      /\ \A n \in Transactions :
            In(LastPart(n), onAir'[n.wallet]) <=>
               In(LastPart(n), onAir[n.wallet]) \/ n = m
  BY AirOnceAfterSend
<1>3. /\ UNCHANGED <<packet, disturbed, answers, confirmed, upset>>
      /\ m \in unsent /\ unsent' = unsent \ {m}
  BY DEF SendTransaction
<1>4. InStep'
  <2> SUFFICES ASSUME ~upset, NEW v \in Senders, onAir'[v] # <<>>, Head(onAir'[v]).no # 1
               PROVE  packet.currentPart = Head(onAir'[v]).no /\ packet.sender = {v}
    BY <1>3 DEF ResultInv, InStep
  <2>1. CASE onAir[v] # <<>>
    <3>1. Head(onAir'[v]) = Head(onAir[v])
      BY <2>1, AirAfterSend DEF ResultInv
    <3> QED
      BY <2>1, <3>1 DEF ResultInv, InStep
  <2>2. CASE onAir[v] = <<>>
    <3> DEFINE t == PartsOfTransaction(m)
    <3>1. onAir \in [Senders -> Seq(Piece)]
          /\ onAir' = [onAir EXCEPT ![m.wallet] = onAir[m.wallet] \o t]
      BY DEF ResultInv, TransferInv, TransferTypeOK, SendTransaction
    <3>2. t \in Seq(Piece) /\ t # <<>> /\ t[1].no = 1
      BY PartsAreAStream DEF Stream
    <3> HIDE DEF t
    <3>3. onAir'[v] = t
      <4>1. onAir'[v] = IF v = m.wallet THEN onAir[v] \o t ELSE onAir[v]
        BY <3>1
      <4>2. <<>> \o t = t
        BY <3>2, ConcatEmptySeq
      <4> QED
        BY <2>2, <4>1, <4>2
    <3>4. Head(t) = t[1]
      BY <3>2
    <3> QED
      BY <3>2, <3>3, <3>4
  <2> QED
    BY <2>1, <2>2
<1>5. ASSUME ~upset
      PROVE  /\ \A v \in Senders : AnswersFit(v)'
             /\ \A n \in Transactions \ unsent' : ResultDue(n)'
             /\ \A n \in confirmed' : ~In(LastPart(n), onAir'[n.wallet]) /\ n \notin unsent'
  <2>1. confirmed \subseteq Transactions
    BY DEF ResultInv, TransferInv, TransferTypeOK
  <2>2. /\ \A v \in Senders : AnswersFit(v)
        /\ \A n \in Transactions \ unsent : ResultDue(n)
        /\ \A n \in confirmed : ~In(LastPart(n), onAir[n.wallet]) /\ n \notin unsent
    BY <1>5 DEF ResultInv, Accounted
  <2>3. ASSUME NEW v \in Senders
        PROVE  AnswersFit(v)'
    <3>1. ASSUME NEW x, In(x, answers[v])
          PROVE  \E n \in Transactions \ (unsent' \cup confirmed') :
                    n.wallet = v /\ x = {n} /\ ~In(LastPart(n), onAir'[v])
      <4>1. PICK n \in Transactions \ (unsent \cup confirmed) :
                    n.wallet = v /\ x = {n} /\ ~In(LastPart(n), onAir[v])
        BY <2>2, <3>1 DEF AnswersFit
      <4>2. n # m /\ ~In(LastPart(n), onAir'[v])
        BY <1>2, <1>3, <4>1
      <4> QED
        BY <1>3, <4>1, <4>2
    <3>2. NoRepeat(answers'[v])
      BY <1>3, <2>2 DEF AnswersFit
    <3> QED
      BY <1>3, <3>1, <3>2 DEF AnswersFit
  <2>4. ASSUME NEW n \in Transactions \ unsent'
        PROVE  ResultDue(n)'
    BY <1>2, <1>3, <2>2 DEF ResultDue
  <2>5. ASSUME NEW n \in confirmed'
        PROVE  ~In(LastPart(n), onAir'[n.wallet]) /\ n \notin unsent'
    BY <1>2, <1>3, <2>1, <2>2
  <2> QED
    BY <2>3, <2>4, <2>5
<1>6. Accounted'
  BY <1>3, <1>5 DEF Accounted
<1> QED
  BY <1>1, <1>2, <1>4, <1>6 DEF ResultInv

(* PortDataReceived, undisturbed: the part is the one the packet waits     *)
(* for, behind the earlier parts of its own message and sender.            *)
LEMMA PieceInStep ==
    ASSUME ResultInv, NEW w \in Senders, PortDataReceived(w), ~upset'
    PROVE  LET p == Head(onAir[w])
               q == Added(p)
           IN  /\ ~upset /\ ~Overlaps(w) /\ ~disturbed /\ Expected(p)
               /\ FirstParts(q, p.msg) /\ q.sender = {w}
               /\ q.currentPart = p.no + 1 /\ q.total = p.msg.total
               /\ p \in Piece /\ p.msg.wallet = w /\ p.no <= p.msg.total
               /\ In(p, onAir[w])
<1> DEFINE p == Head(onAir[w])
           q == Added(p)
<1>1. ~upset /\ ~Overlaps(w) /\ onAir[w] # <<>>
  BY DEF PortDataReceived, ResultInv, TransferInv, TransferTypeOK
<1>2. Stream(onAir[w], w) /\ packet.currentPart \in Nat \ {0}
  BY DEF ResultInv, TransferInv, InOrder, TransferTypeOK
<1>3. p \in Piece /\ p.msg.wallet = w /\ p.no <= p.msg.total
  BY <1>1, <1>2, StreamTail
<1>4. ~disturbed
  BY <1>1 DEF ResultInv, InStep
<1>5. Expected(p)
  <2>1. CASE packet.currentPart # 1
    BY <1>1, <1>4, <2>1, PieceOfSameMessage DEF ResultInv
  <2>2. CASE packet.currentPart = 1
    <3>1. p.no = 1
      BY <1>1, <2>2 DEF ResultInv, InStep
    <3> QED
      BY <2>2, <3>1 DEF Expected
  <2> QED
    BY <2>1, <2>2
<1>6. FirstParts(q, p.msg)
  BY <1>1, <1>4, <1>5, PieceJoins DEF ResultInv
<1>7. q.currentPart = p.no + 1 /\ q.total = p.msg.total
  BY <1>5, <1>6 DEF Added, Expected, FirstParts
<1>8. q.sender = {w}
  <2>1. q.sender = IF packet.currentPart = 1 THEN {p.msg.wallet} ELSE packet.sender
    BY DEF Added
  <2>2. packet.currentPart # 1 => packet.sender = {w}
    BY <1>1, <1>5 DEF ResultInv, InStep, Expected
  <2> QED
    BY <1>3, <2>1, <2>2
<1>9. In(p, onAir[w])
  BY <1>1, <1>2, InTail DEF Stream
<1> QED
  BY <1>1, <1>3, <1>4, <1>5, <1>6, <1>7, <1>8, <1>9

(* After a part the packet is in step with the wallet it came from.        *)
LEMMA PieceKeepsStep ==
    ASSUME ResultInv, NEW w \in Senders, PortDataReceived(w)
    PROVE  InStep'
<1> DEFINE p == Head(onAir[w])
           q == Added(p)
<1> SUFFICES ASSUME ~upset' PROVE InStep'
  BY DEF InStep
<1>1. /\ ~upset /\ ~Overlaps(w) /\ ~disturbed /\ Expected(p) /\ q.sender = {w}
      /\ q.currentPart = p.no + 1 /\ q.total = p.msg.total
      /\ p \in Piece /\ p.no <= p.msg.total
  BY PieceInStep
<1>2. /\ onAir[w] # <<>> /\ onAir' = [onAir EXCEPT ![w] = Tail(@)]
      /\ ~disturbed'
      /\ ~Complete(q) => packet' = q
  BY <1>1 DEF PortDataReceived
<1>3. onAir \in [Senders -> Seq(Piece)] /\ Stream(onAir[w], w)
  BY DEF ResultInv, TransferInv, TransferTypeOK, InOrder
<1>4. p.no \in Nat \ {0} /\ p.msg.total \in Nat \ {0}
  BY <1>1, TransactionAssumption DEF Piece
<1>5. ASSUME NEW v \in Senders, onAir'[v] # <<>>, Head(onAir'[v]).no # 1
      PROVE  packet'.currentPart = Head(onAir'[v]).no /\ packet'.sender = {v}
  <2>1. CASE v # w
    <3>1. onAir'[v] = onAir[v] /\ onAir[v] # <<>>
      BY <1>2, <1>3, <1>5, <2>1
    <3>2. Head(onAir[v]) \in Piece
      BY <1>3, <3>1, InTail
    <3>3. Head(onAir[v]).no > 1
      BY <1>5, <3>1, <3>2 DEF Piece
    <3> QED
      BY <1>1, <2>1, <3>1, <3>3 DEF Overlaps
  <2>2. CASE v = w
    <3>1. onAir'[w] = Tail(onAir[w])
      BY <1>2, <1>3
    <3>2. p.no # p.msg.total
      BY <1>2, <1>3, <1>5, <2>2, <3>1, BehindTheLast
    <3>3. Head(Tail(onAir[w])).no = p.no + 1
      <4>1. Head(Tail(onAir[w])) = [msg |-> p.msg, no |-> p.no + 1]
        BY <1>2, <1>3, <3>2, StreamTail
      <4> DEFINE h == Head(Tail(onAir[w]))
                 k == p.no + 1
      <4>2. h = [msg |-> p.msg, no |-> k]
        BY <4>1
      <4> HIDE DEF h, k, p
      <4>3. h.no = k
        BY <4>2, PieceFields
      <4> QED
        BY <4>3 DEF h, k
    <3>4. ~Complete(q)
      BY <1>1, <1>4, <3>2 DEF Complete
    <3> QED
      BY <1>1, <1>2, <2>2, <3>1, <3>3, <3>4
  <2> QED
    BY <2>1, <2>2
<1> QED
  BY <1>2, <1>5 DEF InStep

(* ServiceTransactionRequest gives the wallet one answer, about the        *)
(* transaction whose last part has just come.                              *)
LEMMA CompleteAnswers ==
    ASSUME ResultInv, NEW w \in Senders, PortDataReceived(w), ~upset',
           Complete(Added(Head(onAir[w])))
    PROVE  LET m == Head(onAir[w]).msg
           IN  /\ m \in Transactions /\ m.wallet = w
               /\ Head(onAir[w]) = LastPart(m)
               /\ In(LastPart(m), onAir[w])
               /\ answers' = [v \in Senders |-> IF v = w THEN Append(answers[w], {m})
                                                ELSE answers[v]]
<1> DEFINE p == Head(onAir[w])
           q == Added(p)
           m == p.msg
<1>1. /\ ~upset /\ ~Overlaps(w) /\ ~disturbed /\ Expected(p) /\ q.sender = {w}
      /\ FirstParts(q, m) /\ q.currentPart = p.no + 1 /\ q.total = m.total
      /\ p \in Piece /\ p.msg.wallet = w /\ p.no <= m.total /\ In(p, onAir[w])
  BY PieceInStep
<1>2. m \in Transactions /\ p.no \in Nat \ {0} /\ m.total \in Nat \ {0}
      /\ p = [msg |-> p.msg, no |-> p.no]
  BY <1>1, TransactionAssumption DEF Piece
<1>3. p.no = m.total /\ q.currentPart - 1 = m.total
  BY <1>1, <1>2 DEF Complete
<1>4. ServiceTransactionRequest(q)
  BY <1>1 DEF PortDataReceived
<1>5. Len(q.payload) = m.total /\ \A k \in 1..m.total : q.payload[k] = [msg |-> m, no |-> k]
  BY <1>1, <1>3 DEF FirstParts
<1>6. q.payload \in Seq(Piece)
  <2>1. packet.payload \in Seq(Piece) /\ q.payload = Append(packet.payload, p)
    BY DEF ResultInv, TransferInv, TransferTypeOK, Added
  <2> HIDE DEF p, q
  <2> QED
    BY <1>1, <2>1
<1>7. {q.payload[i].msg : i \in DOMAIN q.payload} = {m}
  <2> DEFINE s == q.payload
  <2>1. DOMAIN s = 1..m.total
    BY <1>5, <1>6, LenProperties
  <2>2. \A k \in 1..m.total : s[k] = [msg |-> m, no |-> k]
    BY <1>5
  <2> HIDE DEF s, m
  <2>3. ASSUME NEW k \in 1..m.total
        PROVE  s[k].msg = m
    <3>1. s[k] = [msg |-> m, no |-> k]
      BY <2>2
    <3> QED
      BY <3>1
  <2>4. 1 \in 1..m.total
    BY <1>2
  <2>5. {s[i].msg : i \in DOMAIN s} = {m}
    BY <2>1, <2>3, <2>4
  <2> QED
    BY <2>5 DEF s
<1>8. answers' = [v \in Senders |-> IF v = w THEN Append(answers[w], {m}) ELSE answers[v]]
  <2>1. answers' = [v \in Senders |->
                      IF v \in q.sender
                      THEN Append(answers[v], {q.payload[i].msg : i \in DOMAIN q.payload})
                      ELSE answers[v]]
    BY <1>4 DEF ServiceTransactionRequest
  <2> QED
    BY <1>1, <1>7, <2>1
<1> QED
  BY <1>1, <1>2, <1>3, <1>8 DEF LastPart

(* A part that is no last one settles nothing; a last one is answered.     *)
LEMMA PieceKeepsAccount ==
    ASSUME ResultInv, NEW w \in Senders, PortDataReceived(w)
    PROVE  Accounted'
<1> DEFINE p == Head(onAir[w])
           q == Added(p)
<1> SUFFICES ASSUME ~upset' PROVE Accounted'
  BY DEF Accounted
<1>1. /\ ~upset /\ q.currentPart = p.no + 1 /\ q.total = p.msg.total
      /\ p \in Piece /\ p.no <= p.msg.total /\ Expected(p)
  BY PieceInStep
<1>2. /\ onAir[w] # <<>> /\ onAir' = [onAir EXCEPT ![w] = Tail(@)]
      /\ UNCHANGED <<unsent, confirmed>>
      /\ ~Complete(q) => answers' = answers
  BY <1>1 DEF PortDataReceived
<1>3. \A n \in Transactions :
         In(LastPart(n), onAir'[n.wallet]) <=>
            In(LastPart(n), onAir[n.wallet]) /\ ~(n.wallet = w /\ p = LastPart(n))
  BY <1>2, AirOnceAfterPiece
<1>4. /\ \A v \in Senders : AnswersFit(v)
      /\ \A n \in Transactions \ unsent : ResultDue(n)
      /\ \A n \in confirmed : ~In(LastPart(n), onAir[n.wallet]) /\ n \notin unsent
      /\ confirmed \subseteq Transactions
  BY <1>1 DEF ResultInv, Accounted, TransferInv, TransferTypeOK
<1>5. CASE ~Complete(q)
  <2>1. p.no # p.msg.total
    BY <1>1, <1>5, TransactionAssumption DEF Complete, Piece
  <2>2. \A n \in Transactions : p # LastPart(n)
    BY <2>1 DEF LastPart
  <2>3. \A n \in Transactions :
           In(LastPart(n), onAir'[n.wallet]) <=> In(LastPart(n), onAir[n.wallet])
    BY <1>3, <2>2
  <2> HIDE DEF p, q
  <2>4. ASSUME NEW v \in Senders
        PROVE  AnswersFit(v)'
    <3>1. ASSUME NEW x, In(x, answers[v])
          PROVE  \E n \in Transactions \ (unsent' \cup confirmed') :
                    n.wallet = v /\ x = {n} /\ ~In(LastPart(n), onAir'[v])
      BY <1>2, <1>4, <2>3, <3>1 DEF AnswersFit
    <3> QED
      BY <1>2, <1>4, <1>5, <3>1 DEF AnswersFit
  <2>5. \A n \in Transactions \ unsent' : ResultDue(n)'
    BY <1>2, <1>4, <1>5, <2>3 DEF ResultDue
  <2>6. \A n \in confirmed' : ~In(LastPart(n), onAir'[n.wallet]) /\ n \notin unsent'
    BY <1>2, <1>4, <2>3
  <2> QED
    BY <2>4, <2>5, <2>6 DEF Accounted
<1>6. CASE Complete(q)
  <2>1. PICK m \in Transactions :
           /\ m.wallet = w /\ p = LastPart(m) /\ In(LastPart(m), onAir[w])
           /\ answers' = [v \in Senders |-> IF v = w THEN Append(answers[w], {m})
                                            ELSE answers[v]]
    BY <1>6, CompleteAnswers
  <2>2. \A n \in Transactions : p = LastPart(n) <=> n = m
    BY <2>1 DEF LastPart
  <2>3. \A n \in Transactions :
           In(LastPart(n), onAir'[n.wallet]) <=> In(LastPart(n), onAir[n.wallet]) /\ n # m
    BY <1>3, <2>1, <2>2
  <2>4. m \notin confirmed /\ m \notin unsent
    <3>1. m \notin confirmed
      BY <1>4, <2>1
    <3>2. LastPart(m) \in Piece /\ LastPart(m).msg = m
      BY <2>1, TransactionAssumption DEF LastPart, Piece
    <3>3. m \notin unsent
      BY <2>1, <3>2 DEF ResultInv, AirOnce
    <3> QED
      BY <3>1, <3>3
  <2>5. answers \in [Senders -> Seq(SUBSET Transactions)] /\ answers[w] \in Seq(SUBSET Transactions)
    BY DEF ResultInv, TransferInv, TransferTypeOK
  <2>6. ~In({m}, answers[w])
    BY <1>4, <2>1 DEF AnswersFit
  <2> DEFINE one == <<{m}>>
  <2>7. /\ one \in Seq(SUBSET Transactions)
        /\ \A x : In(x, one) <=> x = {m}
        /\ NoRepeat(one)
    BY DEF In, NoRepeat
  <2>8. Append(answers[w], {m}) = answers[w] \o one
    <3>1. {m} \in SUBSET Transactions
      OBVIOUS
    <3> QED
      BY <2>5, <3>1, AppendIsConcat
  <2> HIDE DEF one
  <2>9. /\ \A x : In(x, Append(answers[w], {m})) <=> In(x, answers[w]) \/ x = {m}
        /\ NoRepeat(Append(answers[w], {m}))
    <3>1. NoRepeat(answers[w])
      BY <1>4 DEF AnswersFit
    <3>2. /\ \A x : In(x, answers[w] \o one) <=> In(x, answers[w]) \/ In(x, one)
          /\ NoRepeat(answers[w]) /\ NoRepeat(one)
                /\ (\A x : ~(In(x, answers[w]) /\ In(x, one))) => NoRepeat(answers[w] \o one)
      BY <2>5, <2>7, InJoin
    <3> QED
      BY <2>6, <2>7, <2>8, <3>1, <3>2
  <2>10. \A v \in Senders : answers'[v] = IF v = w THEN Append(answers[w], {m}) ELSE answers[v]
    BY <2>1
  <2> HIDE DEF p, q
  <2>11. ASSUME NEW v \in Senders
         PROVE  AnswersFit(v)'
    <3>1. ASSUME NEW x, In(x, answers[v])
          PROVE  \E n \in Transactions \ (unsent' \cup confirmed') :
                    n.wallet = v /\ x = {n} /\ ~In(LastPart(n), onAir'[v])
      BY <1>2, <1>4, <2>3, <3>1 DEF AnswersFit
    <3>2. m \in Transactions \ (unsent' \cup confirmed') /\ ~In(LastPart(m), onAir'[w])
      BY <1>2, <2>1, <2>3, <2>4
    <3>3. CASE v = w
      <4>1. \A x : In(x, answers'[v]) <=> In(x, answers[v]) \/ x = {m}
        BY <2>9, <2>10, <3>3
      <4>2. NoRepeat(answers'[v])
        BY <2>9, <2>10, <3>3
      <4> QED
        BY <2>1, <3>1, <3>2, <3>3, <4>1, <4>2 DEF AnswersFit
    <3>4. CASE v # w
      <4>1. answers'[v] = answers[v]
        BY <2>10, <3>4
      <4>2. NoRepeat(answers'[v])
        BY <1>4, <4>1 DEF AnswersFit
      <4> QED
        BY <3>1, <4>1, <4>2 DEF AnswersFit
    <3> QED
      BY <3>3, <3>4
  <2>12. ASSUME NEW n \in Transactions \ unsent'
         PROVE  ResultDue(n)'
    <3>1. n.wallet \in Senders
      BY DEF Senders
    <3>2. CASE n = m
      BY <2>1, <2>9, <2>10, <3>1, <3>2 DEF ResultDue
    <3>3. CASE n # m
      <4>1. In({n}, answers[n.wallet]) => In({n}, answers'[n.wallet])
        BY <2>9, <2>10, <3>1
      <4> QED
        BY <1>2, <1>4, <2>3, <3>3, <4>1 DEF ResultDue
    <3> QED
      BY <3>2, <3>3
  <2>13. \A n \in confirmed' : ~In(LastPart(n), onAir'[n.wallet]) /\ n \notin unsent'
    BY <1>2, <1>4, <2>3
  <2> QED
    BY <2>11, <2>12, <2>13 DEF Accounted
<1> QED
  BY <1>5, <1>6

(* LosePiece and LoseResult upset the rest.                                *)
LEMMA LossKeepsResults ==
    ASSUME ResultInv, NEW w \in Senders, LosePiece(w) \/ LoseResult(w)
    PROVE  ResultInv'
<1>1. TransferInv'
  BY LossKeepsInv, ResultKeepsInv DEF ResultInv, Answered
<1>2. AirOnce'
  <2>1. CASE LosePiece(w)
    BY <2>1, AirOnceAfterPiece DEF LosePiece
  <2>2. CASE LoseResult(w)
    BY <2>2 DEF LoseResult, ResultInv, AirOnce
  <2> QED
    BY <2>1, <2>2
<1>3. InStep' /\ Accounted'
  BY DEF LosePiece, LoseResult, InStep, Accounted
<1> QED
  BY <1>1, <1>2, <1>3 DEF ResultInv

(* processTransactionResult settles the transaction the answer is about.   *)
LEMMA ResultKeepsResults ==
    ASSUME ResultInv, NEW w \in Senders, ProcessTransactionResult(w)
    PROVE  ResultInv'
<1>1. TransferInv'
  BY ResultKeepsInv DEF ResultInv, Answered
<1>2. /\ UNCHANGED <<unsent, onAir, packet, disturbed, upset>>
      /\ answers[w] # <<>> /\ answers' = [answers EXCEPT ![w] = Tail(@)]
      /\ confirmed' = confirmed \cup Head(answers[w])
  BY DEF ProcessTransactionResult
<1>3. AirOnce' /\ InStep'
  BY <1>2 DEF ResultInv, AirOnce, InStep
<1>4. ASSUME ~upset
      PROVE  Accounted'
  <2>1. /\ \A v \in Senders : AnswersFit(v)
        /\ \A n \in Transactions \ unsent : ResultDue(n)
        /\ \A n \in confirmed : ~In(LastPart(n), onAir[n.wallet]) /\ n \notin unsent
        /\ confirmed \subseteq Transactions
    BY <1>4 DEF ResultInv, Accounted, TransferInv, TransferTypeOK
  <2>2. answers \in [Senders -> Seq(SUBSET Transactions)] /\ answers[w] \in Seq(SUBSET Transactions)
    BY DEF ResultInv, TransferInv, TransferTypeOK
  <2>3. /\ \A x : In(x, answers[w]) <=> x = Head(answers[w]) \/ In(x, Tail(answers[w]))
        /\ NoRepeat(Tail(answers[w])) /\ ~In(Head(answers[w]), Tail(answers[w]))
    BY <1>2, <2>1, <2>2, InTail DEF AnswersFit
  <2>4. PICK m \in Transactions \ (unsent \cup confirmed) :
           m.wallet = w /\ Head(answers[w]) = {m} /\ ~In(LastPart(m), onAir[w])
    BY <2>1, <2>3 DEF AnswersFit
  <2>5. \A v \in Senders : answers'[v] = IF v = w THEN Tail(answers[w]) ELSE answers[v]
    BY <1>2, <2>2
  <2>6. confirmed' = confirmed \cup {m}
    BY <1>2, <2>4
  <2>7. ASSUME NEW v \in Senders
        PROVE  AnswersFit(v)'
    <3>1. ASSUME NEW x, In(x, answers'[v])
          PROVE  \E n \in Transactions \ (unsent' \cup confirmed') :
                    n.wallet = v /\ x = {n} /\ ~In(LastPart(n), onAir'[v])
      <4>1. In(x, answers[v]) /\ (v = w => x # {m})
        BY <2>3, <2>4, <2>5, <3>1
      <4>2. PICK n \in Transactions \ (unsent \cup confirmed) :
                    n.wallet = v /\ x = {n} /\ ~In(LastPart(n), onAir[v])
        BY <2>1, <4>1 DEF AnswersFit
      <4>3. n # m
        BY <2>4, <4>1, <4>2
      <4> QED
        BY <1>2, <2>6, <4>2, <4>3
    <3>2. NoRepeat(answers'[v])
      BY <2>1, <2>3, <2>5 DEF AnswersFit
    <3> QED
      BY <3>1, <3>2 DEF AnswersFit
  <2>8. ASSUME NEW n \in Transactions \ unsent'
        PROVE  ResultDue(n)'
    <3>1. n.wallet \in Senders
      BY DEF Senders
    <3>2. In({n}, answers[n.wallet]) => n = m \/ In({n}, answers'[n.wallet])
      <4>1. CASE n.wallet = w
        <5>1. {n} = {m} => n = m
          OBVIOUS
        <5> QED
          BY <2>3, <2>4, <2>5, <4>1, <5>1
      <4>2. CASE n.wallet # w
        BY <2>5, <3>1, <4>2
      <4> QED
        BY <4>1, <4>2
    <3> QED
      BY <1>2, <2>1, <2>6, <3>2 DEF ResultDue
  <2>9. \A n \in confirmed' : ~In(LastPart(n), onAir'[n.wallet]) /\ n \notin unsent'
    BY <1>2, <2>1, <2>4, <2>6
  <2> QED
    BY <2>7, <2>8, <2>9 DEF Accounted
<1>5. Accounted'
  BY <1>2, <1>4 DEF Accounted
<1> QED
  BY <1>1, <1>3, <1>5 DEF ResultInv

(* The invariant of the results is inductive.                              *)
LEMMA ResultNextOK == ResultInv /\ [TransferNext]_transferVars => ResultInv'
<1> SUFFICES ASSUME ResultInv, [TransferNext]_transferVars PROVE ResultInv'
  OBVIOUS
<1>1. CASE \E m \in Transactions : SendTransaction(m)
  BY <1>1, SendKeepsResults
<1>2. ASSUME NEW w \in Senders, PortDataReceived(w)
      PROVE  ResultInv'
  <2>1. AirOnce'
    BY <1>2, AirOnceAfterPiece DEF PortDataReceived
  <2>2. TransferInv'
    BY <1>2, PieceKeepsInv DEF ResultInv
  <2> QED
    BY <1>2, <2>1, <2>2, PieceKeepsStep, PieceKeepsAccount DEF ResultInv
<1>3. CASE \E w \in Senders : LosePiece(w) \/ LoseResult(w)
  BY <1>3, LossKeepsResults
<1>4. CASE \E w \in Senders : ProcessTransactionResult(w)
  BY <1>4, ResultKeepsResults
<1>5. CASE UNCHANGED transferVars
  <2>1. TransferInv'
    BY <1>5, TransferNextOK DEF ResultInv
  <2>2. AirOnce' /\ InStep'
    BY <1>5 DEF transferVars, ResultInv, AirOnce, InStep
  <2>3. Accounted'
    BY <1>5 DEF transferVars, ResultInv, Accounted, AnswersFit, ResultDue
  <2> QED
    BY <2>1, <2>2, <2>3 DEF ResultInv
<1> QED
  BY <1>1, <1>2, <1>3, <1>4, <1>5 DEF TransferNext, Receive, Arrives, Answered

LEMMA ResultInitOK == TransferInit => ResultInv
<1> SUFFICES ASSUME TransferInit PROVE ResultInv
  OBVIOUS
<1>1. \A x : ~In(x, <<>>)
  BY DEF In
<1>2. NoRepeat(<<>>)
  BY DEF NoRepeat
<1>3. /\ \A w \in Senders : onAir[w] = <<>> /\ answers[w] = <<>>
      /\ unsent = Transactions /\ confirmed = {} /\ ~disturbed
  BY DEF TransferInit
<1>4. AirOnce /\ InStep
  BY <1>1, <1>2, <1>3 DEF AirOnce, InStep
<1>5. Accounted
  BY <1>1, <1>2, <1>3 DEF Accounted, AnswersFit
<1> QED
  BY <1>4, <1>5, TransferInitOK DEF ResultInv

(* OneResultEach of HubTransfers, for any wallets, transactions and parts: *)
(* the answers of ServiceTransactionRequest name no transaction, yet, if   *)
(* nothing was lost and no transfers overlapped, each transaction is due   *)
(* exactly one and it comes to its own wallet.                             *)
THEOREM EachHasOneResult == TransferSpec => []OneResultEach
<1>1. ASSUME ResultInv
      PROVE  OneResultEach
  <2> SUFFICES ASSUME ~upset PROVE OneResultEach
    BY DEF OneResultEach
  <2>1. /\ \A w \in Senders : AnswersFit(w)
        /\ \A m \in Transactions \ unsent : ResultDue(m)
        /\ \A m \in confirmed : ~In(LastPart(m), onAir[m.wallet])
    BY <1>1 DEF ResultInv, Accounted
  <2>2. \A m : Coming(m) <=> In(LastPart(m), onAir[m.wallet])
    BY DEF Coming, In, LastPart
  <2>3. ASSUME NEW w \in Senders, NEW i \in DOMAIN answers[w]
        PROVE  /\ \E m \in Transactions \ (unsent \cup confirmed) :
                     m.wallet = w /\ answers[w][i] = {m} /\ ~Coming(m)
               /\ \A j \in DOMAIN answers[w] : answers[w][j] = answers[w][i] => j = i
    <3>1. In(answers[w][i], answers[w])
      BY DEF In
    <3>2. \E m \in Transactions \ (unsent \cup confirmed) :
             m.wallet = w /\ answers[w][i] = {m} /\ ~Coming(m)
      BY <2>1, <2>2, <3>1 DEF AnswersFit
    <3>3. \A j \in DOMAIN answers[w] : answers[w][j] = answers[w][i] => j = i
      BY <2>1 DEF AnswersFit, NoRepeat
    <3> QED
      BY <3>2, <3>3
  <2>4. \A m \in Transactions \ unsent :
           \/ Coming(m)
           \/ m \in confirmed
           \/ \E i \in DOMAIN answers[m.wallet] : answers[m.wallet][i] = {m}
    BY <2>1, <2>2 DEF ResultDue, In
  <2> QED
    BY <2>1, <2>2, <2>3, <2>4 DEF OneResultEach
<1> QED
  BY <1>1, ResultInitOK, ResultNextOK, PTL DEF TransferSpec
=============================================================================
