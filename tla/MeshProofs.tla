----------------------------- MODULE MeshProofs -----------------------------
(***************************************************************************)
(* Proofs about Mesh, for any nodes, links, gateways and requests.         *)
(*                                                                         *)
(* First the inductive invariant: types, AnswersAreReal, and that only     *)
(* issued requests are on the air.  Then, on top of it, that no handler    *)
(* forgets what it heard (AnsweredUnlessLost, RelayedUnlessLost): a step   *)
(* takes no message off the air but the one it is about, and what it puts  *)
(* there, posts or shows for that one is the next on the request's way.    *)
(***************************************************************************)
EXTENDS Mesh, TLAPS

(* Facts about bags: what an addition and a removal leave in them.         *)
LEMMA Added ==
    ASSUME NEW B, NEW C, IsABag(B), IsABag(C)
    PROVE  /\ IsABag(B (+) C)
           /\ BagToSet(B (+) C) = BagToSet(B) \cup BagToSet(C)
<1>1. \A e \in (DOMAIN B) \cup (DOMAIN C) : (B (+) C)[e] \in {n \in Nat : n > 0}
  BY DEF IsABag, (+)
<1> QED  BY <1>1 DEF IsABag, BagToSet, (+)

(* Removing copies adds nothing to a bag. *)
LEMMA Removed ==
    ASSUME NEW B, NEW C, IsABag(B), IsABag(C)
    PROVE  /\ IsABag(B (-) C)
           /\ BagToSet(B (-) C) \subseteq BagToSet(B)
  BY DEF IsABag, BagToSet, (-)

(* The bag of a set has the elements of the set. *)
LEMMA FromSet ==
    ASSUME NEW S
    PROVE  IsABag(SetToBag(S)) /\ BagToSet(SetToBag(S)) = S
  BY DEF IsABag, BagToSet, SetToBag

(* Both ends of a link are nodes. *)
LEMMA LinkEnds ==
    ASSUME NEW a, NEW b, <<a, b>> \in Links
    PROVE  a \in Nodes /\ b \in Nodes /\ <<b, a>> \in Links
<1>1. <<a, b>>[1] = a /\ <<a, b>>[2] = b
  OBVIOUS
<1>2. <<b, a>> \in Links
  BY <1>1, LinksAssumption
<1> QED  BY <1>2, LinksAssumption

(* What MaxLen does not limit. *)
AnyText == [body : Requests, prefixes : Nat]

(* A rebroadcast is longer than what was heard: the growth that, with the  *)
(* limit on parts, ends every chain of rebroadcasts.                       *)
THEOREM RelayedIsLonger ==
    ASSUME NEW t \in AnyText
    PROVE  Relayed(t) \in AnyText /\ Length(Relayed(t)) > Length(t)
<1>1. t.body.size \in Nat
  BY RequestsAssumption DEF AnyText
<1> QED  BY <1>1 DEF AnyText, Relayed, Stripped, With, Length

(* Cutting off a prefix leaves a text, and one no longer than before.      *)
LEMMA StrippedIsText ==
    ASSUME NEW t \in Texts
    PROVE  Stripped(t) \in Texts /\ Stripped(t).body = t.body
  BY LengthAssumption DEF Texts, Stripped, With

(* A text that fits has as few prefixes as the type of texts on the air.   *)
LEMMA FittingIsText ==
    ASSUME NEW t \in AnyText, Fits(t)
    PROVE  t \in Texts
<1>1. t.body.size \in Nat
  BY RequestsAssumption DEF AnyText
<1>2. t.prefixes \in 0 .. (MaxLen + 1)
  BY <1>1, LengthAssumption DEF AnyText, Fits, Length
<1> QED  BY <1>2 DEF AnyText, Texts

(* What a sender puts on the air of a text. *)
HeardAs(B, t) ==
    /\ IsABag(B)
    /\ \A d \in BagToSet(B) :
          /\ d.kind = "text" /\ d.text = t
          /\ <<d.from, d.to>> \in Links
          /\ t \in Texts

(* A broadcast is heard by neighbours, as it was sent. *)
LEMMA BroadcastIsHeard ==
    ASSUME NEW n \in Nodes, NEW t \in AnyText, NEW multipart \in BOOLEAN
    PROVE  HeardAs(Broadcast(n, t, multipart), t)
<1>1. CASE multipart /\ Fits(t)
  <2> DEFINE S == {[kind |-> "text", from |-> n, to |-> m, text |-> t] :
                      m \in Neighbours(n)}
  <2>1. \A d \in S : d.kind = "text" /\ d.text = t /\ <<d.from, d.to>> \in Links
    <3>1. SUFFICES ASSUME NEW m \in Neighbours(n), NEW d,
                          d = [kind |-> "text", from |-> n, to |-> m, text |-> t]
                   PROVE  d.kind = "text" /\ d.text = t /\ <<d.from, d.to>> \in Links
      OBVIOUS
    <3>2. d.kind = "text" /\ d.text = t /\ d.from = n /\ d.to = m
      BY <3>1
    <3> QED  BY <3>2 DEF Neighbours
  <2>2. Broadcast(n, t, multipart) = SetToBag(S)
    BY <1>1 DEF Broadcast
  <2>3. t \in Texts
    BY <1>1, FittingIsText
  <2> HIDE DEF S
  <2> QED  BY <2>1, <2>2, <2>3, FromSet DEF HeardAs
<1>2. CASE ~(multipart /\ Fits(t))
  <2>1. Broadcast(n, t, multipart) = SetToBag({})
    BY <1>2 DEF Broadcast, EmptyBag
  <2> QED  BY <2>1, FromSet DEF HeardAs
<1> QED  BY <1>1, <1>2

(* A transaction for one node is heard by that node only, as it was sent.  *)
LEMMA DirectedIsHeard ==
    ASSUME NEW n \in Nodes, NEW to, NEW t \in AnyText
    PROVE  HeardAs(Directed(n, to, t), t)
<1>1. CASE IsMultipart(t) /\ Fits(t) /\ to \in Neighbours(n)
  <2> DEFINE d == [kind |-> "text", from |-> n, to |-> to, text |-> t]
  <2>1. d.kind = "text" /\ d.text = t /\ <<d.from, d.to>> \in Links
    BY <1>1 DEF Neighbours
  <2>2. Directed(n, to, t) = SetToBag({d})
    BY <1>1 DEF Directed
  <2>3. t \in Texts
    BY <1>1, FittingIsText
  <2> HIDE DEF d
  <2> QED  BY <2>1, <2>2, <2>3, FromSet DEF HeardAs
<1>2. CASE ~(IsMultipart(t) /\ Fits(t) /\ to \in Neighbours(n))
  <2>1. Directed(n, to, t) = SetToBag({})
    BY <1>2 DEF Directed, EmptyBag
  <2> QED  BY <2>1, FromSet DEF HeardAs
<1> QED  BY <1>1, <1>2
-----------------------------------------------------------------------------
(* Only issued requests are on the air. *)
AirIsIssued == \A d \in BagToSet(air) : d.text.body \in issued

(* The inductive invariant: lost \subseteq issued needs AirIsIssued. *)
IInv == TypeOK /\ AnswersAreReal /\ AirIsIssued

(* The first text of a request is a text of that request. *)
LEMMA FirstTextIsText ==
    ASSUME NEW r \in Requests
    PROVE  /\ FirstText(r) \in AnyText /\ FirstText(r).body = r
           /\ With(FirstText(r), 0) \in Texts
  BY LengthAssumption DEF FirstText, AnyText, Texts, With

(* The air is empty at first. *)
LEMMA InitIInv == Init => IInv
<1>1. IsABag(EmptyBag) /\ BagToSet(EmptyBag) = {}
  BY FromSet DEF EmptyBag
<1> QED  BY <1>1 DEF Init, IInv, TypeOK, AnswersAreReal, AirIsIssued

(* A broadcast adds texts of a request that is issued by the same step. *)
LEMMA BroadcastStep ==
    ASSUME IInv, NEW r \in Requests, handleApiBroadcast(r)
    PROVE  IInv'
<1> DEFINE B == Broadcast(r.origin, FirstText(r), IsMultipart(FirstText(r)))
<1>1. HeardAs(B, FirstText(r))
  <2>1. IsMultipart(FirstText(r)) \in BOOLEAN
    BY DEF IsMultipart
  <2>2. r.origin \in Nodes /\ FirstText(r) \in AnyText
    BY FirstTextIsText, RequestsAssumption
  <2> QED  BY <2>1, <2>2, BroadcastIsHeard
<1>2. IsABag(air') /\ BagToSet(air') = BagToSet(air) \cup BagToSet(B)
  BY <1>1, Added DEF handleApiBroadcast, HeardAs, IInv, TypeOK
<1> HIDE DEF B
<1>3. TypeOK'
  BY <1>1, <1>2, RequestsAssumption DEF handleApiBroadcast, HeardAs, IInv, TypeOK
<1>4. AnswersAreReal'
  BY <1>1, <1>2 DEF handleApiBroadcast, HeardAs, IInv, AnswersAreReal
<1>5. AirIsIssued'
  BY <1>1, <1>2, FirstTextIsText DEF handleApiBroadcast, HeardAs, IInv, AirIsIssued
<1> QED  BY <1>3, <1>4, <1>5 DEF IInv

(* So does a transaction for one node, and its origin may post. *)
LEMMA TransactionStep ==
    ASSUME IInv, NEW r \in Requests, handleApiTransaction(r)
    PROVE  IInv'
<1> DEFINE B == Directed(r.origin, r.to, FirstText(r))
<1>1. HeardAs(B, FirstText(r))
  BY FirstTextIsText, DirectedIsHeard, RequestsAssumption
<1>2. IsABag(air') /\ BagToSet(air') = BagToSet(air) \cup BagToSet(B)
  BY <1>1, Added DEF handleApiTransaction, HeardAs, IInv, TypeOK
<1> HIDE DEF B
<1>3. /\ posted' \in [Nodes -> SUBSET Texts]
      /\ \A n \in Nodes : posted[n] \subseteq posted'[n]
  BY FirstTextIsText, RequestsAssumption DEF handleApiTransaction, IInv, TypeOK
<1>4. TypeOK'
  BY <1>1, <1>2, <1>3 DEF handleApiTransaction, HeardAs, IInv, TypeOK
<1>5. AnswersAreReal'
  <2>1. \A d \in BagToSet(air') :
            d.kind = "response" => d \in BagToSet(air) /\ d.from \in Nodes
    BY <1>1, <1>2, LinkEnds DEF HeardAs, IInv, TypeOK
  <2>2. UNCHANGED shown /\ shown \in [Nodes -> SUBSET [by : Nodes, text : Texts]]
    BY DEF handleApiTransaction, IInv, TypeOK
  <2>3. \A n \in Nodes : \A s \in shown[n] : s.by \in Nodes
    BY <2>2
  <2> QED  BY <1>3, <2>1, <2>2, <2>3 DEF IInv, AnswersAreReal
<1>6. AirIsIssued'
  BY <1>1, <1>2, FirstTextIsText DEF handleApiTransaction, HeardAs, IInv, AirIsIssued
<1> QED  BY <1>4, <1>5, <1>6 DEF IInv

(* The answers a gateway adds are about the text it posts. *)
LEMMA GatewayStep ==
    ASSUME IInv, NEW d \in BagToSet(air), ForwardToGateway(d)
    PROVE  IInv'
<1> DEFINE t == Stripped(d.text)
<1>0. /\ <<d.from, d.to>> \in Links /\ <<d.to, d.from>> \in Links
      /\ d.from \in Nodes /\ d.to \in Nodes
      /\ d.text \in Texts /\ d.text.body \in issued
  BY LinkEnds DEF IInv, TypeOK, AirIsIssued
<1>1. t \in Texts /\ t.body = d.text.body
  BY <1>0, StrippedIsText
<1> HIDE DEF t
<1>2. posted' = [posted EXCEPT ![d.to] = @ \cup {t}]
  BY DEF ForwardToGateway, t
<1>3. PICK long \in BOOLEAN :
          air' = ((air (-) SetToBag({d})) (+) SetToBag({Response(d.to, d.from, t, long)}))
                    (+) SetToBag({Response(d.to, d.from, t, long)})
  BY DEF ForwardToGateway, t
<1> DEFINE a == Response(d.to, d.from, t, long)
<1>4. /\ a.kind = "response" /\ a.text = t /\ a.from = d.to
      /\ <<a.from, a.to>> \in Links
  BY <1>0 DEF Response
<1> HIDE DEF a
<1>5. IsABag(air') /\ BagToSet(air') \subseteq BagToSet(air) \cup {a}
  <2> DEFINE A0 == SetToBag({a})
             B0 == SetToBag({d})
             C0 == air (-) B0
             E0 == C0 (+) A0
  <2>1. IsABag(A0) /\ BagToSet(A0) = {a} /\ IsABag(B0)
    BY FromSet
  <2>2. IsABag(air)
    BY DEF IInv, TypeOK
  <2>3. air' = E0 (+) A0
    BY <1>3 DEF a
  <2> HIDE DEF A0, B0
  <2>4. IsABag(C0) /\ BagToSet(C0) \subseteq BagToSet(air)
    BY <2>1, <2>2, Removed
  <2> HIDE DEF C0
  <2>5. IsABag(E0) /\ BagToSet(E0) = BagToSet(C0) \cup BagToSet(A0)
    BY <2>1, <2>4, Added
  <2> HIDE DEF E0
  <2> QED  BY <2>1, <2>3, <2>4, <2>5, Added
<1>6. /\ posted' \in [Nodes -> SUBSET Texts]
      /\ \A n \in Nodes : posted[n] \subseteq posted'[n]
      /\ t \in posted'[d.to]
  BY <1>0, <1>1, <1>2 DEF IInv, TypeOK
<1>7. TypeOK'
  BY <1>1, <1>4, <1>5, <1>6 DEF ForwardToGateway, IInv, TypeOK
<1>8. AnswersAreReal'
  <2>1. \A e \in BagToSet(air) : e.from \in Nodes
    BY LinkEnds DEF IInv, TypeOK
  <2>2. UNCHANGED shown /\ shown \in [Nodes -> SUBSET [by : Nodes, text : Texts]]
    BY DEF ForwardToGateway, IInv, TypeOK
  <2>3. \A n \in Nodes : \A s \in shown[n] : s.by \in Nodes
    BY <2>2
  <2>4. \A e \in BagToSet(air') : e.kind = "response" => e.text \in posted'[e.from]
    BY <1>4, <1>5, <1>6, <2>1 DEF IInv, AnswersAreReal
  <2> QED  BY <1>6, <2>2, <2>3, <2>4 DEF IInv, AnswersAreReal
<1>9. AirIsIssued'
  BY <1>0, <1>1, <1>4, <1>5 DEF ForwardToGateway, IInv, AirIsIssued
<1> QED  BY <1>7, <1>8, <1>9 DEF IInv

(* A rebroadcast adds only texts, of the request that was heard. *)
LEMMA RebroadcastStep ==
    ASSUME IInv, NEW d \in BagToSet(air), Rebroadcast(d)
    PROVE  IInv'
<1> DEFINE t == Relayed(d.text)
           B == Broadcast(d.to, t, IsMultipart(With(t, t.prefixes - 1)))
           C == air (-) SetToBag({d})
<1>0. /\ d.to \in Nodes /\ d.text \in AnyText /\ d.text.body \in issued
  <2>1. d.to \in Nodes /\ d.text \in Texts /\ d.text.body \in issued
    BY LinkEnds DEF IInv, TypeOK, AirIsIssued
  <2> QED  BY <2>1, LengthAssumption DEF Texts, AnyText
<1>1. t \in AnyText /\ t.body = d.text.body
  BY <1>0, RelayedIsLonger DEF Relayed, With
<1>2. air' = C (+) B
  BY DEF Rebroadcast
<1>3. HeardAs(B, t)
  <2>1. IsMultipart(With(t, t.prefixes - 1)) \in BOOLEAN
    BY DEF IsMultipart
  <2> HIDE DEF t
  <2> QED  BY <1>0, <1>1, <2>1, BroadcastIsHeard
<1>4. IsABag(C) /\ BagToSet(C) \subseteq BagToSet(air)
  BY Removed, FromSet DEF IInv, TypeOK
<1> HIDE DEF B, C, t
<1>5. IsABag(air') /\ BagToSet(air') \subseteq BagToSet(air) \cup BagToSet(B)
  BY <1>2, <1>3, <1>4, Added DEF HeardAs
<1>6. TypeOK'
  BY <1>3, <1>5 DEF Rebroadcast, HeardAs, IInv, TypeOK
<1>7. AnswersAreReal'
  BY <1>3, <1>5 DEF Rebroadcast, HeardAs, IInv, AnswersAreReal
<1>8. AirIsIssued'
  BY <1>0, <1>1, <1>3, <1>5 DEF Rebroadcast, HeardAs, IInv, AirIsIssued
<1> QED  BY <1>6, <1>7, <1>8 DEF IInv

(* Taking a message off the air leaves the rest as it was. *)
LEMMA TakenOff ==
    ASSUME IInv, NEW d \in BagToSet(air), air' = air (-) SetToBag({d})
    PROVE  IsABag(air') /\ BagToSet(air') \subseteq BagToSet(air)
  BY Removed, FromSet DEF IInv, TypeOK

(* What is shown was on the air, and so was posted. *)
LEMMA MessageStep ==
    ASSUME IInv, NEW d \in BagToSet(air), ReceiveMessage(d)
    PROVE  IInv'
<1>1. IsABag(air') /\ BagToSet(air') \subseteq BagToSet(air)
  BY TakenOff DEF ReceiveMessage
<1>2. d.from \in Nodes /\ d.to \in Nodes /\ d.text \in Texts
  BY LinkEnds DEF IInv, TypeOK
<1> DEFINE s == [by |-> d.from, text |-> d.text]
<1>3. s.text \in posted[s.by]
  BY DEF ReceiveMessage, IInv, AnswersAreReal
<1>4. s \in [by : Nodes, text : Texts]
  BY <1>2
<1> HIDE DEF s
<1>5. shown' = [shown EXCEPT ![d.to] = @ \cup {s}]
  BY DEF ReceiveMessage, s
<1>6. TypeOK'
  <2>1. waiting' \in [Nodes -> Requests \cup {None}]
    BY <1>2 DEF ReceiveMessage, IInv, TypeOK
  <2>2. shown' \in [Nodes -> SUBSET [by : Nodes, text : Texts]]
    BY <1>2, <1>4, <1>5 DEF IInv, TypeOK
  <2> QED  BY <1>1, <2>1, <2>2 DEF ReceiveMessage, IInv, TypeOK
<1>7. AnswersAreReal'
  <2>1. \A n \in Nodes : shown'[n] \subseteq shown[n] \cup {s}
    BY <1>5 DEF IInv, TypeOK
  <2> QED  BY <1>1, <1>3, <2>1 DEF ReceiveMessage, IInv, AnswersAreReal
<1>8. AirIsIssued'
  BY <1>1 DEF ReceiveMessage, IInv, AirIsIssued
<1> QED  BY <1>6, <1>7, <1>8 DEF IInv

(* Losing a message only shrinks the air. *)
LEMMA LoseStep ==
    ASSUME IInv, NEW d \in BagToSet(air), Lose(d)
    PROVE  IInv'
<1>1. IsABag(air') /\ BagToSet(air') \subseteq BagToSet(air)
  BY TakenOff DEF Lose
<1> QED  BY <1>1 DEF Lose, IInv, TypeOK, AnswersAreReal, AirIsIssued

(* Every step keeps the invariant. *)
LEMMA NextIInv == IInv /\ [Next]_vars => IInv'
<1> SUFFICES ASSUME IInv, [Next]_vars PROVE IInv'
  OBVIOUS
<1>1. ASSUME NEW r \in Requests, handleApiBroadcast(r) PROVE IInv'
  BY <1>1, BroadcastStep
<1>2. ASSUME NEW r \in Requests, handleApiTransaction(r) PROVE IInv'
  BY <1>2, TransactionStep
<1>3. ASSUME NEW d \in BagToSet(air), Receive(d) PROVE IInv'
  BY <1>3, GatewayStep, RebroadcastStep, MessageStep DEF Receive
<1>4. ASSUME NEW d \in BagToSet(air), Lose(d) PROVE IInv'
  BY <1>4, LoseStep
<1>5. ASSUME NEW n \in Nodes, ConfirmationTimeout(n) PROVE IInv'
  BY <1>5 DEF ConfirmationTimeout, IInv, TypeOK, AnswersAreReal, AirIsIssued
<1>6. CASE UNCHANGED vars
  BY <1>6 DEF vars, IInv, TypeOK, AnswersAreReal, AirIsIssued
<1> QED  BY <1>1, <1>2, <1>3, <1>4, <1>5, <1>6 DEF Next, Deliver

(* The inductive invariant holds of every behaviour of every mesh. *)
THEOREM MeshInvariant == Spec => []IInv
  BY InitIInv, NextIInv, PTL DEF Spec

(* The variables keep their types: nothing longer than MaxLen is heard, by *)
(* nobody out of range, and only issued requests lose anything.            *)
THEOREM MeshTypeCorrect == Spec => []TypeOK
  BY MeshInvariant, PTL DEF IInv

(* No node is shown, and no message carries, an answer to a text that the  *)
(* answering gateway did not post, in any mesh.                            *)
THEOREM OnlyPostedIsAnswered == Spec => []AnswersAreReal
  BY MeshInvariant, PTL DEF IInv
-----------------------------------------------------------------------------
(* Taking one message off the air leaves the other messages on it. *)
LEMMA OthersStay ==
    ASSUME NEW B, NEW d, IsABag(B)
    PROVE  BagToSet(B) \ {d} \subseteq BagToSet(B (-) SetToBag({d}))
<1>1. SUFFICES ASSUME NEW e \in BagToSet(B), e # d
               PROVE  e \in BagToSet(B (-) SetToBag({d}))
  OBVIOUS
<1>2. e \in DOMAIN B /\ B[e] \in Nat /\ B[e] > 0
  BY <1>1 DEF IsABag, BagToSet
<1>3. DOMAIN SetToBag({d}) = {d}
  BY DEF SetToBag
<1>4. e \notin DOMAIN SetToBag({d})
  BY <1>1, <1>3
<1> QED  BY <1>2, <1>4 DEF BagToSet, (-)

(* The text a node m hears first of request r. *)
FirstHop(r, m) ==
    [kind |-> "text", from |-> r.origin, to |-> m, text |-> FirstText(r)]

(* The text gateway g hears of r behind the relay m. *)
SecondHop(r, m, g) ==
    [kind |-> "text", from |-> m, to |-> g, text |-> Relayed(FirstText(r))]

(* The fields of both. *)
LEMMA HopFields ==
    ASSUME NEW r \in Requests, NEW m, NEW g
    PROVE  /\ FirstHop(r, m).kind = "text"
           /\ FirstHop(r, m).from = r.origin /\ FirstHop(r, m).to = m
           /\ FirstHop(r, m).text = FirstText(r)
           /\ FirstHop(r, m).text.body = r
           /\ SecondHop(r, m, g).kind = "text"
           /\ SecondHop(r, m, g).from = m /\ SecondHop(r, m, g).to = g
           /\ SecondHop(r, m, g).text.body = r
           /\ Stripped(SecondHop(r, m, g).text).body = r
  BY FirstTextIsText DEF FirstHop, SecondHop, Relayed, Stripped, With

(* A text that fits is heard by every neighbour of a node that broadcasts  *)
(* it in parts.                                                            *)
LEMMA EveryoneHears ==
    ASSUME NEW n, NEW t, NEW m \in Neighbours(n), Fits(t)
    PROVE  [kind |-> "text", from |-> n, to |-> m, text |-> t]
               \in BagToSet(Broadcast(n, t, TRUE))
  BY FromSet DEF Broadcast

(* A request that can be heard is sent to everyone it is meant for. *)
LEMMA RequestIsSent ==
    ASSUME IInv, NEW r \in Requests, NEW m \in Neighbours(r.origin),
           handleApiBroadcast(r) \/ handleApiTransaction(r),
           r.to \in {Everyone, m}, Heard(r)
    PROVE  FirstHop(r, m) \in BagToSet(air')
<1>0. r.origin \in Nodes /\ FirstText(r) \in AnyText
  BY FirstTextIsText, RequestsAssumption
<1>1. CASE handleApiBroadcast(r)
  <2> DEFINE B == Broadcast(r.origin, FirstText(r), TRUE)
  <2>1. IsMultipart(FirstText(r)) = TRUE /\ Fits(FirstText(r))
    BY DEF Heard, IsMultipart
  <2>2. air' = air (+) B
    BY <1>1, <2>1 DEF handleApiBroadcast
  <2>3. IsABag(B) /\ IsABag(air)
    BY <1>0, BroadcastIsHeard DEF HeardAs, IInv, TypeOK
  <2>4. FirstHop(r, m) \in BagToSet(B)
    BY <2>1, EveryoneHears DEF FirstHop
  <2> HIDE DEF B
  <2> QED  BY <2>2, <2>3, <2>4, Added
<1>2. CASE handleApiTransaction(r)
  <2> DEFINE B == Directed(r.origin, r.to, FirstText(r))
  <2>1. r.to = m
    BY <1>2 DEF handleApiTransaction
  <2>2. air' = air (+) B
    BY <1>2 DEF handleApiTransaction
  <2>3. IsABag(B) /\ IsABag(air)
    BY <1>0, DirectedIsHeard DEF HeardAs, IInv, TypeOK
  <2>4. B = SetToBag({FirstHop(r, m)})
    BY <2>1 DEF Directed, Heard, FirstHop
  <2>5. FirstHop(r, m) \in BagToSet(B)
    BY <2>4, FromSet
  <2> HIDE DEF B
  <2> QED  BY <2>2, <2>3, <2>5, Added
<1> QED  BY <1>1, <1>2

(* A request takes nothing off the air. *)
LEMMA RequestsAdd ==
    ASSUME IInv, NEW r \in Requests,
           handleApiBroadcast(r) \/ handleApiTransaction(r)
    PROVE  BagToSet(air) \subseteq BagToSet(air')
<1>0. r.origin \in Nodes /\ FirstText(r) \in AnyText /\ IsABag(air)
      /\ IsMultipart(FirstText(r)) \in BOOLEAN
  BY FirstTextIsText, RequestsAssumption DEF IInv, TypeOK, IsMultipart
<1>1. CASE handleApiBroadcast(r)
  <2> DEFINE B == Broadcast(r.origin, FirstText(r), IsMultipart(FirstText(r)))
  <2>1. IsABag(B)
    BY <1>0, BroadcastIsHeard DEF HeardAs
  <2>2. air' = air (+) B
    BY <1>1 DEF handleApiBroadcast
  <2> HIDE DEF B
  <2> QED  BY <1>0, <2>1, <2>2, Added
<1>2. CASE handleApiTransaction(r)
  <2> DEFINE B == Directed(r.origin, r.to, FirstText(r))
  <2>1. IsABag(B)
    BY <1>0, DirectedIsHeard DEF HeardAs
  <2>2. air' = air (+) B
    BY <1>2 DEF handleApiTransaction
  <2> HIDE DEF B
  <2> QED  BY <1>0, <2>1, <2>2, Added
<1> QED  BY <1>1, <1>2

(* A gateway that hears a text answers it; what else is on the air stays.  *)
LEMMA GatewayAnswers ==
    ASSUME IInv, NEW d \in BagToSet(air), ForwardToGateway(d)
    PROVE  /\ BagToSet(air) \ {d} \subseteq BagToSet(air')
           /\ \E long \in BOOLEAN :
                 Response(d.to, d.from, Stripped(d.text), long) \in BagToSet(air')
<1>1. PICK long \in BOOLEAN :
          air' = ((air (-) SetToBag({d}))
                    (+) SetToBag({Response(d.to, d.from, Stripped(d.text), long)}))
                    (+) SetToBag({Response(d.to, d.from, Stripped(d.text), long)})
  BY DEF ForwardToGateway
<1> DEFINE a == Response(d.to, d.from, Stripped(d.text), long)
           A == SetToBag({a})
           B == SetToBag({d})
           C == air (-) B
           E == C (+) A
<1>2. IsABag(A) /\ BagToSet(A) = {a} /\ IsABag(B) /\ IsABag(air)
  BY FromSet DEF IInv, TypeOK
<1>3. BagToSet(air) \ {d} \subseteq BagToSet(C)
  BY <1>2, OthersStay
<1>4. air' = E (+) A
  BY <1>1
<1> HIDE DEF a, A, B
<1>5. IsABag(C)
  BY <1>2, Removed
<1> HIDE DEF C
<1>6. IsABag(E) /\ BagToSet(E) = BagToSet(C) \cup BagToSet(A)
  BY <1>2, <1>5, Added
<1> HIDE DEF E
<1>7. BagToSet(air') = BagToSet(E) \cup BagToSet(A)
  BY <1>2, <1>4, <1>6, Added
<1>8. a \in BagToSet(air') /\ BagToSet(air) \ {d} \subseteq BagToSet(air')
  BY <1>2, <1>3, <1>6, <1>7
<1> QED  BY <1>8 DEF a

(* A relay broadcasts what it hears if it is more than one packet long and *)
(* still fits; what else is on the air stays.                              *)
LEMMA RelayRepeats ==
    ASSUME IInv, NEW d \in BagToSet(air), Rebroadcast(d)
    PROVE  /\ BagToSet(air) \ {d} \subseteq BagToSet(air')
           /\ (IsMultipart(d.text) /\ Fits(Relayed(d.text)))
                 => \A m \in Neighbours(d.to) :
                       [kind |-> "text", from |-> d.to, to |-> m,
                        text |-> Relayed(d.text)] \in BagToSet(air')
<1> DEFINE t == Relayed(d.text)
           u == With(t, t.prefixes - 1)
           B == Broadcast(d.to, t, IsMultipart(u))
           C == air (-) SetToBag({d})
<1>1. d.to \in Nodes /\ d.text \in AnyText /\ IsABag(air)
  <2>1. d.to \in Nodes /\ d.text \in Texts /\ IsABag(air)
    BY LinkEnds DEF IInv, TypeOK
  <2> QED  BY <2>1, LengthAssumption DEF Texts, AnyText
<1>2. t \in AnyText /\ IsMultipart(u) \in BOOLEAN
  BY <1>1, RelayedIsLonger DEF IsMultipart
<1>3. air' = C (+) B
  BY DEF Rebroadcast
<1>4. IsABag(C) /\ BagToSet(air) \ {d} \subseteq BagToSet(C)
  BY <1>1, Removed, FromSet, OthersStay
<1>5. IsABag(B)
  <2> HIDE DEF t, u
  <2> QED  BY <1>1, <1>2, BroadcastIsHeard DEF HeardAs
<1>6. ASSUME IsMultipart(d.text)
      PROVE  IsMultipart(u) = TRUE
  <2>1. d.text.prefixes \in Nat /\ d.text.body.size \in Nat
    BY <1>1, RequestsAssumption DEF AnyText
  <2>2. Length(u) >= Length(d.text) /\ Length(u) \in Nat /\ Length(d.text) \in Nat
    BY <2>1 DEF Relayed, Stripped, With, Length
  <2> HIDE DEF u
  <2> QED  BY <1>6, <2>2, LengthAssumption DEF IsMultipart
<1>7. BagToSet(air') = BagToSet(C) \cup BagToSet(B)
  <2> HIDE DEF B, C
  <2> QED  BY <1>3, <1>4, <1>5, Added
<1>8. ASSUME NEW m \in Neighbours(d.to), IsMultipart(d.text), Fits(t)
      PROVE  [kind |-> "text", from |-> d.to, to |-> m, text |-> t] \in BagToSet(air')
  <2>1. B = Broadcast(d.to, t, TRUE)
    BY <1>6, <1>8
  <2> HIDE DEF t, u, B, C
  <2>2. [kind |-> "text", from |-> d.to, to |-> m, text |-> t] \in BagToSet(B)
    BY <1>8, <2>1, EveryoneHears
  <2> QED  BY <1>7, <2>2
<1>9. BagToSet(air) \ {d} \subseteq BagToSet(air')
  <2> HIDE DEF B, C
  <2> QED  BY <1>4, <1>7
<1> QED  BY <1>8, <1>9

(* What is posted, shown or lost remains so. *)
Grows == /\ \A n \in Nodes : posted[n] \subseteq posted'[n] /\ shown[n] \subseteq shown'[n]
         /\ lost \subseteq lost'

LEMMA NextGrows == IInv /\ [Next]_vars => Grows
<1> SUFFICES ASSUME IInv, [Next]_vars PROVE Grows
  OBVIOUS
<1>0. /\ posted \in [Nodes -> SUBSET Texts]
      /\ shown \in [Nodes -> SUBSET [by : Nodes, text : Texts]]
  BY DEF IInv, TypeOK
<1>1. ASSUME NEW r \in Requests, handleApiBroadcast(r) PROVE Grows
  BY <1>1 DEF handleApiBroadcast, Grows
<1>2. ASSUME NEW r \in Requests, handleApiTransaction(r) PROVE Grows
  BY <1>0, <1>2 DEF handleApiTransaction, Grows
<1>3. ASSUME NEW d \in BagToSet(air), ForwardToGateway(d) PROVE Grows
  BY <1>0, <1>3 DEF ForwardToGateway, Grows
<1>4. ASSUME NEW d \in BagToSet(air), Rebroadcast(d) PROVE Grows
  BY <1>4 DEF Rebroadcast, Grows
<1>5. ASSUME NEW d \in BagToSet(air), ReceiveMessage(d) PROVE Grows
  BY <1>0, <1>5 DEF ReceiveMessage, Grows
<1>6. ASSUME NEW d \in BagToSet(air), Lose(d) PROVE Grows
  BY <1>6 DEF Lose, Grows
<1>7. ASSUME NEW n \in Nodes, ConfirmationTimeout(n) PROVE Grows
  BY <1>7 DEF ConfirmationTimeout, Grows
<1>8. CASE UNCHANGED vars
  BY <1>8 DEF vars, Grows
<1> QED  BY <1>1, <1>2, <1>3, <1>4, <1>5, <1>6, <1>7, <1>8 DEF Next, Deliver, Receive
-----------------------------------------------------------------------------
(* What AnsweredUnlessLost says of a request r and a gateway g it is for.  *)
Answered(r, g) ==
    \/ FirstHop(r, g) \in BagToSet(air)
    \/ \E long \in BOOLEAN :
          Response(g, r.origin, With(FirstText(r), 0), long) \in BagToSet(air)
    \/ [by |-> g, text |-> With(FirstText(r), 0)] \in shown[r.origin]
    \/ r \in lost

ForGateway(r, g) == r.to \in {Everyone, g} /\ Heard(r)

LEMMA AnsweredSays ==
    AnsweredUnlessLost <=>
        \A r \in issued : \A g \in Gateways \cap Neighbours(r.origin) :
            ForGateway(r, g) => Answered(r, g)
  BY DEF AnsweredUnlessLost, Answered, ForGateway, FirstHop

(* A first text has at most one prefix, and a gateway cuts that off. *)
LEMMA FirstStripped ==
    ASSUME NEW r
    PROVE  Stripped(FirstText(r)) = With(FirstText(r), 0)
  BY DEF FirstText, Stripped, With

(* The fields of the answer to it. *)
LEMMA AnswerFields ==
    ASSUME NEW r \in Requests, NEW g, NEW long
    PROVE  LET a == Response(g, r.origin, With(FirstText(r), 0), long)
           IN  /\ a.kind = "response" /\ a.from = g /\ a.to = r.origin
               /\ a.text = With(FirstText(r), 0) /\ a.text.body = r
  BY FirstTextIsText DEF Response, With

(* While everything but a message d stays on the air, only d can turn      *)
(* Answered false.                                                         *)
LEMMA AnsweredStays ==
    ASSUME IInv, [Next]_vars, NEW d, NEW r \in Requests, NEW g \in Gateways,
           Answered(r, g), BagToSet(air) \ {d} \subseteq BagToSet(air')
    PROVE  \/ Answered(r, g)'
           \/ d = FirstHop(r, g)
           \/ \E long \in BOOLEAN : d = Response(g, r.origin, With(FirstText(r), 0), long)
<1>1. Grows /\ r.origin \in Nodes
  BY NextGrows, RequestsAssumption
<1>2. CASE FirstHop(r, g) \in BagToSet(air)
  BY <1>2 DEF Answered
<1>3. ASSUME NEW long \in BOOLEAN,
             Response(g, r.origin, With(FirstText(r), 0), long) \in BagToSet(air)
      PROVE  \/ Answered(r, g)'
             \/ d = Response(g, r.origin, With(FirstText(r), 0), long)
  BY <1>3 DEF Answered
<1>4. CASE [by |-> g, text |-> With(FirstText(r), 0)] \in shown[r.origin]
  BY <1>1, <1>4 DEF Answered, Grows
<1>5. CASE r \in lost
  BY <1>1, <1>5 DEF Answered, Grows
<1> QED  BY <1>2, <1>3, <1>4, <1>5 DEF Answered

(* The four steps that take a message off the air keep the promise: a      *)
(* gateway that hears the text answers it, ...                             *)
LEMMA AnsweredByGateway ==
    ASSUME IInv, [Next]_vars, NEW d \in BagToSet(air), ForwardToGateway(d),
           NEW r \in Requests, NEW g \in Gateways, Answered(r, g)
    PROVE  Answered(r, g)'
<1>1. CASE d = FirstHop(r, g)
  BY <1>1, GatewayAnswers, HopFields, FirstStripped DEF Answered
<1>2. CASE d # FirstHop(r, g)
  <2>1. d.kind = "text"
    BY DEF ForwardToGateway
  <2> QED  BY <1>2, <2>1, AnsweredStays, GatewayAnswers, AnswerFields
<1> QED  BY <1>1, <1>2

(* ... nobody relays what is for a gateway, ... *)
LEMMA AnsweredPastRelay ==
    ASSUME IInv, [Next]_vars, NEW d \in BagToSet(air), Rebroadcast(d),
           NEW r \in Requests, NEW g \in Gateways, Answered(r, g)
    PROVE  Answered(r, g)'
<1>1. d.kind = "text" /\ d.to \notin Gateways
  BY DEF Rebroadcast
<1>2. d # FirstHop(r, g)
  BY <1>1, HopFields
<1>3. \A long \in BOOLEAN : d # Response(g, r.origin, With(FirstText(r), 0), long)
  BY <1>1, AnswerFields
<1>4. BagToSet(air) \ {d} \subseteq BagToSet(air')
  BY RelayRepeats
<1> QED  BY <1>2, <1>3, <1>4, AnsweredStays

(* ... an answer that is heard is shown, ... *)
LEMMA AnsweredWhenShown ==
    ASSUME IInv, [Next]_vars, NEW d \in BagToSet(air), ReceiveMessage(d),
           NEW r \in Requests, NEW g \in Gateways, Answered(r, g)
    PROVE  Answered(r, g)'
<1>1. d.kind = "response"
  BY DEF ReceiveMessage
<1>2. d # FirstHop(r, g)
  BY <1>1, HopFields
<1>3. BagToSet(air) \ {d} \subseteq BagToSet(air')
  BY OthersStay DEF ReceiveMessage, IInv, TypeOK
<1>4. ASSUME NEW long \in BOOLEAN, d = Response(g, r.origin, With(FirstText(r), 0), long)
      PROVE  Answered(r, g)'
  <2>1. d.to = r.origin /\ d.from = g /\ d.text = With(FirstText(r), 0)
    BY <1>4, AnswerFields
  <2>2. r.origin \in Nodes /\ shown \in [Nodes -> SUBSET [by : Nodes, text : Texts]]
    BY RequestsAssumption DEF IInv, TypeOK
  <2>3. [by |-> g, text |-> With(FirstText(r), 0)] \in shown'[r.origin]
    BY <2>1, <2>2 DEF ReceiveMessage
  <2> QED  BY <2>3 DEF Answered
<1> QED  BY <1>2, <1>3, <1>4, AnsweredStays

(* ... and one that is not heard was lost. *)
LEMMA AnsweredWhenLost ==
    ASSUME IInv, [Next]_vars, NEW d \in BagToSet(air), Lose(d),
           NEW r \in Requests, NEW g \in Gateways, Answered(r, g)
    PROVE  Answered(r, g)'
<1>1. BagToSet(air) \ {d} \subseteq BagToSet(air')
  BY OthersStay DEF Lose, IInv, TypeOK
<1>2. d.text.body = r => Answered(r, g)'
  BY DEF Lose, Answered
<1>3. CASE d = FirstHop(r, g)
  BY <1>2, <1>3, HopFields
<1>4. ASSUME NEW long \in BOOLEAN, d = Response(g, r.origin, With(FirstText(r), 0), long)
      PROVE  Answered(r, g)'
  BY <1>2, <1>4, AnswerFields
<1> QED  BY <1>1, <1>3, <1>4, AnsweredStays

(* Every step keeps the promise and makes it to whom it lets call the API. *)
LEMMA NextAnswered ==
    IInv /\ AnsweredUnlessLost /\ [Next]_vars => AnsweredUnlessLost'
<1> SUFFICES ASSUME IInv, AnsweredUnlessLost, [Next]_vars,
                    NEW r \in issued', NEW g \in Gateways \cap Neighbours(r.origin),
                    ForGateway(r, g)
             PROVE  Answered(r, g)'
  <2>1. AnsweredUnlessLost' <=>
            \A r \in issued' : \A g \in Gateways \cap Neighbours(r.origin) :
                ForGateway(r, g) => Answered(r, g)'
    BY DEF AnsweredUnlessLost, Answered, ForGateway, FirstHop
  <2> QED  BY <2>1
<1>0. issued' \subseteq Requests
  BY NextIInv DEF IInv, TypeOK
<1>1. r \in Requests /\ g \in Gateways
  BY <1>0
<1>2. r \in issued => Answered(r, g)
  BY AnsweredSays
<1>3. ASSUME NEW q \in Requests, handleApiBroadcast(q) \/ handleApiTransaction(q)
      PROVE  Answered(r, g)'
  <2>1. issued' = issued \cup {q}
    BY <1>3 DEF handleApiBroadcast, handleApiTransaction
  <2>2. CASE r \in issued
    <3>1. BagToSet(air) \subseteq BagToSet(air')
      BY <1>3, RequestsAdd
    <3>2. Grows /\ r.origin \in Nodes
      BY <1>1, NextGrows, RequestsAssumption
    <3> QED  BY <1>2, <2>2, <3>1, <3>2 DEF Answered, Grows
  <2>3. CASE r = q
    <3>1. FirstHop(r, g) \in BagToSet(air')
      BY <1>3, <2>3, RequestIsSent DEF ForGateway
    <3> QED  BY <3>1 DEF Answered
  <2> QED  BY <2>1, <2>2, <2>3
<1>4. ASSUME NEW d \in BagToSet(air), Receive(d) \/ Lose(d)
      PROVE  Answered(r, g)'
  <2>1. r \in issued
    BY <1>4 DEF Receive, ForwardToGateway, Rebroadcast, ReceiveMessage, Lose
  <2> QED  BY <1>1, <1>2, <1>4, <2>1, AnsweredByGateway, AnsweredPastRelay,
              AnsweredWhenShown, AnsweredWhenLost DEF Receive
<1>5. CASE UNCHANGED vars \/ \E n \in Nodes : ConfirmationTimeout(n)
  BY <1>2, <1>5 DEF vars, ConfirmationTimeout, Answered
<1> QED  BY <1>3, <1>4, <1>5 DEF Next, Deliver

(* In any mesh, a text for a gateway in range, or the gateway's answer to  *)
(* it, is under way until the answer is shown at the origin, or was lost.  *)
THEOREM NoAnswerIsForgotten == Spec => []AnsweredUnlessLost
<1>1. Init => AnsweredUnlessLost
  BY DEF Init, AnsweredUnlessLost
<1> QED  BY <1>1, MeshInvariant, NextAnswered, PTL DEF Spec
-----------------------------------------------------------------------------
(* What RelayedUnlessLost says of a request r, the relay m it is for, and  *)
(* a gateway g in range of the relay.                                      *)
RelayedTo(r, m, g) ==
    \/ FirstHop(r, m) \in BagToSet(air)
    \/ SecondHop(r, m, g) \in BagToSet(air)
    \/ \E t \in posted[g] : t.body = r
    \/ r \in lost

ForRelay(r, m) ==
    r.to \in {Everyone, m} /\ Heard(r) /\ Fits(Relayed(FirstText(r)))

LEMMA RelayedSays ==
    RelayedUnlessLost <=>
        \A r \in issued : \A m \in Neighbours(r.origin) \ Gateways :
            \A g \in Gateways \cap Neighbours(m) :
                ForRelay(r, m) => RelayedTo(r, m, g)
  BY DEF RelayedUnlessLost, RelayedTo, ForRelay, FirstHop, SecondHop

(* While everything but a message d stays on the air, only d can turn      *)
(* RelayedTo false.                                                        *)
LEMMA RelayedStays ==
    ASSUME IInv, [Next]_vars, NEW d, NEW r, NEW m, NEW g \in Gateways,
           RelayedTo(r, m, g), BagToSet(air) \ {d} \subseteq BagToSet(air')
    PROVE  RelayedTo(r, m, g)' \/ d = FirstHop(r, m) \/ d = SecondHop(r, m, g)
  BY NextGrows, NodesAssumption DEF RelayedTo, Grows

(* The first text goes to no gateway, and so is not posted; the second is  *)
(* posted by the gateway that hears it.                                    *)
LEMMA RelayedByGateway ==
    ASSUME IInv, [Next]_vars, NEW d \in BagToSet(air), ForwardToGateway(d),
           NEW r \in Requests, NEW m \in Nodes \ Gateways, NEW g \in Gateways,
           RelayedTo(r, m, g)
    PROVE  RelayedTo(r, m, g)'
<1>1. d # FirstHop(r, m)
  BY HopFields DEF ForwardToGateway
<1>2. CASE d = SecondHop(r, m, g)
  <2>1. d.to = g /\ Stripped(d.text).body = r
    BY <1>2, HopFields
  <2>2. g \in Nodes /\ posted \in [Nodes -> SUBSET Texts]
    BY NodesAssumption DEF IInv, TypeOK
  <2>3. Stripped(d.text) \in posted'[g]
    BY <2>1, <2>2 DEF ForwardToGateway
  <2> QED  BY <2>1, <2>3 DEF RelayedTo
<1>3. BagToSet(air) \ {d} \subseteq BagToSet(air')
  BY GatewayAnswers
<1>4. RelayedTo(r, m, g)' \/ d = FirstHop(r, m) \/ d = SecondHop(r, m, g)
  BY <1>3, RelayedStays
<1> QED  BY <1>1, <1>2, <1>4

(* A relay that hears the first text broadcasts the second. *)
LEMMA RelayedByRelay ==
    ASSUME IInv, [Next]_vars, NEW d \in BagToSet(air), Rebroadcast(d),
           NEW r \in Requests, NEW m \in Nodes \ Gateways,
           NEW g \in Gateways \cap Neighbours(m),
           ForRelay(r, m), RelayedTo(r, m, g)
    PROVE  RelayedTo(r, m, g)'
<1>1. d # SecondHop(r, m, g)
  BY HopFields DEF Rebroadcast
<1>2. CASE d = FirstHop(r, m)
  <2>1. d.to = m /\ d.text = FirstText(r)
    BY <1>2, HopFields
  <2>2. SecondHop(r, m, g) \in BagToSet(air')
    BY <2>1, RelayRepeats DEF ForRelay, Heard, SecondHop
  <2> QED  BY <2>2 DEF RelayedTo
<1>3. BagToSet(air) \ {d} \subseteq BagToSet(air')
  BY RelayRepeats
<1>4. RelayedTo(r, m, g)' \/ d = FirstHop(r, m) \/ d = SecondHop(r, m, g)
  BY <1>3, RelayedStays
<1> QED  BY <1>1, <1>2, <1>4

(* Hearing an answer does not touch the texts. *)
LEMMA RelayedPastMessage ==
    ASSUME IInv, [Next]_vars, NEW d \in BagToSet(air), ReceiveMessage(d),
           NEW r \in Requests, NEW m, NEW g \in Gateways, RelayedTo(r, m, g)
    PROVE  RelayedTo(r, m, g)'
<1>1. d # FirstHop(r, m) /\ d # SecondHop(r, m, g)
  BY HopFields DEF ReceiveMessage
<1>2. BagToSet(air) \ {d} \subseteq BagToSet(air')
  BY OthersStay DEF ReceiveMessage, IInv, TypeOK
<1> QED  BY <1>1, <1>2, RelayedStays

(* Either text may be lost. *)
LEMMA RelayedWhenLost ==
    ASSUME IInv, [Next]_vars, NEW d \in BagToSet(air), Lose(d),
           NEW r \in Requests, NEW m, NEW g \in Gateways, RelayedTo(r, m, g)
    PROVE  RelayedTo(r, m, g)'
<1>1. BagToSet(air) \ {d} \subseteq BagToSet(air')
  BY OthersStay DEF Lose, IInv, TypeOK
<1>2. d.text.body = r => RelayedTo(r, m, g)'
  BY DEF Lose, RelayedTo
<1>3. RelayedTo(r, m, g)' \/ d = FirstHop(r, m) \/ d = SecondHop(r, m, g)
  BY <1>1, RelayedStays
<1>4. FirstHop(r, m).text.body = r /\ SecondHop(r, m, g).text.body = r
  BY HopFields
<1> QED  BY <1>2, <1>3, <1>4

(* Every step keeps what it finds relayed and sends what it lets clients   *)
(* ask for.                                                                *)
LEMMA NextRelayed ==
    IInv /\ RelayedUnlessLost /\ [Next]_vars => RelayedUnlessLost'
<1> SUFFICES ASSUME IInv, RelayedUnlessLost, [Next]_vars,
                    NEW r \in issued', NEW m \in Neighbours(r.origin) \ Gateways,
                    NEW g \in Gateways \cap Neighbours(m), ForRelay(r, m)
             PROVE  RelayedTo(r, m, g)'
  <2>1. RelayedUnlessLost' <=>
            \A r \in issued' : \A m \in Neighbours(r.origin) \ Gateways :
                \A g \in Gateways \cap Neighbours(m) :
                    ForRelay(r, m) => RelayedTo(r, m, g)'
    BY DEF RelayedUnlessLost, RelayedTo, ForRelay, FirstHop, SecondHop
  <2> QED  BY <2>1
<1>0. issued' \subseteq Requests
  BY NextIInv DEF IInv, TypeOK
<1>1. r \in Requests /\ m \in Nodes \ Gateways /\ g \in Gateways
  BY <1>0 DEF Neighbours
<1>2. r \in issued => RelayedTo(r, m, g)
  BY RelayedSays
<1>3. ASSUME NEW q \in Requests, handleApiBroadcast(q) \/ handleApiTransaction(q)
      PROVE  RelayedTo(r, m, g)'
  <2>1. issued' = issued \cup {q}
    BY <1>3 DEF handleApiBroadcast, handleApiTransaction
  <2>2. CASE r \in issued
    <3>1. BagToSet(air) \subseteq BagToSet(air')
      BY <1>3, RequestsAdd
    <3>2. Grows /\ g \in Nodes
      BY <1>1, NextGrows, NodesAssumption
    <3> QED  BY <1>2, <2>2, <3>1, <3>2 DEF RelayedTo, Grows
  <2>3. CASE r = q
    <3>1. FirstHop(r, m) \in BagToSet(air')
      BY <1>3, <2>3, RequestIsSent DEF ForRelay
    <3> QED  BY <3>1 DEF RelayedTo
  <2> QED  BY <2>1, <2>2, <2>3
<1>4. ASSUME NEW d \in BagToSet(air), Receive(d) \/ Lose(d)
      PROVE  RelayedTo(r, m, g)'
  <2>1. r \in issued
    BY <1>4 DEF Receive, ForwardToGateway, Rebroadcast, ReceiveMessage, Lose
  <2> QED  BY <1>1, <1>2, <1>4, <2>1, RelayedByGateway, RelayedByRelay,
              RelayedPastMessage, RelayedWhenLost DEF Receive
<1>5. CASE UNCHANGED vars \/ \E n \in Nodes : ConfirmationTimeout(n)
  BY <1>2, <1>5 DEF vars, ConfirmationTimeout, RelayedTo
<1> QED  BY <1>3, <1>4, <1>5 DEF Next, Deliver

(* In any mesh, a long request that still fits with a relay's prefixes is  *)
(* under way to the relay or from it until each gateway in the relay's     *)
(* range has posted it, or was lost.                                       *)
THEOREM NoRelayIsForgotten == Spec => []RelayedUnlessLost
<1>1. Init => RelayedUnlessLost
  BY DEF Init, RelayedUnlessLost
<1> QED  BY <1>1, MeshInvariant, NextRelayed, PTL DEF Spec
=============================================================================
