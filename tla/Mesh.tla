-------------------------------- MODULE Mesh --------------------------------
(***************************************************************************)
(* The mesh of v3 nodes: what a node does with a whole transaction or      *)
(* broadcast it has reassembled.  A node with a gateway posts the          *)
(* transaction to the Dogecoin network and answers the node it heard it    *)
(* from; a node without one broadcasts it again.                           *)
(*                                                                         *)
(* Splitting into parts and reassembly are modelled by MultipartReassembly *)
(* and the queue of broadcasts by RequestQueue: here a message is whole    *)
(* and a node sends its next broadcast when it waits for no confirmation.  *)
(*                                                                         *)
(* A text is the body a client gave and the number of "transaction:<p>:"   *)
(* prefixes before it, each of length one.  That number is all that the    *)
(* forwarding code changes, and with it the length of the text, which      *)
(* decides whether and how the text can be sent.                           *)
(***************************************************************************)
EXTENDS Naturals, Sequences, Bags

CONSTANTS
    Nodes,
    Links,      \* pairs of nodes in radio range of one another
    Gateways,   \* nodes with a gateway configured, or with the Internet
    Requests,   \* what clients ask for: id, origin, to, type and size
    Everyone,   \* the address 255.255.255
    None,       \* no request
    ShortLen,   \* longest text that is sent in a single packet (255 bytes)
    MaxLen      \* MAX_MULTIPART_PARTS * MULTIPART_CHUNK_SIZE

ASSUME NodesAssumption == Gateways \subseteq Nodes

(* Radio range is symmetric; a node does not hear itself.                  *)
ASSUME LinksAssumption ==
    /\ Links \subseteq Nodes \X Nodes
    /\ \A l \in Links : l[1] # l[2] /\ <<l[2], l[1]>> \in Links

ASSUME RequestsAssumption ==
    /\ Everyone \notin Nodes
    /\ None \notin Requests
    /\ \A r \in Requests :
          /\ r.origin \in Nodes
          /\ r.to \in (Nodes \ {r.origin}) \cup {Everyone}
          /\ r.type \in {"transaction", "announcement"}
          /\ r.size \in Nat

ASSUME LengthAssumption == ShortLen \in Nat /\ MaxLen \in Nat

VARIABLES
    issued,   \* the requests whose clients have called the API
    air,      \* bag of messages sent and not yet heard by a node in range
    waiting,  \* the broadcast each node waits for a confirmation of
    posted,   \* the texts each gateway posted
    shown,    \* the messages each node showed on its display
    lost      \* ghost: requests one of whose messages was not heard

vars == <<issued, air, waiting, posted, shown, lost>>

Neighbours(n) == {m \in Nodes : <<n, m>> \in Links}

Length(t) == t.body.size + t.prefixes

(* More than one packet: the test of QueueRequest and of the forwarders.   *)
IsMultipart(t) == Length(t) > ShortLen

(* At most MAX_MULTIPART_PARTS parts. *)
Fits(t) == Length(t) <= MaxLen

With(t, k) == [body |-> t.body, prefixes |-> k]

(* Mutant: the prefix is left in what is posted. *)
NotStripped(t) == t

(* txData: the text without its first prefix. *)
Stripped(t) == With(t, IF t.prefixes = 0 THEN 0 ELSE t.prefixes - 1)

(* Mutant: txData itself is given to SendMultipartBroadcast. *)
RelayedOnce(t) == With(t, Stripped(t).prefixes + 1)

(* rebroadcastData puts one prefix back, SendMultipartBroadcast another.   *)
Relayed(t) == With(t, Stripped(t).prefixes + 2)

(* What a text sounds like when n sends it to everyone: a text that fits   *)
(* one packet goes through SendBroadcast, which writes no addresses, so    *)
(* that every receiver drops it; one that is too long is not sent.         *)
Broadcast(n, t, multipart) ==
    IF multipart /\ Fits(t)
    THEN SetToBag({[kind |-> "text", from |-> n, to |-> m, text |-> t] :
                      m \in Neighbours(n)})
    ELSE EmptyBag

(* SendTransaction writes no addresses either; SendMultipartTransaction    *)
(* addresses one node, which hears it when it is in range.                 *)
Directed(n, to, t) ==
    IF IsMultipart(t) /\ Fits(t) /\ to \in Neighbours(n)
    THEN SetToBag({[kind |-> "text", from |-> n, to |-> to, text |-> t]})
    ELSE EmptyBag

(* How the text of a MESSAGE begins for its receiver: SendMessage starts   *)
(* it at byte 8 and ExtractStringMessageFromBuffer reads from byte 7, the  *)
(* last byte of the address; SendMultipartMessage has no such byte.        *)
Heading(long) ==
    (IF long THEN <<>> ELSE <<"address">>) \o <<"confirmation", "DOGECOIN_RESPONSE">>

(* The answer of gateway g to the text t that it posted. *)
Response(g, to, t, long) ==
    [kind |-> "response", from |-> g, to |-> to, text |-> t,
     heading |-> Heading(long)]
-----------------------------------------------------------------------------
Init ==
    /\ issued = {}
    /\ air = EmptyBag
    /\ waiting = [n \in Nodes |-> None]
    /\ posted = [n \in Nodes |-> {}]
    /\ shown = [n \in Nodes |-> {}]
    /\ lost = {}

(* The text of a request as its origin sends it: SendMultipartBroadcast    *)
(* puts the type first, SendMultipartTransaction "signed".                 *)
FirstText(r) ==
    [body |-> r,
     prefixes |-> IF r.to = Everyone /\ r.type = "announcement" THEN 0 ELSE 1]

(* A broadcast that is sent at once; it may wait for a confirmation even   *)
(* if it was too long to be sent.                                          *)
handleApiBroadcast(r) ==
    /\ r.to = Everyone
    /\ r \notin issued
    /\ waiting[r.origin] = None
    /\ issued' = issued \cup {r}
    /\ air' = air (+) Broadcast(r.origin, FirstText(r), IsMultipart(FirstText(r)))
    /\ waiting' = [waiting EXCEPT ![r.origin] = r]
    /\ UNCHANGED <<posted, shown, lost>>

(* A transaction for one node, sent without queue or confirmation, and     *)
(* posted as well when the origin is a gateway itself.                     *)
handleApiTransaction(r) ==
    /\ r.to # Everyone
    /\ r \notin issued
    /\ issued' = issued \cup {r}
    /\ air' = air (+) Directed(r.origin, r.to, FirstText(r))
    /\ posted' = IF r.origin \in Gateways
                 THEN [posted EXCEPT ![r.origin] = @ \cup {With(FirstText(r), 0)}]
                 ELSE posted
    /\ UNCHANGED <<waiting, shown, lost>>

(* Mutant: gateway_forwarded starts as true. *)
AnswersAsGateway(d) ==
    /\ d.kind = "text"
    /\ posted' = IF d.to \in Gateways
                 THEN [posted EXCEPT ![d.to] = @ \cup {Stripped(d.text)}]
                 ELSE posted
    /\ \E long \in BOOLEAN :
          LET answer == SetToBag({Response(d.to, d.from, Stripped(d.text), long)})
          IN  air' = ((air (-) SetToBag({d})) (+) answer) (+) answer
    /\ UNCHANGED <<issued, waiting, shown, lost>>

(* A gateway posts, whatever the network answers, and sends that answer    *)
(* twice to the node it heard the text from.                               *)
ForwardToGateway(d) ==
    /\ d.kind = "text"
    /\ d.to \in Gateways
    /\ posted' = [posted EXCEPT ![d.to] = @ \cup {Stripped(d.text)}]
    /\ \E long \in BOOLEAN :
          LET answer == SetToBag({Response(d.to, d.from, Stripped(d.text), long)})
          IN  air' = ((air (-) SetToBag({d})) (+) answer) (+) answer
    /\ UNCHANGED <<issued, waiting, shown, lost>>

(* Mutant: the rebroadcast is addressed to the node it came from. *)
RebroadcastToSender(d) ==
    /\ d.kind = "text"
    /\ d.to \notin Gateways
    /\ air' = (air (-) SetToBag({d})) (+) Directed(d.to, d.from, Relayed(d.text))
    /\ UNCHANGED <<issued, waiting, posted, shown, lost>>

(* Any other node broadcasts it again; the length it tests is that of      *)
(* rebroadcastData, before the last prefix.                                *)
Rebroadcast(d) ==
    /\ d.kind = "text"
    /\ d.to \notin Gateways
    /\ LET t == Relayed(d.text)
       IN  air' = (air (-) SetToBag({d}))
                     (+) Broadcast(d.to, t, IsMultipart(With(t, t.prefixes - 1)))
    /\ UNCHANGED <<issued, waiting, posted, shown, lost>>

(* HandleConfirmationReceived is called for this text. *)
IsConfirmation(d) == Head(d.heading) = "DOGECOIN_RESPONSE"

(* A MESSAGE, or a multipart message: shown, and a confirmation ends the   *)
(* wait for whatever request is in flight.                                 *)
ReceiveMessage(d) ==
    /\ d.kind = "response"
    /\ air' = air (-) SetToBag({d})
    /\ shown' = [shown EXCEPT ![d.to] = @ \cup {[by |-> d.from, text |-> d.text]}]
    /\ waiting' = IF IsConfirmation(d)
                  THEN [waiting EXCEPT ![d.to] = None]
                  ELSE waiting
    /\ UNCHANGED <<issued, posted, lost>>

(* The receiver was out of range, sending, or missed a part. *)
Lose(d) ==
    /\ air' = air (-) SetToBag({d})
    /\ lost' = lost \cup {d.text.body}
    /\ UNCHANGED <<issued, waiting, posted, shown>>

(* CONFIRMATION_TIMEOUT_MS passed. *)
ConfirmationTimeout(n) ==
    /\ waiting[n] # None
    /\ waiting' = [waiting EXCEPT ![n] = None]
    /\ UNCHANGED <<issued, air, posted, shown, lost>>

Receive(d) == ForwardToGateway(d) \/ Rebroadcast(d) \/ ReceiveMessage(d)

Deliver == \E d \in BagToSet(air) : Receive(d) \/ Lose(d)

Next ==
    \/ \E r \in Requests : handleApiBroadcast(r) \/ handleApiTransaction(r)
    \/ Deliver
    \/ \E n \in Nodes : ConfirmationTimeout(n)

Spec == Init /\ [][Next]_vars

(* Whatever is sent is heard or lost in the end. *)
FairSpec == Spec /\ WF_vars(Deliver)
-----------------------------------------------------------------------------
Texts == [body : Requests, prefixes : 0 .. (MaxLen + 1)]

(* Every variable keeps its type, and only neighbours hear one another.    *)
TypeOK ==
    /\ issued \subseteq Requests
    /\ IsABag(air)
    /\ \A d \in BagToSet(air) :
          /\ <<d.from, d.to>> \in Links
          /\ d.text \in Texts
    /\ waiting \in [Nodes -> Requests \cup {None}]
    /\ posted \in [Nodes -> SUBSET Texts]
    /\ shown \in [Nodes -> SUBSET [by : Nodes, text : Texts]]
    /\ lost \subseteq issued

(* No node is told of an answer of the Dogecoin network to a text that the *)
(* answering gateway never posted: a mesh in which everybody forwards must *)
(* not confirm a transaction that nobody could post.                       *)
AnswersAreReal ==
    /\ \A d \in BagToSet(air) :
          d.kind = "response" => d.text \in posted[d.from]
    /\ \A n \in Nodes : \A s \in shown[n] : s.text \in posted[s.by]

(* Nothing circulates for ever: there is no hop count and no memory of     *)
(* what was relayed, and still every text a client sent dies out.          *)
QuietInTheEnd == []<>(air = EmptyBag)

Heard(r) == IsMultipart(FirstText(r)) /\ Fits(FirstText(r))

(* What a node sends to everyone with a gateway in range, or to a gateway  *)
(* in range, is posted as its client gave it, and the gateway's answer is  *)
(* shown at its origin, unless one of its messages was lost.               *)
InRangeIsAnswered ==
    \A r \in Requests : \A g \in Gateways \cap Neighbours(r.origin) :
        (r \in issued /\ r.to \in {Everyone, g} /\ Heard(r))
            ~> \/ [by |-> g, text |-> With(FirstText(r), 0)] \in shown[r.origin]
               \/ r \in lost

(* At every moment before that, the text or the answer to it is under way: *)
(* handlers never drop either between hearing one and sending the other.   *)
AnsweredUnlessLost ==
    \A r \in issued : \A g \in Gateways \cap Neighbours(r.origin) :
        (r.to \in {Everyone, g} /\ Heard(r))
            => \/ [kind |-> "text", from |-> r.origin, to |-> g,
                   text |-> FirstText(r)] \in BagToSet(air)
               \/ \E long \in BOOLEAN :
                     Response(g, r.origin, With(FirstText(r), 0), long)
                         \in BagToSet(air)
               \/ [by |-> g, text |-> With(FirstText(r), 0)] \in shown[r.origin]
               \/ r \in lost

(* A gateway behind one relay gets to post something for every long        *)
(* request, if the text with the relay's prefixes still fits.              *)
RelayReachesGateway ==
    \A r \in Requests :
        \A m \in Neighbours(r.origin) \ Gateways :
            \A g \in Gateways \cap Neighbours(m) :
                (/\ r \in issued
                 /\ r.to \in {Everyone, m}
                 /\ Heard(r) /\ Fits(Relayed(FirstText(r))))
                    ~> \/ \E t \in posted[g] : t.body = r
                       \/ r \in lost

(* Before that, the text is under way to the relay or from it: a relay     *)
(* sends on all it hears, to every gateway in its range.                   *)
RelayedUnlessLost ==
    \A r \in issued : \A m \in Neighbours(r.origin) \ Gateways :
        \A g \in Gateways \cap Neighbours(m) :
            (r.to \in {Everyone, m} /\ Heard(r) /\ Fits(Relayed(FirstText(r))))
                => \/ [kind |-> "text", from |-> r.origin, to |-> m,
                       text |-> FirstText(r)] \in BagToSet(air)
                   \/ [kind |-> "text", from |-> m, to |-> g,
                       text |-> Relayed(FirstText(r))] \in BagToSet(air)
                   \/ \E t \in posted[g] : t.body = r
                   \/ r \in lost

(* README, How the Mesh Network Works: the gateway "forwards your          *)
(* transaction to the Dogecoin network": what is posted for a transaction  *)
(* is the transaction.                                                     *)
PostedAsGiven ==
    \A g \in Gateways : \A t \in posted[g] :
        t.body.type = "transaction" => t.prefixes = 0

(* ParseReceivedMessage, "Handle confirmation for queued requests": a node *)
(* that shows the answer to the broadcast it waits for waits no longer.    *)
ConfirmationEndsWait ==
    [][\A n \in Nodes :
          (/\ waiting[n] # None
           /\ \E s \in shown'[n] \ shown[n] : s.text.body = waiting[n])
              => waiting'[n] = None]_vars
=============================================================================
