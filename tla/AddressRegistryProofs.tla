----------------------- MODULE AddressRegistryProofs -----------------------
(***************************************************************************)
(* Proofs about AddressRegistry: type correctness; that the pins of wallet *)
(* and hub agree (PinsAgree), through the chain of pins that the requests  *)
(* on their way form (PinChain); that book and watch list name the same    *)
(* addresses; and that a wallet can read the balance of its own address    *)
(* (BalanceIsReadable), through what the pin has to do with the balances   *)
(* under way (BalancesStand).                                              *)
(***************************************************************************)
EXTENDS AddressRegistry, TLAPS

---------------------------------------------------------------------------
(* Sequences of requests.                                                  *)

\* What is left of a queue when its first element is taken.
LEMMA TailFacts ==
    ASSUME NEW S, NEW q \in Seq(S), q # <<>>
    PROVE  /\ Tail(q) \in Seq(S)
           /\ Head(q) \in S
           /\ Head(q) = q[1]
           /\ Len(q) \in Nat \ {0}
           /\ Len(Tail(q)) = Len(q) - 1
           /\ \A i \in 1..Len(q) - 1 : Tail(q)[i] = q[i + 1]
  OBVIOUS

\* A queue with an element put behind.
LEMMA AppendFacts ==
    ASSUME NEW S, NEW q \in Seq(S), NEW r \in S
    PROVE  /\ Append(q, r) \in Seq(S)
           /\ Append(q, r) # <<>>
           /\ Len(q) \in Nat
           /\ Len(Append(q, r)) = Len(q) + 1
           /\ \A i \in 1..Len(q) : Append(q, r)[i] = q[i]
           /\ Append(q, r)[Len(q) + 1] = r
  OBVIOUS

LEMMA EmptyFacts ==
    ASSUME NEW S, NEW q \in Seq(S)
    PROVE  q = <<>> <=> Len(q) = 0
  OBVIOUS

\* Taking the first request keeps the chain, and moves the next pin to its new one.
LEMMA TailKeepsChain ==
    ASSUME NEW q \in Seq(Request), q # <<>>, NEW a, NEW pin,
           AboutAddress(q, a), Linked(q), EndsIn(q, pin)
    PROVE  /\ AboutAddress(Tail(q), a)
           /\ Linked(Tail(q))
           /\ EndsIn(Tail(q), pin)
           /\ Settled(Tail(q), 1) <=> Settled(q, 2)
           /\ Settled(q, 2) => /\ q[1].addr = a
                               /\ NextPin(Tail(q), pin) = q[1].new
  <1> DEFINE t == Tail(q)
  <1>1. /\ t \in Seq(Request)
        /\ Len(q) \in Nat \ {0}
        /\ Len(t) = Len(q) - 1
        /\ \A i \in 1..Len(q) - 1 : t[i] = q[i + 1]
    BY TailFacts
  <1>2. t = <<>> <=> Len(t) = 0
    BY <1>1, EmptyFacts
  <1> HIDE DEF t
  <1>3. \A i \in 1..Len(q) : Settled(t, i) <=> Settled(q, i + 1)
    <2> SUFFICES ASSUME NEW i \in 1..Len(q)
                 PROVE  Settled(t, i) <=> Settled(q, i + 1)
      OBVIOUS
    <2>1. ASSUME Settled(t, i) PROVE Settled(q, i + 1)
      <3> SUFFICES ASSUME NEW j \in (i + 1)..Len(q) PROVE q[j].op # "add"
        BY DEF Settled
      <3>1. j - 1 \in i..Len(t) /\ j - 1 \in 1..Len(q) - 1 /\ (j - 1) + 1 = j
        BY <1>1
      <3>2. t[j - 1] = q[j]
        BY <1>1, <3>1
      <3> QED BY <2>1, <3>1, <3>2 DEF Settled
    <2>2. ASSUME Settled(q, i + 1) PROVE Settled(t, i)
      <3> SUFFICES ASSUME NEW j \in i..Len(t) PROVE t[j].op # "add"
        BY DEF Settled
      <3>1. j + 1 \in (i + 1)..Len(q) /\ j \in 1..Len(q) - 1
        BY <1>1
      <3> QED BY <1>1, <2>2, <3>1 DEF Settled
    <2> QED BY <2>1, <2>2
  <1>4. AboutAddress(t, a)
    <2> SUFFICES ASSUME NEW i \in 1..Len(t), Settled(t, i + 1)
                 PROVE  t[i].addr = a
      BY DEF AboutAddress
    <2>1. i + 1 \in 1..Len(q) /\ i \in 1..Len(q) - 1
      BY <1>1
    <2>2. Settled(q, (i + 1) + 1)
      BY <1>3, <2>1
    <2> QED BY <1>1, <2>1, <2>2 DEF AboutAddress
  <1>5. Linked(t)
    <2> SUFFICES ASSUME NEW i \in 2..Len(t), Settled(t, i)
                 PROVE  t[i].pin = t[i - 1].new
      BY DEF Linked
    <2>1. /\ i \in 1..Len(q) /\ i \in 1..Len(q) - 1 /\ i - 1 \in 1..Len(q) - 1
          /\ i + 1 \in 2..Len(q) /\ (i + 1) - 1 = i /\ (i - 1) + 1 = i
      BY <1>1
    <2>2. Settled(q, i + 1)
      BY <1>3, <2>1
    <2>3. q[i + 1].pin = q[i].new
      BY <2>1, <2>2 DEF Linked
    <2> QED BY <1>1, <2>1, <2>3
  <1>6. EndsIn(t, pin)
    <2> SUFFICES ASSUME t # <<>> PROVE t[Len(t)].new = pin
      BY DEF EndsIn
    <2>1. Len(t) \in 1..Len(q) - 1 /\ Len(t) + 1 = Len(q)
      BY <1>1, <1>2
    <2> QED BY <1>1, <2>1 DEF EndsIn
  <1>7. Settled(t, 1) <=> Settled(q, 2)
    BY <1>1, <1>3
  <1>8. ASSUME Settled(q, 2) PROVE q[1].addr = a
    BY <1>1, <1>8 DEF AboutAddress
  <1>9. ASSUME Settled(q, 2) PROVE NextPin(t, pin) = q[1].new
    <2>1. CASE Len(q) = 1
      BY <1>1, <1>2, <2>1 DEF NextPin, EndsIn
    <2>2. CASE Len(q) # 1
      <3>1. t # <<>> /\ 2 \in 2..Len(q) /\ 1 \in 1..Len(q) - 1
        BY <1>1, <1>2, <2>2
      <3>2. t[1] = q[2] /\ q[2].pin = q[2 - 1].new
        BY <1>1, <1>9, <3>1 DEF Linked
      <3> QED BY <3>1, <3>2 DEF NextPin
    <2> QED BY <2>1, <2>2
  <1> QED BY <1>4, <1>5, <1>6, <1>7, <1>8, <1>9 DEF t

\* A request sent after the others that shows the wallet's pin continues the chain.
LEMMA AppendKeepsChain ==
    ASSUME NEW q \in Seq(Request), NEW r \in Request, r.op # "add", NEW pin,
           AboutAddress(q, r.addr), Linked(q), EndsIn(q, pin), r.pin = pin
    PROVE  LET s == Append(q, r) IN
           /\ AboutAddress(s, r.addr)
           /\ Linked(s)
           /\ EndsIn(s, r.new)
           /\ Settled(s, 1) => Settled(q, 1)
           /\ NextPin(s, r.new) = NextPin(q, pin)
  <1> DEFINE s == Append(q, r)
  <1>1. /\ s # <<>>
        /\ Len(q) \in Nat
        /\ Len(s) = Len(q) + 1
        /\ \A i \in 1..Len(q) : s[i] = q[i]
        /\ s[Len(q) + 1] = r
    BY AppendFacts
  <1>2. q = <<>> <=> Len(q) = 0
    BY EmptyFacts
  <1> HIDE DEF s
  <1>3. \A i \in 1..(Len(q) + 1) : Settled(s, i) => Settled(q, i)
    BY <1>1 DEF Settled
  <1>4. AboutAddress(s, r.addr)
    <2> SUFFICES ASSUME NEW i \in 1..Len(s), Settled(s, i + 1)
                 PROVE  s[i].addr = r.addr
      BY DEF AboutAddress
    <2>1. CASE i = Len(q) + 1
      BY <1>1, <2>1
    <2>2. CASE i # Len(q) + 1
      <3>1. i \in 1..Len(q) /\ i + 1 \in 1..(Len(q) + 1)
        BY <1>1, <2>2
      <3> QED BY <1>1, <1>3, <3>1 DEF AboutAddress
    <2> QED BY <2>1, <2>2
  <1>5. Linked(s)
    <2> SUFFICES ASSUME NEW i \in 2..Len(s), Settled(s, i)
                 PROVE  s[i].pin = s[i - 1].new
      BY DEF Linked
    <2>1. CASE i = Len(q) + 1
      <3>1. q # <<>> /\ i - 1 = Len(q) /\ Len(q) \in 1..Len(q)
        BY <1>1, <1>2, <2>1
      <3>2. s[i - 1].new = pin
        BY <1>1, <3>1 DEF EndsIn
      <3> QED BY <1>1, <2>1, <3>2
    <2>2. CASE i # Len(q) + 1
      <3>1. i \in 2..Len(q) /\ i - 1 \in 1..Len(q) /\ i \in 1..Len(q) + 1 /\ i \in 1..Len(q)
        BY <1>1, <2>2
      <3>2. s[i] = q[i] /\ s[i - 1] = q[i - 1] /\ Settled(q, i)
        BY <1>1, <1>3, <3>1
      <3> QED BY <3>1, <3>2 DEF Linked
    <2> QED BY <2>1, <2>2
  <1>6. EndsIn(s, r.new)
    BY <1>1 DEF EndsIn
  <1>7. Settled(s, 1) => Settled(q, 1)
    BY <1>1, <1>3
  <1>8. NextPin(s, r.new) = NextPin(q, pin)
    BY <1>1, <1>2 DEF NextPin
  <1> QED BY <1>4, <1>5, <1>6, <1>7, <1>8 DEF s

\* A registration sent after the others starts a new chain.
LEMMA AddStartsChain ==
    ASSUME NEW q \in Seq(Request), NEW r \in Request, r.op = "add"
    PROVE  LET s == Append(q, r) IN
           /\ AboutAddress(s, r.addr)
           /\ Linked(s)
           /\ EndsIn(s, r.new)
           /\ ~Settled(s, 1)
  <1> DEFINE s == Append(q, r)
  <1>1. /\ s # <<>>
        /\ Len(q) \in Nat
        /\ Len(s) = Len(q) + 1
        /\ s[Len(q) + 1] = r
    BY AppendFacts
  <1> HIDE DEF s
  <1>2. \A i \in 1..Len(s) : ~Settled(s, i)
    BY <1>1 DEF Settled
  <1>3. AboutAddress(s, r.addr)
    <2> SUFFICES ASSUME NEW i \in 1..Len(s), Settled(s, i + 1)
                 PROVE  s[i].addr = r.addr
      BY DEF AboutAddress
    <2>1. i = Len(q) + 1
      BY <1>1, <1>2
    <2> QED BY <1>1, <2>1
  <1>4. Linked(s)
    BY <1>1, <1>2 DEF Linked
  <1>5. EndsIn(s, r.new) /\ ~Settled(s, 1)
    BY <1>1, <1>2 DEF EndsIn
  <1> QED BY <1>3, <1>4, <1>5 DEF s

---------------------------------------------------------------------------
(* The invariant.                                                          *)

\* What a menu command leaves in the queue of its wallet.
LEMMA SendFacts ==
    ASSUME TypeOK, OnlyUpdatesChange,
           NEW w \in Wallets, NEW op \in Op, NEW pin \in Pins, NEW new \in Pins,
           op # "update" => pin = new, Send(w, op, pin, new)
    PROVE  LET r == [op |-> op, addr |-> loaded[w], pin |-> pin, new |-> new] IN
           /\ r \in Request
           /\ up[w] \in Seq(Request)
           /\ up' \in [Wallets -> Seq(Request)]
           /\ up'[w] = Append(up[w], r)
           /\ \A v \in Wallets \ {w} : up'[v] = up[v]
           /\ sent' \in 0..MaxSent
           /\ UNCHANGED <<loaded, shown, hub, down>>
           /\ OnlyUpdatesChange'
  <1> DEFINE r == [op |-> op, addr |-> loaded[w], pin |-> pin, new |-> new]
  <1>1. r \in Request /\ up[w] \in Seq(Request) /\ r.pin = pin /\ r.new = new /\ r.op = op
    BY DEF TypeOK, Request
  <1>2. sent' \in 0..MaxSent
    BY BoundAssumption DEF TypeOK, Send
  <1>3. /\ up' = [up EXCEPT ![w] = Append(up[w], r)]
        /\ UNCHANGED <<loaded, shown, hub, down>>
    BY DEF Send
  <1> HIDE DEF r
  <1>4. /\ Append(up[w], r) \in Seq(Request)
        /\ Len(up[w]) \in Nat
        /\ Len(Append(up[w], r)) = Len(up[w]) + 1
        /\ \A i \in 1..Len(up[w]) : Append(up[w], r)[i] = up[w][i]
        /\ Append(up[w], r)[Len(up[w]) + 1] = r
    BY <1>1, AppendFacts
  <1>5. /\ up' \in [Wallets -> Seq(Request)]
        /\ up'[w] = Append(up[w], r)
        /\ \A v \in Wallets \ {w} : up'[v] = up[v]
    BY <1>3, <1>4 DEF TypeOK
  <1>6. OnlyUpdatesChange'
    <2> SUFFICES ASSUME NEW v \in Wallets, NEW i \in 1..Len(up'[v]),
                        up'[v][i].op # "update"
                 PROVE  up'[v][i].pin = up'[v][i].new
      BY DEF OnlyUpdatesChange
    <2>1. CASE v # w
      BY <1>5, <2>1 DEF OnlyUpdatesChange
    <2>2. CASE v = w /\ i = Len(up[w]) + 1
      BY <1>1, <1>4, <1>5, <2>2
    <2>3. CASE v = w /\ i # Len(up[w]) + 1
      <3>1. i \in 1..Len(up[w])
        BY <1>4, <1>5, <2>3
      <3> QED BY <1>4, <1>5, <2>3, <3>1 DEF OnlyUpdatesChange
    <2> QED BY <2>1, <2>2, <2>3
  <1> QED BY <1>1, <1>2, <1>3, <1>5, <1>6 DEF r

\* What the hub, or the air, leaves of a queue.
LEMMA TakeFacts ==
    ASSUME TypeOK, OnlyUpdatesChange, NEW w \in Wallets, up[w] # <<>>,
           up' = [up EXCEPT ![w] = Tail(@)]
    PROVE  /\ up' \in [Wallets -> Seq(Request)]
           /\ up[w] \in Seq(Request)
           /\ up'[w] = Tail(up[w])
           /\ \A v \in Wallets \ {w} : up'[v] = up[v]
           /\ Head(up[w]) \in Request
           /\ Head(up[w]) = up[w][1]
           /\ Head(up[w]).op # "update" => Head(up[w]).pin = Head(up[w]).new
           /\ OnlyUpdatesChange'
  <1>1. /\ up[w] \in Seq(Request)
        /\ Tail(up[w]) \in Seq(Request)
        /\ Head(up[w]) \in Request
        /\ Head(up[w]) = up[w][1]
        /\ Len(up[w]) \in Nat \ {0}
        /\ Len(Tail(up[w])) = Len(up[w]) - 1
        /\ \A i \in 1..Len(up[w]) - 1 : Tail(up[w])[i] = up[w][i + 1]
    BY TailFacts DEF TypeOK
  <1>2. /\ up' \in [Wallets -> Seq(Request)]
        /\ up'[w] = Tail(up[w])
        /\ \A v \in Wallets \ {w} : up'[v] = up[v]
    BY <1>1 DEF TypeOK
  <1>3. OnlyUpdatesChange'
    <2> SUFFICES ASSUME NEW v \in Wallets, NEW i \in 1..Len(up'[v]),
                        up'[v][i].op # "update"
                 PROVE  up'[v][i].pin = up'[v][i].new
      BY DEF OnlyUpdatesChange
    <2>1. CASE v # w
      BY <1>2, <2>1 DEF OnlyUpdatesChange
    <2>2. CASE v = w
      <3>1. i \in 1..Len(up[w]) - 1 /\ i + 1 \in 1..Len(up[w])
        BY <1>1, <1>2, <2>2
      <3> QED BY <1>1, <1>2, <2>2, <3>1 DEF OnlyUpdatesChange
    <2> QED BY <2>1, <2>2
  <1>4. 1 \in 1..Len(up[w])
    BY <1>1
  <1>5. Head(up[w]).op # "update" => Head(up[w]).pin = Head(up[w]).new
    BY <1>1, <1>4 DEF OnlyUpdatesChange
  <1> QED BY <1>1, <1>2, <1>3, <1>5

\* An answer put behind the others.
LEMMA ReplyFacts ==
    ASSUME TypeOK, NEW w \in Wallets, NEW r \in Answer, Reply(w, r)
    PROVE  down' \in [Wallets -> Seq(Answer)]
  <1>1. Append(down[w], r) \in Seq(Answer)
    BY AppendFacts DEF TypeOK
  <1> QED BY <1>1 DEF TypeOK, Reply

\* The answers of the hub have the type of answers.
LEMMA AnswerFacts ==
    /\ \A ok \in BOOLEAN, code \in Code : Result(ok, code) \in Answer
    /\ \A pin \in Pins, sure \in BOOLEAN :
         ObfuscateDogeCoinBalance(pin, sure) \in Answer
  BY DEF Result, ObfuscateDogeCoinBalance, Answer

\* A wallet whose pin, requests and own entry do not change keeps its chain.
LEMMA ChainUnchanged ==
    ASSUME NEW v \in Wallets, Chain(v), ~unsure[v]' => ~unsure[v],
           loaded'[v] = loaded[v], userPin'[v] = userPin[v], up'[v] = up[v],
           ~unsure'[v] /\ Registered(v)' =>
             Registered(v) /\ book'[loaded[v]].pin = book[loaded[v]].pin
    PROVE  Chain(v)'
  BY DEF Chain

\* A menu command keeps the invariant: it continues the chain, starts one, or
\* makes the wallet unsure.
LEMMA MenuKeeps ==
    ASSUME IInv, NEW w \in Wallets, Menu(w)
    PROVE  IInv'
  <1> USE DEF IInv
  <1>0. /\ userPin[w] \in Pins /\ loaded[w] \in Addresses
        /\ {"add", "remove", "update", "balance"} = Op
        /\ up[w] \in Seq(Request)
    BY DEF TypeOK, Op
  <1>1. ASSUME NEW pin \in Pins, SetUserPin(w, pin)
        PROVE  /\ userPin' \in [Wallets -> Pins] /\ userPin'[w] = pin
               /\ \A v \in Wallets \ {w} : userPin'[v] = userPin[v]
               /\ moved' \in [Wallets -> BOOLEAN]
    <2>1. BalanceOut(w) \in BOOLEAN
      BY DEF BalanceOut
    <2> QED BY <1>1, <2>1 DEF TypeOK, SetUserPin
  <1>2. ASSUME NEW op \in Op, op # "add", NEW pin \in Pins, op # "update" => pin = userPin[w],
               Send(w, op, userPin[w], pin), userPin'[w] = pin,
               userPin' \in [Wallets -> Pins],
               \A v \in Wallets \ {w} : userPin'[v] = userPin[v],
               moved' \in [Wallets -> BOOLEAN], unsure' = unsure
        PROVE  IInv'
    <2> DEFINE r == [op |-> op, addr |-> loaded[w], pin |-> userPin[w], new |-> pin]
    <2>1. /\ r \in Request
          /\ up' \in [Wallets -> Seq(Request)]
          /\ up'[w] = Append(up[w], r)
          /\ \A v \in Wallets \ {w} : up'[v] = up[v]
          /\ sent' \in 0..MaxSent
          /\ UNCHANGED <<loaded, shown, hub, down>>
          /\ OnlyUpdatesChange'
      BY <1>0, <1>2, SendFacts
    <2>2. TypeOK'
      BY <1>2, <2>1 DEF TypeOK, hub
    <2>3. r.op # "add" /\ r.addr = loaded[w] /\ r.pin = userPin[w] /\ r.new = pin
      BY <1>2
    <2> HIDE DEF r
    <2>4. ASSUME NEW v \in Wallets PROVE Chain(v)'
      <3>1. CASE v # w
        BY <1>2, <2>1, <3>1, ChainUnchanged DEF PinChain, hub, Registered
      <3>2. CASE v = w
        <4> SUFFICES ASSUME ~unsure[w]' PROVE Chain(w)'
          BY <3>2 DEF Chain
        <4>1. /\ AboutAddress(up[w], r.addr)
              /\ Linked(up[w])
              /\ EndsIn(up[w], userPin[w])
          BY <1>2, <2>3 DEF PinChain, Chain
        <4>2. /\ AboutAddress(up'[w], loaded[w])
              /\ Linked(up'[w])
              /\ EndsIn(up'[w], pin)
              /\ Settled(up'[w], 1) => Settled(up[w], 1)
              /\ NextPin(up'[w], pin) = NextPin(up[w], userPin[w])
          BY <1>0, <2>1, <2>3, <4>1, AppendKeepsChain
        <4>3. Registered(w)' => Registered(w)
          BY <2>1 DEF Registered, hub
        <4> QED BY <1>2, <2>1, <4>2, <4>3 DEF PinChain, Chain, hub
      <3> QED BY <3>1, <3>2
    <2> QED BY <2>1, <2>2, <2>4 DEF PinChain
  <1>3. CASE RequestBalance(w)
    <2>1. /\ userPin' = userPin /\ unsure' = unsure /\ Send(w, "balance", userPin[w], userPin[w])
          /\ moved' \in [Wallets -> BOOLEAN]
      BY <1>3 DEF RequestBalance, TypeOK, BalanceOut
    <2>2. userPin' \in [Wallets -> Pins] /\ "balance" \in Op
      BY <2>1 DEF TypeOK, Op
    <2> QED BY <1>0, <1>2, <2>1, <2>2
  <1>4. CASE RemoveRegistration(w)
    <2>1. /\ userPin' = userPin /\ unsure' = unsure /\ Send(w, "remove", userPin[w], userPin[w])
          /\ moved' = moved
      BY <1>4 DEF RemoveRegistration
    <2>2. userPin' \in [Wallets -> Pins] /\ moved' \in [Wallets -> BOOLEAN] /\ "remove" \in Op
      BY <2>1 DEF TypeOK, Op
    <2> QED BY <1>0, <1>2, <2>1, <2>2
  <1>5. CASE updateRegisteredPin(w)
    <2>1. PICK pin \in Pins : /\ Send(w, "update", userPin[w], pin)
                              /\ SetUserPin(w, pin) /\ unsure' = unsure
      BY <1>5 DEF updateRegisteredPin
    <2>2. "update" \in Op
      BY DEF Op
    <2> QED BY <1>1, <1>2, <2>1, <2>2
  <1>6. CASE RegisterAddress(w)
    <2>1. PICK pin \in Pins : /\ Send(w, "add", pin, pin) /\ SetUserPin(w, pin)
                              /\ unsure' = [unsure EXCEPT ![w] = FALSE]
      BY <1>6 DEF RegisterAddress
    <2> DEFINE r == [op |-> "add", addr |-> loaded[w], pin |-> pin, new |-> pin]
    <2>2. /\ r \in Request
          /\ up' \in [Wallets -> Seq(Request)]
          /\ up'[w] = Append(up[w], r)
          /\ \A v \in Wallets \ {w} : up'[v] = up[v]
          /\ sent' \in 0..MaxSent
          /\ UNCHANGED <<loaded, shown, hub, down>>
          /\ OnlyUpdatesChange'
      BY <1>0, <2>1, SendFacts
    <2>3. TypeOK'
      BY <1>1, <2>1, <2>2 DEF TypeOK, hub
    <2>4. r.op = "add" /\ r.addr = loaded[w] /\ r.new = pin
      OBVIOUS
    <2> HIDE DEF r
    <2>5. ASSUME NEW v \in Wallets PROVE Chain(v)'
      <3>1. CASE v # w
        <4>1. unsure'[v] = unsure[v] /\ userPin'[v] = userPin[v]
          BY <1>1, <2>1, <3>1 DEF TypeOK
        <4> QED BY <2>2, <3>1, <4>1, ChainUnchanged DEF PinChain, hub, Registered
      <3>2. CASE v = w
        <4>1. /\ AboutAddress(up'[w], loaded[w])
              /\ Linked(up'[w])
              /\ EndsIn(up'[w], pin)
              /\ ~Settled(up'[w], 1)
          BY <1>0, <2>2, <2>4, AddStartsChain
        <4> QED BY <1>1, <2>1, <2>2, <3>2, <4>1 DEF Chain
      <3> QED BY <3>1, <3>2
    <2> QED BY <2>2, <2>3, <2>5 DEF PinChain
  <1>7. CASE SetPin(w)
    <2>1. PICK pin \in Pins : /\ SetUserPin(w, pin)
                              /\ unsure' = [unsure EXCEPT ![w] = TRUE]
                              /\ UNCHANGED <<loaded, shown, hub, link>>
      BY <1>7 DEF SetPin
    <2>2. TypeOK' /\ OnlyUpdatesChange'
      BY <1>1, <2>1 DEF TypeOK, OnlyUpdatesChange, hub, link
    <2>3. ASSUME NEW v \in Wallets PROVE Chain(v)'
      <3>1. CASE v # w
        <4>1. unsure'[v] = unsure[v] /\ userPin'[v] = userPin[v]
          BY <1>1, <2>1, <3>1 DEF TypeOK
        <4> QED BY <2>1, <3>1, <4>1, ChainUnchanged DEF PinChain, hub, link, Registered
      <3>2. CASE v = w
        BY <2>1, <3>2 DEF Chain, TypeOK
      <3> QED BY <3>1, <3>2
    <2> QED BY <2>2, <2>3 DEF PinChain
  <1>8. CASE LoadAddress(w)
    <2>1. /\ loaded' \in [Wallets -> Addresses]
          /\ \A v \in Wallets \ {w} : loaded'[v] = loaded[v]
          /\ unsure' = [unsure EXCEPT ![w] = TRUE]
          /\ UNCHANGED <<userPin, shown, hub, link, moved>>
      BY <1>8 DEF LoadAddress, TypeOK
    <2>2. TypeOK' /\ OnlyUpdatesChange'
      BY <2>1 DEF TypeOK, OnlyUpdatesChange, hub, link
    <2>3. ASSUME NEW v \in Wallets PROVE Chain(v)'
      <3>1. CASE v # w
        <4>1. unsure'[v] = unsure[v]
          BY <2>1, <3>1 DEF TypeOK
        <4> QED BY <2>1, <3>1, <4>1, ChainUnchanged DEF PinChain, hub, link, Registered
      <3>2. CASE v = w
        BY <2>1, <3>2 DEF Chain, TypeOK
      <3> QED BY <3>1, <3>2
    <2> QED BY <2>2, <2>3 DEF PinChain
  <1> QED BY <1>3, <1>4, <1>5, <1>6, <1>7, <1>8 DEF Menu

\* When the chain holds, the request the hub takes next shows the pin in its book.
LEMMA HeadShowsBookPin ==
    ASSUME NEW w \in Wallets, up[w] \in Seq(Request), up[w] # <<>>, Chain(w), ~unsure[w],
           Registered(w), Settled(up[w], 2), Head(up[w]).op # "add"
    PROVE  book[loaded[w]].pin = Head(up[w]).pin
  <1>1. Head(up[w]) = up[w][1] /\ Len(up[w]) \in Nat \ {0}
    BY TailFacts
  <1>2. Settled(up[w], 1)
    BY <1>1 DEF Settled
  <1> QED BY <1>1, <1>2 DEF Chain, NextPin

\* A request taken from the queue leaves the chain whole if the book then has
\* the pin that the request leads to.
LEMMA TakeKeepsChain ==
    ASSUME NEW w \in Wallets, up[w] \in Seq(Request), up[w] # <<>>, Chain(w),
           up'[w] = Tail(up[w]), loaded'[w] = loaded[w], userPin'[w] = userPin[w],
           ~unsure'[w] => ~unsure[w],
           (~unsure'[w] /\ Registered(w)' /\ Settled(up[w], 2)
              /\ Head(up[w]).addr = loaded[w])
             => book'[loaded[w]].pin = Head(up[w]).new
    PROVE  Chain(w)'
  <1> SUFFICES ASSUME ~unsure'[w] PROVE Chain(w)'
    BY DEF Chain
  <1>1. /\ AboutAddress(up[w], loaded[w])
        /\ Linked(up[w])
        /\ EndsIn(up[w], userPin[w])
    BY DEF Chain
  <1>2. /\ AboutAddress(up'[w], loaded[w])
        /\ Linked(up'[w])
        /\ EndsIn(up'[w], userPin[w])
        /\ Settled(up'[w], 1) <=> Settled(up[w], 2)
        /\ Settled(up[w], 2) => /\ up[w][1].addr = loaded[w]
                                /\ NextPin(up'[w], userPin[w]) = up[w][1].new
    BY <1>1, TailKeepsChain
  <1>3. Head(up[w]) = up[w][1]
    BY TailFacts
  <1> QED BY <1>2, <1>3 DEF Chain

\* What every answer of the hub does.
LEMMA ReceiveFacts ==
    ASSUME IInv, NEW w \in Wallets, NEW op, Receive(w, op)
    PROVE  /\ up[w] # <<>> /\ up[w] \in Seq(Request)
           /\ up' \in [Wallets -> Seq(Request)]
           /\ up'[w] = Tail(up[w])
           /\ \A v \in Wallets \ {w} : up'[v] = up[v]
           /\ Head(up[w]) \in Request /\ Head(up[w]).op = op
           /\ op # "update" => Head(up[w]).pin = Head(up[w]).new
           /\ UNCHANGED <<loaded, userPin, shown, sent, moved>>
           /\ OnlyUpdatesChange'
  BY TakeFacts DEF IInv, Receive, wallet

\* A registration that is accepted starts the owner's entry with the pin of its
\* request; one that is refused leaves the wallet unsure.
LEMMA AddKeeps ==
    ASSUME IInv, NEW w \in Wallets, AddRegistration(w)
    PROVE  IInv'
  <1> USE DEF IInv
  <1> DEFINE r == Head(up[w])
  <1>1. Receive(w, "add")
    BY DEF AddRegistration
  <1>2. /\ up[w] # <<>> /\ up[w] \in Seq(Request)
        /\ up' \in [Wallets -> Seq(Request)]
        /\ up'[w] = Tail(up[w])
        /\ \A v \in Wallets \ {w} : up'[v] = up[v]
        /\ r \in Request /\ r.pin = r.new
        /\ UNCHANGED <<loaded, userPin, shown, sent, moved>>
        /\ OnlyUpdatesChange'
    BY <1>1, ReceiveFacts
  <1>3. r.addr \in Addresses /\ r.pin \in Pins
    BY <1>2 DEF Request
  <1>4. Result(TRUE, "Success") \in Answer /\ Result(TRUE, "WatchlistFailure") \in Answer
        /\ Result(FALSE, "AlreadyRegistered") \in Answer
    BY AnswerFacts DEF Code
  <1>5. CASE book[r.addr] = NoEntry
    <2>1. /\ book' = [book EXCEPT ![r.addr] = [owner |-> w, pin |-> r.pin]]
          /\ unsure' = unsure
          /\ watched' \in {watched, watched \cup {r.addr}}
          /\ torn' \in {torn \ {r.addr}, torn \cup {r.addr}}
      BY <1>5 DEF AddRegistration
    <2>2. Reply(w, Result(TRUE, "Success")) \/ Reply(w, Result(TRUE, "WatchlistFailure"))
      BY <1>5 DEF AddRegistration
    <2>3. down' \in [Wallets -> Seq(Answer)]
      BY <1>4, <2>2, ReplyFacts
    <2>4. [owner |-> w, pin |-> r.pin] \in Entry
      BY <1>3 DEF Entry
    <2>5. TypeOK'
      BY <1>2, <1>3, <2>1, <2>3, <2>4 DEF TypeOK
    <2>6. [owner |-> w, pin |-> r.pin] # NoEntry
      BY <2>4, NoEntryAssumption DEF Entry
    <2>7. ASSUME NEW v \in Wallets PROVE Chain(v)'
      <3>1. CASE v # w
        <4>1. Registered(v)' => Registered(v) /\ book'[loaded[v]].pin = book[loaded[v]].pin
          BY <1>2, <1>3, <2>1, <3>1 DEF Registered, TypeOK
        <4> QED BY <1>2, <2>1, <3>1, <4>1, ChainUnchanged DEF PinChain
      <3>2. CASE v = w
        <4>1. r.addr = loaded[w] => book'[loaded[w]].pin = r.new
          BY <1>2, <1>3, <2>1 DEF TypeOK
        <4>2. /\ Chain(w) /\ (~unsure'[w] => ~unsure[w])
              /\ loaded'[w] = loaded[w] /\ userPin'[w] = userPin[w]
          BY <1>2, <2>1 DEF PinChain
        <4>3. Chain(w)'
          BY <1>2, <4>1, <4>2, TakeKeepsChain
        <4> QED BY <3>2, <4>3
      <3> QED BY <3>1, <3>2
    <2> QED BY <1>2, <2>5, <2>7 DEF PinChain
  <1>6. CASE book[r.addr] # NoEntry
    <2>1. /\ Reply(w, Result(FALSE, "AlreadyRegistered")) /\ UNCHANGED hub
          /\ unsure' = [unsure EXCEPT ![w] = TRUE]
      BY <1>6 DEF AddRegistration, Refuse
    <2>2. down' \in [Wallets -> Seq(Answer)]
      BY <1>4, <2>1, ReplyFacts
    <2>3. TypeOK'
      BY <1>2, <2>1, <2>2 DEF TypeOK, hub
    <2>4. ASSUME NEW v \in Wallets PROVE Chain(v)'
      <3>1. CASE v # w
        <4>1. unsure'[v] = unsure[v]
          BY <2>1, <3>1 DEF TypeOK
        <4> QED BY <1>2, <2>1, <3>1, <4>1, ChainUnchanged DEF PinChain, hub, Registered
      <3>2. CASE v = w
        BY <2>1, <3>2 DEF Chain, TypeOK
      <3> QED BY <3>1, <3>2
    <2> QED BY <1>2, <2>3, <2>4 DEF PinChain
  <1> QED BY <1>5, <1>6

\* A refused request of a wallet that is sure is not about an entry of its own.
LEMMA RefuseKeeps ==
    ASSUME IInv, NEW w \in Wallets, NEW op, op # "add", Receive(w, op),
           NEW code \in Code, Refuse(w, code), unsure' = unsure,
           \/ book[Head(up[w]).addr] = NoEntry
           \/ book[Head(up[w]).addr].pin # Head(up[w]).pin
    PROVE  IInv'
  <1> USE DEF IInv
  <1> DEFINE r == Head(up[w])
  <1>1. /\ up[w] # <<>> /\ up[w] \in Seq(Request)
        /\ up' \in [Wallets -> Seq(Request)]
        /\ up'[w] = Tail(up[w])
        /\ \A v \in Wallets \ {w} : up'[v] = up[v]
        /\ r.op = op
        /\ UNCHANGED <<loaded, userPin, shown, sent, moved>>
        /\ OnlyUpdatesChange'
    BY ReceiveFacts
  <1>2. Reply(w, Result(FALSE, code)) /\ UNCHANGED hub
    BY DEF Refuse
  <1>3. down' \in [Wallets -> Seq(Answer)]
    BY <1>2, AnswerFacts, ReplyFacts
  <1>4. TypeOK'
    BY <1>1, <1>2, <1>3 DEF TypeOK, hub
  <1>5. ASSUME NEW v \in Wallets PROVE Chain(v)'
    <2>1. CASE v # w
      BY <1>1, <1>2, <2>1, ChainUnchanged DEF PinChain, hub, Registered
    <2>2. CASE v = w
      <3>1. Registered(w)' <=> Registered(w)
        BY <1>1, <1>2 DEF Registered, hub
      <3>2. Chain(w)
        BY DEF PinChain
      <3>3. ~(~unsure[w] /\ Registered(w) /\ Settled(up[w], 2) /\ r.addr = loaded[w])
        BY <1>1, <3>2, HeadShowsBookPin DEF Registered
      <3>4. /\ ~unsure'[w] => ~unsure[w]
            /\ loaded'[w] = loaded[w] /\ userPin'[w] = userPin[w]
        BY <1>1
      <3>5. ~(~unsure'[w] /\ Registered(w)' /\ Settled(up[w], 2) /\ r.addr = loaded[w])
        BY <3>1, <3>3, <3>4
      <3>6. Chain(w)'
        BY <1>1, <3>2, <3>4, <3>5, TakeKeepsChain
      <3> QED BY <2>2, <3>6
    <2> QED BY <2>1, <2>2
  <1> QED BY <1>1, <1>4, <1>5 DEF PinChain

\* A removal takes an entry away, and so no wallet can have lost its pin.
LEMMA RemoveKeeps ==
    ASSUME IInv, NEW w \in Wallets, RemoveRequested(w)
    PROVE  IInv'
  <1> USE DEF IInv
  <1> DEFINE r == Head(up[w])
  <1>1. Receive(w, "remove") /\ unsure' = unsure
    BY DEF RemoveRequested
  <1>2. /\ up[w] # <<>> /\ up[w] \in Seq(Request)
        /\ up' \in [Wallets -> Seq(Request)]
        /\ up'[w] = Tail(up[w])
        /\ \A v \in Wallets \ {w} : up'[v] = up[v]
        /\ r \in Request
        /\ UNCHANGED <<loaded, userPin, shown, sent, moved>>
        /\ OnlyUpdatesChange'
    BY <1>1, ReceiveFacts
  <1>3. r.addr \in Addresses /\ {"NotRegistered", "InvalidPin"} \subseteq Code
    BY <1>2 DEF Request, Code
  <1>4. CASE book[r.addr] = NoEntry
    <2>1. Refuse(w, "NotRegistered")
      BY <1>4 DEF RemoveRequested
    <2> QED BY <1>1, <1>3, <1>4, <2>1, RefuseKeeps
  <1>5. CASE book[r.addr] # NoEntry /\ book[r.addr].pin # r.pin
    <2>1. Refuse(w, "InvalidPin")
      BY <1>5 DEF RemoveRequested
    <2> QED BY <1>1, <1>3, <1>5, <2>1, RefuseKeeps
  <1>6. CASE book[r.addr] # NoEntry /\ book[r.addr].pin = r.pin
    <2>1. RemoveEntry(w, r.addr)
      BY <1>6 DEF RemoveRequested
    <2>2. /\ book' = [book EXCEPT ![r.addr] = NoEntry]
          /\ watched' \in {watched, watched \ {r.addr}}
          /\ torn' \in {torn \ {r.addr}, torn \cup {r.addr}}
          /\ Reply(w, Result(TRUE, "Success")) \/ Reply(w, Result(TRUE, "WatchlistFailure"))
      BY <2>1 DEF RemoveEntry
    <2>3. down' \in [Wallets -> Seq(Answer)]
      BY <2>2, AnswerFacts, ReplyFacts DEF Code
    <2>4. TypeOK'
      BY <1>1, <1>2, <1>3, <2>2, <2>3 DEF TypeOK
    <2>5. ASSUME NEW v \in Wallets PROVE Chain(v)'
      <3>1. Registered(v)' => /\ Registered(v) /\ loaded[v] # r.addr
                              /\ book'[loaded[v]].pin = book[loaded[v]].pin
        BY <1>2, <1>3, <2>2 DEF Registered, TypeOK
      <3>2. CASE v # w
        BY <1>1, <1>2, <3>1, <3>2, ChainUnchanged DEF PinChain
      <3>3. CASE v = w
        <4>1. Chain(w) /\ (~unsure'[w] => ~unsure[w])
              /\ loaded'[w] = loaded[w] /\ userPin'[w] = userPin[w]
          BY <1>1, <1>2 DEF PinChain
        <4>2. ~(Registered(w)' /\ r.addr = loaded[w])
          BY <3>1, <3>3
        <4>3. Chain(w)'
          BY <1>2, <4>1, <4>2, TakeKeepsChain
        <4> QED BY <3>3, <4>3
      <3> QED BY <3>2, <3>3
    <2> QED BY <1>2, <2>4, <2>5 DEF PinChain
  <1> QED BY <1>4, <1>5, <1>6

\* An accepted update gives the entry the new pin; the owner's wallet becomes
\* unsure when the update was another's.
LEMMA UpdateKeeps ==
    ASSUME IInv, NEW w \in Wallets, UpdatePin(w)
    PROVE  IInv'
  <1> USE DEF IInv
  <1> DEFINE r == Head(up[w])
  <1>1. Receive(w, "update")
    BY DEF UpdatePin
  <1>2. /\ up[w] # <<>> /\ up[w] \in Seq(Request)
        /\ up' \in [Wallets -> Seq(Request)]
        /\ up'[w] = Tail(up[w])
        /\ \A v \in Wallets \ {w} : up'[v] = up[v]
        /\ r \in Request
        /\ UNCHANGED <<loaded, userPin, shown, sent, moved>>
        /\ OnlyUpdatesChange'
    BY <1>1, ReceiveFacts
  <1>3. r.addr \in Addresses /\ r.new \in Pins /\ {"NotRegistered", "InvalidPin"} \subseteq Code
    BY <1>2 DEF Request, Code
  <1>4. CASE book[r.addr] = NoEntry
    <2>1. Refuse(w, "NotRegistered") /\ unsure' = unsure
      BY <1>4 DEF UpdatePin
    <2> QED BY <1>1, <1>3, <1>4, <2>1, RefuseKeeps
  <1>5. CASE book[r.addr] # NoEntry /\ book[r.addr].pin # r.pin
    <2>1. Refuse(w, "InvalidPin") /\ unsure' = unsure
      BY <1>5 DEF UpdatePin
    <2> QED BY <1>1, <1>3, <1>5, <2>1, RefuseKeeps
  <1>6. CASE book[r.addr] # NoEntry /\ book[r.addr].pin = r.pin
    <2>1. /\ book' = [book EXCEPT ![r.addr].pin = r.new]
          /\ unsure' = [v \in Wallets |->
                          unsure[v] \/ (v = book[r.addr].owner /\ v # w)]
          /\ Reply(w, Result(TRUE, "Success"))
          /\ UNCHANGED <<watched, torn>>
      BY <1>6 DEF UpdatePin
    <2>2. down' \in [Wallets -> Seq(Answer)]
      BY <2>1, AnswerFacts, ReplyFacts DEF Code
    <2>3. book[r.addr] \in Entry
      BY <1>3, <1>6 DEF TypeOK
    <2>4. /\ book' \in [Addresses -> Entry \cup {NoEntry}]
          /\ \A a \in Addresses \ {r.addr} : book'[a] = book[a]
          /\ book'[r.addr].owner = book[r.addr].owner
          /\ book'[r.addr].pin = r.new
      BY <1>3, <2>1, <2>3 DEF TypeOK, Entry
    <2>5. unsure' \in [Wallets -> BOOLEAN]
      BY <2>1 DEF TypeOK
    <2>6. TypeOK'
      BY <1>2, <2>1, <2>2, <2>4, <2>5 DEF TypeOK
    <2>7. \A v \in Wallets : ~unsure'[v] => ~unsure[v]
      BY <2>1
    <2>8. ASSUME NEW v \in Wallets PROVE Chain(v)'
      <3>1. loaded[v] \in Addresses
        BY DEF TypeOK
      <3>2. CASE v # w
        <4>1. ~unsure'[v] /\ Registered(v)' => Registered(v) /\ book'[loaded[v]].pin = book[loaded[v]].pin
          BY <1>2, <1>6, <2>1, <2>4, <3>1, <3>2 DEF Registered
        <4>2. ~unsure'[v] => ~unsure[v]
          BY <2>7
        <4> QED BY <1>2, <3>2, <4>1, <4>2, ChainUnchanged DEF PinChain
      <3>3. CASE v = w
        <4>1. Chain(w) /\ (~unsure'[w] => ~unsure[w])
              /\ loaded'[w] = loaded[w] /\ userPin'[w] = userPin[w]
          BY <1>2, <2>7 DEF PinChain
        <4>2. r.addr = loaded[w] => book'[loaded[w]].pin = r.new
          BY <2>4
        <4>3. Chain(w)'
          BY <1>2, <4>1, <4>2, TakeKeepsChain
        <4> QED BY <3>3, <4>3
      <3> QED BY <3>2, <3>3
    <2> QED BY <1>2, <2>6, <2>8 DEF PinChain
  <1> QED BY <1>4, <1>5, <1>6

\* A request that sets no pin, answered or lost: the chain goes on behind it.
LEMMA PassingKeeps ==
    ASSUME IInv, NEW w \in Wallets, up[w] # <<>>, up' = [up EXCEPT ![w] = Tail(@)],
           Head(up[w]).op \in {"remove", "balance"},
           UNCHANGED <<wallet, hub, sent, unsure, moved, shown>>,
           down' \in [Wallets -> Seq(Answer)]
    PROVE  IInv'
  <1> USE DEF IInv
  <1> DEFINE r == Head(up[w])
  <1>1. /\ up[w] \in Seq(Request)
        /\ up' \in [Wallets -> Seq(Request)]
        /\ up'[w] = Tail(up[w])
        /\ \A v \in Wallets \ {w} : up'[v] = up[v]
        /\ r.pin = r.new
        /\ OnlyUpdatesChange'
    BY TakeFacts
  <1>2. TypeOK'
    BY <1>1 DEF TypeOK, wallet, hub
  <1>3. ASSUME NEW v \in Wallets PROVE Chain(v)'
    <2>1. Registered(v)' <=> Registered(v)
      BY DEF Registered, wallet, hub
    <2>2. CASE v # w
      BY <1>1, <2>1, <2>2, ChainUnchanged DEF PinChain, wallet, hub
    <2>3. CASE v = w
      <3>1. Chain(w) /\ (~unsure'[w] => ~unsure[w])
            /\ loaded'[w] = loaded[w] /\ userPin'[w] = userPin[w] /\ book' = book
        BY DEF PinChain, wallet, hub
      <3>2. ~unsure[w] /\ Registered(w) /\ Settled(up[w], 2) => book[loaded[w]].pin = r.pin
        BY <1>1, <3>1, HeadShowsBookPin
      <3>3. (~unsure'[w] /\ Registered(w)' /\ Settled(up[w], 2)) => book'[loaded[w]].pin = r.new
        BY <1>1, <2>1, <2>3, <3>1, <3>2
      <3>4. Chain(w)'
        BY <1>1, <3>1, <3>3, TakeKeepsChain
      <3> QED BY <2>3, <3>4
    <2> QED BY <2>2, <2>3
  <1> QED BY <1>1, <1>2, <1>3 DEF PinChain

\* A balance is answered from the book and changes nothing in it.
LEMMA BalanceKeeps ==
    ASSUME IInv, NEW w \in Wallets, ServiceBalanceRequest(w)
    PROVE  IInv'
  <1> DEFINE r == Head(up[w])
  <1> DEFINE sure == ~unsure[w] /\ r.addr = loaded[w] /\ Registered(w)
  <1>1. Receive(w, "balance") /\ UNCHANGED <<unsure, hub>>
    BY DEF ServiceBalanceRequest
  <1>2. r \in Request /\ TypeOK
    BY <1>1, ReceiveFacts DEF IInv
  <1>3. r.addr \in Addresses
    BY <1>2 DEF Request
  <1>4. down' \in [Wallets -> Seq(Answer)]
    <2>1. CASE book[r.addr] = NoEntry
      <3>1. Reply(w, Result(FALSE, "NotRegistered"))
        BY <2>1 DEF ServiceBalanceRequest
      <3> QED BY <1>2, <3>1, AnswerFacts, ReplyFacts DEF Code
    <2>2. CASE book[r.addr] # NoEntry
      <3>1. Reply(w, ObfuscateDogeCoinBalance(book[r.addr].pin, sure))
        BY <2>2 DEF ServiceBalanceRequest
      <3>2. book[r.addr].pin \in Pins
        BY <1>2, <1>3, <2>2 DEF TypeOK, Entry
      <3>3. sure \in BOOLEAN
        OBVIOUS
      <3>4. ObfuscateDogeCoinBalance(book[r.addr].pin, sure) \in Answer
        BY <3>2, <3>3, AnswerFacts
      <3> HIDE DEF sure
      <3> QED BY <1>2, <3>1, <3>4, ReplyFacts
    <2> QED BY <2>1, <2>2
  <1> QED BY <1>1, <1>4, PassingKeeps DEF Receive

\* A lost registration or update leaves its wallet unsure; any other loss is harmless.
LEMMA LossKeeps ==
    ASSUME IInv, NEW w \in Wallets, LoseRequest(w)
    PROVE  IInv'
  <1> USE DEF IInv
  <1>1. /\ up[w] # <<>> /\ up' = [up EXCEPT ![w] = Tail(@)]
        /\ unsure' = [unsure EXCEPT ![w] = unsure[w] \/ Head(up[w]).op \in {"add", "update"}]
        /\ UNCHANGED <<wallet, shown, hub, down, sent, moved>>
    BY DEF LoseRequest
  <1>2. /\ up' \in [Wallets -> Seq(Request)]
        /\ \A v \in Wallets \ {w} : up'[v] = up[v]
        /\ Head(up[w]) \in Request
        /\ OnlyUpdatesChange'
    BY <1>1, TakeFacts
  <1>3. CASE Head(up[w]).op \in {"add", "update"}
    <2>1. unsure' = [unsure EXCEPT ![w] = TRUE]
      BY <1>1, <1>3
    <2>2. TypeOK'
      BY <1>1, <1>2, <2>1 DEF TypeOK, wallet, hub
    <2>3. ASSUME NEW v \in Wallets PROVE Chain(v)'
      <3>1. CASE v # w
        <4>1. unsure'[v] = unsure[v]
          BY <2>1, <3>1 DEF TypeOK
        <4> QED BY <1>1, <1>2, <3>1, <4>1, ChainUnchanged DEF PinChain, wallet, hub, Registered
      <3>2. CASE v = w
        BY <2>1, <3>2 DEF Chain, TypeOK
      <3> QED BY <3>1, <3>2
    <2> QED BY <1>2, <2>2, <2>3 DEF PinChain
  <1>4. CASE Head(up[w]).op \notin {"add", "update"}
    <2>1. Head(up[w]).op \in {"remove", "balance"}
      BY <1>2, <1>4 DEF Request, Op
    <2>2. unsure' = unsure
      BY <1>1, <1>4 DEF TypeOK
    <2> QED BY <1>1, <2>1, <2>2, PassingKeeps DEF TypeOK
  <1> QED BY <1>3, <1>4

\* Answers change nothing but the screen of the wallet.
LEMMA AnswersKeep ==
    ASSUME IInv, NEW w \in Wallets,
           ResultReceived(w) \/ BalanceReceived(w) \/ LoseAnswer(w)
    PROVE  IInv'
  <1> USE DEF IInv
  <1>1. Take(w)
    BY DEF ResultReceived, BalanceReceived, LoseAnswer
  <1>2. /\ down[w] # <<>> /\ down' = [down EXCEPT ![w] = Tail(@)]
        /\ UNCHANGED <<wallet, hub, up, sent, unsure, moved>>
    BY <1>1 DEF Take
  <1>3. Tail(down[w]) \in Seq(Answer)
    BY <1>2, TailFacts DEF TypeOK
  <1>4. down' \in [Wallets -> Seq(Answer)]
    BY <1>2, <1>3 DEF TypeOK
  <1>5. shown' \in [Wallets -> {"nothing", "success", "failure", "balance", "garbled"}]
    BY DEF ResultReceived, BalanceReceived, LoseAnswer, TypeOK
  <1>6. TypeOK' /\ OnlyUpdatesChange'
    BY <1>2, <1>4, <1>5 DEF TypeOK, OnlyUpdatesChange, wallet, hub
  <1>7. ASSUME NEW v \in Wallets PROVE Chain(v)'
    BY <1>2, ChainUnchanged DEF PinChain, wallet, hub, Registered
  <1> QED BY <1>6, <1>7 DEF PinChain

\* After a restart no wallet has an entry that could have another pin.
LEMMA RestartKeeps ==
    ASSUME IInv, HubRestarts
    PROVE  IInv'
  <1> USE DEF IInv
  <1>1. /\ book' = [a \in Addresses |-> NoEntry]
        /\ torn' = torn \cup {a \in Addresses : book[a] # NoEntry}
        /\ UNCHANGED <<wallet, shown, watched, link, unsure, moved>>
    BY DEF HubRestarts
  <1>2. TypeOK' /\ OnlyUpdatesChange'
    BY <1>1 DEF TypeOK, OnlyUpdatesChange, wallet, link
  <1>3. ASSUME NEW v \in Wallets PROVE Chain(v)'
    <2>1. ~Registered(v)'
      BY <1>1 DEF Registered, TypeOK, wallet
    <2> QED BY <1>1, <2>1, ChainUnchanged DEF PinChain, wallet, link
  <1> QED BY <1>2, <1>3 DEF PinChain

\* Nothing is on its way and no wallet is sure of its pin.
LEMMA InitChain == Init => IInv
  <1> SUFFICES ASSUME Init PROVE IInv
    OBVIOUS
  <1>1. TypeOK
    BY PinAssumption, BoundAssumption DEF Init, TypeOK
  <1>2. OnlyUpdatesChange
    BY DEF Init, OnlyUpdatesChange
  <1>3. PinChain
    BY DEF Init, PinChain, Chain
  <1> QED BY <1>1, <1>2, <1>3 DEF IInv

\* Every step keeps the invariant.
LEMMA NextKeeps == IInv /\ [Next]_vars => IInv'
  <1> SUFFICES ASSUME IInv, [Next]_vars PROVE IInv'
    OBVIOUS
  <1>1. CASE HubRestarts
    BY <1>1, RestartKeeps
  <1>2. ASSUME NEW w \in Wallets, Menu(w) PROVE IInv'
    BY <1>2, MenuKeeps
  <1>3. ASSUME NEW w \in Wallets, Hub(w) PROVE IInv'
    BY <1>3, AddKeeps, RemoveKeeps, UpdateKeeps, BalanceKeeps DEF Hub
  <1>4. ASSUME NEW w \in Wallets,
               ResultReceived(w) \/ BalanceReceived(w) \/ LoseAnswer(w) \/ LoseRequest(w)
        PROVE  IInv'
    BY <1>4, AnswersKeep, LossKeeps
  <1>5. CASE UNCHANGED vars
    BY <1>5 DEF IInv, TypeOK, OnlyUpdatesChange, PinChain, Chain, Registered,
                vars, wallet, hub, link
  <1> QED BY <1>1, <1>2, <1>3, <1>4, <1>5 DEF Next

---------------------------------------------------------------------------
(* The book and the watch list.                                            *)

\* Nothing but the hub's own handlers and its restart touches book or list.
LEMMA HubUntouched ==
    ASSUME NEW w \in Wallets,
           \/ Menu(w) \/ ServiceBalanceRequest(w) \/ ResultReceived(w)
           \/ BalanceReceived(w) \/ LoseRequest(w) \/ LoseAnswer(w)
    PROVE  UNCHANGED hub
  <1>1. CASE Menu(w)
    BY <1>1 DEF Menu, RequestBalance, RegisterAddress, RemoveRegistration,
                updateRegisteredPin, SetPin, LoadAddress, Send
  <1>2. CASE ServiceBalanceRequest(w)
    BY <1>2 DEF ServiceBalanceRequest
  <1>3. CASE ResultReceived(w) \/ BalanceReceived(w) \/ LoseAnswer(w)
    BY <1>3 DEF ResultReceived, BalanceReceived, LoseAnswer, Take
  <1>4. CASE LoseRequest(w)
    BY <1>4 DEF LoseRequest
  <1> QED BY <1>1, <1>2, <1>3, <1>4

\* Whatever a handler does to the entry of one address, it does to the watch
\* list as well or marks the address as torn.
LEMMA BookKeepsMatch ==
    ASSUME TypeOK, BookMatchesWatch, [Next]_vars
    PROVE  BookMatchesWatch'
  <1>1. CASE UNCHANGED hub
    BY <1>1 DEF BookMatchesWatch, hub
  <1>2. ASSUME NEW w \in Wallets, NEW op, Receive(w, op)
        PROVE  Head(up[w]).addr \in Addresses /\ Head(up[w]) \in Request
    <2>1. up[w] # <<>> /\ up[w] \in Seq(Request)
      BY <1>2 DEF Receive, TypeOK
    <2>2. Head(up[w]) \in Request
      BY <2>1, TailFacts
    <2> QED BY <2>2 DEF Request
  <1>3. ASSUME NEW w \in Wallets, AddRegistration(w) PROVE BookMatchesWatch'
    <2> DEFINE r == Head(up[w])
    <2>1. r.addr \in Addresses /\ r.pin \in Pins
      BY <1>2, <1>3 DEF AddRegistration, Request
    <2>2. CASE book[r.addr] # NoEntry
      BY <1>1, <1>3, <2>2 DEF AddRegistration, Refuse
    <2>3. CASE book[r.addr] = NoEntry
      <3>1. book' = [book EXCEPT ![r.addr] = [owner |-> w, pin |-> r.pin]]
        BY <1>3, <2>3 DEF AddRegistration
      <3>2. \/ watched' = watched \cup {r.addr} /\ torn' = torn \ {r.addr}
            \/ watched' = watched /\ torn' = torn \cup {r.addr}
        BY <1>3, <2>3 DEF AddRegistration
      <3>3. [owner |-> w, pin |-> r.pin] # NoEntry
        BY <2>1, NoEntryAssumption
      <3>4. /\ book'[r.addr] # NoEntry
            /\ \A a \in Addresses \ {r.addr} : book'[a] = book[a]
        BY <2>1, <3>1, <3>3 DEF TypeOK
      <3> QED BY <3>2, <3>4 DEF BookMatchesWatch
    <2> QED BY <2>2, <2>3
  <1>4. ASSUME NEW w \in Wallets, RemoveRequested(w) PROVE BookMatchesWatch'
    <2> DEFINE r == Head(up[w])
    <2>1. r.addr \in Addresses
      BY <1>2, <1>4 DEF RemoveRequested
    <2>2. CASE UNCHANGED hub
      BY <1>1, <2>2
    <2>3. CASE RemoveEntry(w, r.addr)
      <3>1. book' = [book EXCEPT ![r.addr] = NoEntry]
        BY <2>3 DEF RemoveEntry
      <3>2. \/ watched' = watched \ {r.addr} /\ torn' = torn \ {r.addr}
            \/ watched' \in {watched, watched \ {r.addr}} /\ torn' = torn \cup {r.addr}
        BY <2>3 DEF RemoveEntry
      <3>3. /\ book'[r.addr] = NoEntry
            /\ \A a \in Addresses \ {r.addr} : book'[a] = book[a]
        BY <2>1, <3>1 DEF TypeOK
      <3> QED BY <3>2, <3>3 DEF BookMatchesWatch
    <2> QED BY <1>4, <2>2, <2>3 DEF RemoveRequested, Refuse
  <1>5. ASSUME NEW w \in Wallets, UpdatePin(w) PROVE BookMatchesWatch'
    <2> DEFINE r == Head(up[w])
    <2>1. r.addr \in Addresses /\ r.new \in Pins
      BY <1>2, <1>5 DEF UpdatePin, Request
    <2>2. CASE UNCHANGED hub
      BY <1>1, <2>2
    <2>3. CASE /\ book[r.addr] # NoEntry /\ UNCHANGED <<watched, torn>>
               /\ book' = [book EXCEPT ![r.addr].pin = r.new]
      <3>1. book[r.addr] \in Entry
        BY <2>1, <2>3 DEF TypeOK
      <3>2. [book[r.addr] EXCEPT !.pin = r.new] \in Entry
        BY <2>1, <3>1 DEF Entry
      <3>3. [book[r.addr] EXCEPT !.pin = r.new] # NoEntry
        BY <3>2, NoEntryAssumption DEF Entry
      <3>4. /\ book'[r.addr] # NoEntry
            /\ \A a \in Addresses \ {r.addr} : book'[a] = book[a]
        BY <2>1, <2>3, <3>3 DEF TypeOK
      <3> QED BY <2>3, <3>4 DEF BookMatchesWatch
    <2> QED BY <1>5, <2>2, <2>3 DEF UpdatePin, Refuse
  <1>6. CASE HubRestarts
    <2>1. /\ \A a \in Addresses : book'[a] = NoEntry
          /\ torn' = torn \cup {a \in Addresses : book[a] # NoEntry}
          /\ watched' = watched
      BY <1>6 DEF HubRestarts
    <2> QED BY <2>1 DEF BookMatchesWatch
  <1>7. CASE UNCHANGED vars
    BY <1>1, <1>7 DEF vars
  <1> QED BY <1>1, <1>3, <1>4, <1>5, <1>6, <1>7, HubUntouched DEF Next, Hub

---------------------------------------------------------------------------
(* Balances.                                                               *)

\* A wallet whose pin, requests and answers are left alone.
LEMMA StandsUnchanged ==
    ASSUME NEW v \in Wallets, PinStands(v), moved'[v] = moved[v],
           userPin'[v] = userPin[v], up'[v] = up[v], down'[v] = down[v]
    PROVE  PinStands(v)'
  BY DEF PinStands

\* A wallet that sets its pin with no balance out has none to read wrongly.
LEMMA SettingStands ==
    ASSUME TypeOK, NEW w \in Wallets, NEW pin, SetUserPin(w, pin), down' = down,
           \/ up'[w] = up[w]
           \/ \E r \in Request : r.op # "balance" /\ up'[w] = Append(up[w], r)
    PROVE  PinStands(w)'
  <1> SUFFICES ASSUME ~moved'[w] PROVE PinStands(w)'
    BY DEF PinStands
  <1>1. ~BalanceOut(w)
    BY DEF SetUserPin, TypeOK
  <1>2. up[w] \in Seq(Request) /\ down[w] \in Seq(Answer)
    BY DEF TypeOK
  <1>3. \A i \in 1..Len(down'[w]) : down'[w][i].kind # "balance"
    BY <1>1, <1>2 DEF BalanceOut
  <1>4. \A i \in 1..Len(up[w]) : up[w][i].op # "balance"
    BY <1>1, <1>2 DEF BalanceOut
  <1>5. \A i \in 1..Len(up'[w]) : up'[w][i].op # "balance"
    <2>1. CASE up'[w] = up[w]
      BY <1>4, <2>1
    <2>2. ASSUME NEW r \in Request, r.op # "balance", up'[w] = Append(up[w], r)
          PROVE  \A i \in 1..Len(up'[w]) : up'[w][i].op # "balance"
      <3> SUFFICES ASSUME NEW i \in 1..Len(up'[w]) PROVE up'[w][i].op # "balance"
        OBVIOUS
      <3>1. /\ Len(up[w]) \in Nat /\ Len(up'[w]) = Len(up[w]) + 1
            /\ \A j \in 1..Len(up[w]) : up'[w][j] = up[w][j]
            /\ up'[w][Len(up[w]) + 1] = r
        BY <1>2, <2>2, AppendFacts
      <3>2. i \in 1..Len(up[w]) \/ i = Len(up[w]) + 1
        BY <3>1
      <3> QED BY <1>4, <2>2, <3>1, <3>2
    <2> QED BY <2>1, <2>2
  <1> QED BY <1>3, <1>5 DEF PinStands

\* A request that shows the wallet's pin and sets none, sent behind the others.
LEMMA SendingStands ==
    ASSUME TypeOK, NEW w \in Wallets, PinStands(w),
           NEW r \in Request, r.op # "add", r.pin = userPin[w],
           up'[w] = Append(up[w], r), userPin'[w] = userPin[w], down' = down,
           \/ moved'[w] = moved[w]
           \/ ~BalanceOut(w)
    PROVE  PinStands(w)'
  <1> SUFFICES ASSUME ~moved'[w] PROVE PinStands(w)'
    BY DEF PinStands
  <1> DEFINE q == up[w]
             s == Append(q, r)
  <1>1. q \in Seq(Request) /\ down[w] \in Seq(Answer)
    BY DEF TypeOK
  <1>2. /\ Len(q) \in Nat /\ Len(s) = Len(q) + 1
        /\ \A j \in 1..Len(q) : s[j] = q[j]
        /\ s[Len(q) + 1] = r
    BY <1>1, AppendFacts
  <1>3. /\ \A i \in 1..Len(q) : q[i].op = "balance" =>
             Settled(q, i) /\ q[i].pin = userPin[w]
        /\ \A i \in 1..Len(down[w]) : down[w][i].kind = "balance" =>
             (down[w][i].sure => down[w][i].under = userPin[w])
    <2>1. CASE ~BalanceOut(w)
      <3>1. \A i \in 1..Len(q) : q[i].op # "balance"
        BY <1>1, <2>1 DEF BalanceOut
      <3>2. \A i \in 1..Len(down[w]) : down[w][i].kind # "balance"
        BY <1>1, <2>1 DEF BalanceOut
      <3> QED BY <3>1, <3>2
    <2>2. CASE moved'[w] = moved[w]
      BY <2>2 DEF PinStands
    <2> QED BY <2>1, <2>2
  <1> HIDE DEF s
  <1>4. ASSUME NEW i \in 1..Len(s), s[i].op = "balance"
        PROVE  Settled(s, i) /\ s[i].pin = userPin[w]
    <2>1. CASE i = Len(q) + 1
      <3>1. \A j \in i..Len(s) : j = i
        BY <1>2, <2>1
      <3> QED BY <1>2, <2>1, <3>1 DEF Settled
    <2>2. CASE i # Len(q) + 1
      <3>1. i \in 1..Len(q)
        BY <1>2, <2>2
      <3>2. s[i] = q[i] /\ Settled(q, i) /\ q[i].pin = userPin[w]
        BY <1>2, <1>3, <1>4, <3>1
      <3>3. ASSUME NEW j \in i..Len(s) PROVE s[j].op # "add"
        <4>1. j = Len(q) + 1 \/ (j \in i..Len(q) /\ j \in 1..Len(q))
          BY <1>2, <3>1
        <4> QED BY <1>2, <3>2, <4>1 DEF Settled
      <3> QED BY <3>2, <3>3 DEF Settled
    <2> QED BY <2>1, <2>2
  <1>5. up'[w] = s
    BY DEF s
  <1> HIDE DEF q
  <1> QED BY <1>3, <1>4, <1>5 DEF PinStands

\* The first request taken away, by the hub or the air, and perhaps answered:
\* what is asked for behind it stands, and an answer that is sure is under the pin.
LEMMA TakingStands ==
    ASSUME TypeOK, NEW w \in Wallets, PinStands(w), up[w] # <<>>,
           up'[w] = Tail(up[w]), userPin'[w] = userPin[w], moved'[w] = moved[w],
           \/ down'[w] = down[w]
           \/ \E r \in Answer :
                /\ down'[w] = Append(down[w], r)
                /\ ~moved[w] /\ r.kind = "balance" => (r.sure => r.under = userPin[w])
    PROVE  PinStands(w)'
  <1> SUFFICES ASSUME ~moved'[w] PROVE PinStands(w)'
    BY DEF PinStands
  <1> DEFINE q == up[w]
             t == Tail(q)
  <1>1. q \in Seq(Request) /\ down[w] \in Seq(Answer)
    BY DEF TypeOK
  <1>2. /\ Len(q) \in Nat \ {0} /\ Len(t) = Len(q) - 1
        /\ \A i \in 1..Len(q) - 1 : t[i] = q[i + 1]
    BY <1>1, TailFacts
  <1>3. /\ \A i \in 1..Len(q) : q[i].op = "balance" =>
             Settled(q, i) /\ q[i].pin = userPin[w]
        /\ \A i \in 1..Len(down[w]) : down[w][i].kind = "balance" =>
             (down[w][i].sure => down[w][i].under = userPin[w])
    BY DEF PinStands
  <1> HIDE DEF t
  <1>4. ASSUME NEW i \in 1..Len(t), t[i].op = "balance"
        PROVE  Settled(t, i) /\ t[i].pin = userPin[w]
    <2>1. i \in 1..Len(q) - 1 /\ i + 1 \in 1..Len(q)
      BY <1>2
    <2>2. t[i] = q[i + 1] /\ Settled(q, i + 1) /\ q[i + 1].pin = userPin[w]
      BY <1>2, <1>3, <1>4, <2>1
    <2>3. ASSUME NEW j \in i..Len(t) PROVE t[j].op # "add"
      <3>1. j \in 1..Len(q) - 1 /\ j + 1 \in (i + 1)..Len(q)
        BY <1>2
      <3> QED BY <1>2, <2>2, <3>1 DEF Settled
    <2> QED BY <2>2, <2>3 DEF Settled
  <1>5. ASSUME NEW i \in 1..Len(down'[w]), down'[w][i].kind = "balance", down'[w][i].sure
        PROVE  down'[w][i].under = userPin[w]
    <2>1. CASE down'[w] = down[w]
      BY <1>3, <1>5, <2>1
    <2>2. ASSUME NEW r \in Answer, down'[w] = Append(down[w], r),
                 r.kind = "balance" => (r.sure => r.under = userPin[w])
          PROVE  down'[w][i].under = userPin[w]
      <3>1. /\ Len(down[w]) \in Nat /\ Len(down'[w]) = Len(down[w]) + 1
            /\ \A j \in 1..Len(down[w]) : down'[w][j] = down[w][j]
            /\ down'[w][Len(down[w]) + 1] = r
        BY <1>1, <2>2, AppendFacts
      <3>2. i \in 1..Len(down[w]) \/ i = Len(down[w]) + 1
        BY <3>1
      <3> QED BY <1>3, <1>5, <2>2, <3>1, <3>2
    <2> QED BY <2>1, <2>2
  <1>6. up'[w] = t
    BY DEF t
  <1> HIDE DEF q
  <1> QED BY <1>4, <1>5, <1>6 DEF PinStands

\* The first answer read or lost.
LEMMA ReadingStands ==
    ASSUME TypeOK, NEW w \in Wallets, PinStands(w), down[w] # <<>>,
           down'[w] = Tail(down[w]), up'[w] = up[w],
           userPin'[w] = userPin[w], moved'[w] = moved[w]
    PROVE  PinStands(w)'
  <1>1. /\ Len(down[w]) \in Nat \ {0} /\ Len(down'[w]) = Len(down[w]) - 1
        /\ \A i \in 1..Len(down[w]) - 1 : down'[w][i] = down[w][i + 1]
    BY TailFacts DEF TypeOK
  <1>2. \A i \in 1..Len(down'[w]) : i + 1 \in 1..Len(down[w]) /\ down'[w][i] = down[w][i + 1]
    BY <1>1
  <1> QED BY <1>2 DEF PinStands

\* What each menu command does to the balances of its wallet.
LEMMA MenuStands ==
    ASSUME TypeOK, NEW w \in Wallets, PinStands(w), Menu(w)
    PROVE  PinStands(w)'
  <1>1. /\ userPin[w] \in Pins /\ loaded[w] \in Addresses /\ up[w] \in Seq(Request)
        /\ {"add", "remove", "update", "balance"} = Op
    BY DEF TypeOK, Op
  <1>2. ASSUME NEW op \in Op, NEW pin \in Pins, NEW new \in Pins, Send(w, op, pin, new)
        PROVE  /\ [op |-> op, addr |-> loaded[w], pin |-> pin, new |-> new] \in Request
               /\ up'[w] = Append(up[w],
                             [op |-> op, addr |-> loaded[w], pin |-> pin, new |-> new])
               /\ down' = down
    BY <1>1, <1>2 DEF Send, Request, TypeOK
  <1>3. CASE RequestBalance(w)
    <2> DEFINE r == [op |-> "balance", addr |-> loaded[w],
                     pin |-> userPin[w], new |-> userPin[w]]
    <2>1. /\ r \in Request /\ up'[w] = Append(up[w], r) /\ down' = down
          /\ userPin' = userPin
      BY <1>1, <1>2, <1>3 DEF RequestBalance
    <2>2. moved'[w] = moved[w] \/ ~BalanceOut(w)
      BY <1>3 DEF RequestBalance, TypeOK
    <2>3. r.op # "add" /\ r.pin = userPin[w]
      OBVIOUS
    <2> HIDE DEF r
    <2> QED BY <2>1, <2>2, <2>3, SendingStands
  <1>4. CASE RemoveRegistration(w)
    <2> DEFINE r == [op |-> "remove", addr |-> loaded[w],
                     pin |-> userPin[w], new |-> userPin[w]]
    <2>1. /\ r \in Request /\ up'[w] = Append(up[w], r) /\ down' = down
          /\ userPin' = userPin /\ moved' = moved
      BY <1>1, <1>2, <1>4 DEF RemoveRegistration
    <2>2. r.op # "add" /\ r.pin = userPin[w]
      OBVIOUS
    <2> HIDE DEF r
    <2> QED BY <2>1, <2>2, SendingStands
  <1>5. CASE RegisterAddress(w)
    <2>1. PICK pin \in Pins : Send(w, "add", pin, pin) /\ SetUserPin(w, pin)
      BY <1>5 DEF RegisterAddress
    <2> DEFINE r == [op |-> "add", addr |-> loaded[w], pin |-> pin, new |-> pin]
    <2>2. r \in Request /\ up'[w] = Append(up[w], r) /\ down' = down /\ r.op # "balance"
      BY <1>1, <1>2, <2>1
    <2> HIDE DEF r
    <2> QED BY <2>1, <2>2, SettingStands
  <1>6. CASE updateRegisteredPin(w)
    <2>1. PICK pin \in Pins : Send(w, "update", userPin[w], pin) /\ SetUserPin(w, pin)
      BY <1>6 DEF updateRegisteredPin
    <2> DEFINE r == [op |-> "update", addr |-> loaded[w], pin |-> userPin[w], new |-> pin]
    <2>2. r \in Request /\ up'[w] = Append(up[w], r) /\ down' = down /\ r.op # "balance"
      BY <1>1, <1>2, <2>1
    <2> HIDE DEF r
    <2> QED BY <2>1, <2>2, SettingStands
  <1>7. CASE SetPin(w)
    <2>1. PICK pin \in Pins : SetUserPin(w, pin) /\ UNCHANGED link
      BY <1>7 DEF SetPin
    <2> QED BY <2>1, SettingStands DEF link
  <1>8. CASE LoadAddress(w)
    BY <1>8, StandsUnchanged DEF LoadAddress, link
  <1> QED BY <1>3, <1>4, <1>5, <1>6, <1>7, <1>8 DEF Menu

\* A balance the hub surely owes to its owner is encoded with the wallet's pin:
\* the chain leads from the book through the request, which shows that pin.
LEMMA AnswerStands ==
    ASSUME IInv, NEW w \in Wallets, PinStands(w), Hub(w)
    PROVE  PinStands(w)'
  <1> USE DEF IInv
  <1> DEFINE r == Head(up[w])
  <1>1. PICK op \in Op : Receive(w, op)
    BY DEF Hub, AddRegistration, RemoveRequested, UpdatePin, ServiceBalanceRequest, Op
  <1>2. /\ up[w] # <<>> /\ up[w] \in Seq(Request) /\ r \in Request /\ r.op = op
        /\ up'[w] = Tail(up[w])
        /\ userPin'[w] = userPin[w] /\ moved'[w] = moved[w]
    BY <1>1, ReceiveFacts
  <1>3. r.addr \in Addresses
    BY <1>2 DEF Request
  <1> DEFINE Fits(ans) == ~moved[w] /\ ans.kind = "balance"
                            => (ans.sure => ans.under = userPin[w])
             Answered == \E ans \in Answer : Reply(w, ans) /\ Fits(ans)
  <1>4. ASSUME NEW ok \in BOOLEAN, NEW code \in Code, Reply(w, Result(ok, code))
        PROVE  Answered
    <2>1. Result(ok, code) \in Answer
      BY AnswerFacts
    <2>2. Result(ok, code).kind # "balance"
      BY DEF Result
    <2> QED BY <1>4, <2>1, <2>2
  <1>5. ASSUME ServiceBalanceRequest(w), book[r.addr] # NoEntry
        PROVE  Answered
    <2> DEFINE sure == ~unsure[w] /\ r.addr = loaded[w] /\ Registered(w)
               ans == ObfuscateDogeCoinBalance(book[r.addr].pin, sure)
    <2>1. Reply(w, ans) /\ r.op = "balance"
      BY <1>5 DEF ServiceBalanceRequest, Receive
    <2>2. book[r.addr].pin \in Pins /\ sure \in BOOLEAN
      BY <1>3, <1>5 DEF TypeOK, Entry
    <2>3. ans \in Answer
      BY <2>2, AnswerFacts
    <2>4. ans.under = book[r.addr].pin /\ ans.sure = sure
      BY DEF ObfuscateDogeCoinBalance
    <2>5. ASSUME ~moved[w], sure PROVE book[r.addr].pin = userPin[w]
      <3>1. up[w][1] = r /\ Len(up[w]) \in Nat \ {0} /\ 1 \in 1..Len(up[w])
        BY <1>2, TailFacts
      <3>2. Settled(up[w], 1) /\ r.pin = userPin[w]
        BY <2>1, <2>5, <3>1 DEF PinStands
      <3>3. Settled(up[w], 2)
        BY <3>1, <3>2 DEF Settled
      <3>4. Chain(w)
        BY DEF PinChain
      <3>5. book[loaded[w]].pin = r.pin
        BY <1>2, <2>1, <2>5, <3>3, <3>4, HeadShowsBookPin
      <3> QED BY <2>5, <3>2, <3>5
    <2> HIDE DEF ans, sure
    <2> QED BY <2>1, <2>3, <2>4, <2>5
  <1>6. Answered
    <2>1. CASE AddRegistration(w)
      BY <1>4, <2>1 DEF AddRegistration, Refuse, Code
    <2>2. CASE RemoveRequested(w)
      BY <1>4, <2>2 DEF RemoveRequested, RemoveEntry, Refuse, Code
    <2>3. CASE UpdatePin(w)
      BY <1>4, <2>3 DEF UpdatePin, Refuse, Code
    <2>4. CASE ServiceBalanceRequest(w)
      BY <1>4, <1>5, <2>4 DEF ServiceBalanceRequest, Code
    <2> QED BY <2>1, <2>2, <2>3, <2>4 DEF Hub
  <1>7. PICK ans \in Answer : Reply(w, ans) /\ Fits(ans)
    BY <1>6
  <1>8. down'[w] = Append(down[w], ans)
    BY <1>7 DEF Reply, TypeOK
  <1> QED BY <1>2, <1>7, <1>8, TakingStands

\* What a step does to one wallet leaves the balances of the others alone.
LEMMA NextStands ==
    ASSUME IInv, BalancesStand, [Next]_vars
    PROVE  BalancesStand'
  <1> SUFFICES ASSUME NEW v \in Wallets PROVE PinStands(v)'
    BY DEF BalancesStand
  <1> USE DEF IInv
  <1>1. PinStands(v)
    BY DEF BalancesStand
  <1>2. CASE HubRestarts \/ UNCHANGED vars
    BY <1>1, <1>2, StandsUnchanged DEF HubRestarts, wallet, link, vars
  <1>3. ASSUME NEW w \in Wallets, Menu(w) PROVE PinStands(v)'
    <2>1. CASE v # w
      BY <1>1, <1>3, <2>1, StandsUnchanged
         DEF Menu, RequestBalance, RegisterAddress, RemoveRegistration, updateRegisteredPin,
             SetPin, LoadAddress, Send, SetUserPin, link, TypeOK
    <2> QED BY <1>1, <1>3, <2>1, MenuStands
  <1>4. ASSUME NEW w \in Wallets, Hub(w) PROVE PinStands(v)'
    <2>1. CASE v # w
      <3>1. \E op \in Op : Receive(w, op)
        BY <1>4 DEF Hub, AddRegistration, RemoveRequested, UpdatePin, ServiceBalanceRequest, Op
      <3>2. \E ans : Reply(w, ans)
        BY <1>4 DEF Hub, AddRegistration, RemoveRequested, RemoveEntry, UpdatePin,
                    ServiceBalanceRequest, Refuse
      <3> QED BY <1>1, <2>1, <3>1, <3>2, StandsUnchanged DEF Receive, Reply, wallet, TypeOK
    <2> QED BY <1>1, <1>4, <2>1, AnswerStands
  <1>5. ASSUME NEW w \in Wallets, LoseRequest(w) PROVE PinStands(v)'
    <2>1. CASE v # w
      BY <1>1, <1>5, <2>1, StandsUnchanged DEF LoseRequest, wallet, TypeOK
    <2>2. CASE v = w
      <3>1. /\ up[w] # <<>> /\ up'[w] = Tail(up[w]) /\ down'[w] = down[w]
            /\ userPin'[w] = userPin[w] /\ moved'[w] = moved[w]
        BY <1>5 DEF LoseRequest, wallet, TypeOK
      <3> QED BY <1>1, <2>2, <3>1, TakingStands
    <2> QED BY <2>1, <2>2
  <1>6. ASSUME NEW w \in Wallets, ResultReceived(w) \/ BalanceReceived(w) \/ LoseAnswer(w)
        PROVE  PinStands(v)'
    <2>1. Take(w)
      BY <1>6 DEF ResultReceived, BalanceReceived, LoseAnswer
    <2>2. CASE v # w
      BY <1>1, <2>1, <2>2, StandsUnchanged DEF Take, wallet, TypeOK
    <2>3. CASE v = w
      <3>1. /\ down[w] # <<>> /\ down'[w] = Tail(down[w]) /\ up'[w] = up[w]
            /\ userPin'[w] = userPin[w] /\ moved'[w] = moved[w]
        BY <2>1 DEF Take, wallet, TypeOK
      <3> QED BY <1>1, <2>3, <3>1, ReadingStands
    <2> QED BY <2>2, <2>3
  <1> QED BY <1>2, <1>3, <1>4, <1>5, <1>6 DEF Next

\* What a wallet prints is garbled only by a balance under another pin.
LEMMA GarbledByPin ==
    ASSUME TypeOK, [Next]_vars, NEW v \in Wallets, shown'[v] = "garbled", shown[v] # "garbled"
    PROVE  /\ down[v] # <<>> /\ Head(down[v]).kind = "balance"
           /\ Head(down[v]).under # userPin[v]
  <1>1. shown' # shown
    OBVIOUS
  <1>2. \A w \in Wallets : ~Menu(w) /\ ~Hub(w) /\ ~LoseRequest(w) /\ ~LoseAnswer(w)
    BY <1>1 DEF Menu, RequestBalance, RegisterAddress, RemoveRegistration, updateRegisteredPin,
                SetPin, LoadAddress, Send, Hub, AddRegistration, RemoveRequested, UpdatePin,
                ServiceBalanceRequest, Receive, LoseRequest, LoseAnswer
  <1>3. PICK w \in Wallets : ResultReceived(w) \/ BalanceReceived(w)
    BY <1>1, <1>2 DEF Next, HubRestarts, vars
  <1>4. ~ResultReceived(w)
    BY DEF ResultReceived, TypeOK
  <1> QED BY <1>3, <1>4 DEF BalanceReceived, Take, TypeOK

---------------------------------------------------------------------------
(* The theorems.                                                           *)

\* Type correctness of wallets, hub and link, for any wallets, addresses and pins.
THEOREM RegistryTypeCorrect == Spec => []TypeOK
  <1>1. IInv => TypeOK
    BY DEF IInv
  <1> QED BY <1>1, InitChain, NextKeeps, PTL DEF Spec

\* With no request on its way, a wallet that lost none, was not refused a
\* registration and did not have its pin set otherwise has the pin that the hub
\* has: storing a pin before the hub has answered (serdog.c:1386) is safe then.
THEOREM PinsStayTogether == Spec => []PinsAgree
  <1>1. IInv => PinsAgree
    <2> SUFFICES ASSUME IInv, NEW w \in Wallets,
                        ~unsure[w], up[w] = <<>>, Registered(w)
                 PROVE  book[loaded[w]].pin = userPin[w]
      BY DEF PinsAgree
    <2>1. Settled(up[w], 1)
      BY DEF Settled
    <2> QED BY <2>1 DEF IInv, PinChain, Chain, NextPin
  <1> QED BY <1>1, InitChain, NextKeeps, PTL DEF Spec

\* Nor does it refuse what such a wallet sends while requests are on their way:
\* each shows the pin that the book has when it arrives.
THEOREM SureWalletIsNotRefused == Spec => []NextRequestFits
  <1>1. IInv => NextRequestFits
    <2> SUFFICES ASSUME IInv, NEW w \in Wallets, ~unsure[w], Registered(w),
                        up[w] # <<>>, Settled(up[w], 1)
                 PROVE  /\ book[loaded[w]].pin = Head(up[w]).pin
                        /\ Head(up[w]).addr = loaded[w]
      BY DEF NextRequestFits
    <2>1. up[w] \in Seq(Request)
      BY DEF IInv, TypeOK
    <2>2. Head(up[w]) = up[w][1] /\ Len(up[w]) \in Nat \ {0}
      BY <2>1, TailFacts
    <2>3. Settled(up[w], 1 + 1) /\ 1 \in 1..Len(up[w])
      BY <2>2 DEF Settled
    <2> QED BY <2>2, <2>3 DEF IInv, PinChain, Chain, NextPin, AboutAddress
  <1> QED BY <1>1, InitChain, NextKeeps, PTL DEF Spec

\* The book in memory and the watch list on file name the same addresses, but
\* for those where the library failed or the hub was restarted: no order of
\* registrations, removals and updates of any wallets makes them differ.
THEOREM BookFollowsWatch == Spec => []BookMatchesWatch
  <1>1. Init => BookMatchesWatch
    BY DEF Init, BookMatchesWatch
  <1>2. IInv /\ BookMatchesWatch /\ [Next]_vars => BookMatchesWatch'
    BY BookKeepsMatch DEF IInv
  <1> QED BY <1>1, <1>2, InitChain, NextKeeps, PTL DEF Spec

\* A wallet garbles the balance of its own address only when its pin was set
\* while the balance was asked for: encoding with the pin of the book and
\* decoding with the pin of the wallet (serdog.c:1198) cancel out otherwise.
THEOREM BalancesAreReadable == Spec => BalanceIsReadable
  <1>1. Init => BalancesStand
    BY DEF Init, BalancesStand, PinStands
  <1>2. IInv /\ BalancesStand /\ [Next]_vars => BalancesStand'
    BY NextStands
  <1>3. IInv /\ BalancesStand /\ [Next]_vars =>
          \A w \in Wallets : shown'[w] = "garbled" /\ shown[w] # "garbled"
            => moved[w] \/ ~Head(down[w]).sure
    <2> SUFFICES ASSUME IInv, BalancesStand, [Next]_vars, NEW w \in Wallets,
                        shown'[w] = "garbled", shown[w] # "garbled", ~moved[w],
                        Head(down[w]).sure
                 PROVE  FALSE
      OBVIOUS
    <2>1. /\ down[w] # <<>> /\ Head(down[w]).kind = "balance"
          /\ Head(down[w]).under # userPin[w]
      BY GarbledByPin DEF IInv
    <2>2. down[w] \in Seq(Answer)
      BY DEF IInv, TypeOK
    <2>3. Head(down[w]) = down[w][1] /\ Len(down[w]) \in Nat \ {0}
      BY <2>1, <2>2, TailFacts
    <2>4. 1 \in 1..Len(down[w])
      BY <2>3
    <2> QED BY <2>1, <2>3, <2>4 DEF BalancesStand, PinStands
  <1> QED BY <1>1, <1>2, <1>3, InitChain, NextKeeps, PTL DEF Spec, BalanceIsReadable

=============================================================================
