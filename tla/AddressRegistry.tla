--------------------------- MODULE AddressRegistry ---------------------------
(***************************************************************************)
(* Registration of Dogecoin addresses: the serdog wallets                  *)
(* (src/serdog/serdog.c) and the address book of the RadioDogeSharp hub    *)
(* (DogeMode.cs, AddressBookEntry.cs), over radio.                         *)
(*                                                                         *)
(* A wallet keeps one pin and one loaded address and nothing about what    *)
(* the hub has accepted.  The hub keeps owner and pin of each registered   *)
(* address in memory, and the list of addresses it watches on the chain in *)
(* a file of libdogecoin.  What a wallet sends reaches the hub in order or *)
(* is lost, and so do the answers; nothing is sent again by itself.        *)
(*                                                                         *)
(* A balance travels XORed with the pin.  XOR with one pin and then with   *)
(* another gives the balance back only if the two are equal, so a balance  *)
(* is modelled by the pin it is under.  A pin is typed and copied digit by *)
(* digit in the code; here it changes in one step.                         *)
(***************************************************************************)
EXTENDS Integers, Sequences

CONSTANTS
    Wallets,    \* nodes with a wallet
    Addresses,  \* Dogecoin addresses
    Pins,       \* values of the four digits
    ZeroPin,    \* what userPin is initialised to
    NoEntry,    \* an address that is not in the book
    MaxSent     \* bound: requests sent in a behaviour

ASSUME PinAssumption == ZeroPin \in Pins
ASSUME BoundAssumption == MaxSent \in Nat
ASSUME NoEntryAssumption == NoEntry \notin [owner : Wallets, pin : Pins]

VARIABLES
    loaded,   \* loadedDogeAddress of each wallet
    userPin,  \* userPin of each wallet
    shown,    \* the answer each wallet printed last
    book,     \* dogeAddressBook of the hub
    watched,  \* the addresses in the wallet file the hub's library watches
    up,       \* requests on their way to the hub, in order
    down,     \* answers on their way to each wallet, in order
    sent,     \* bound: number of requests sent
    unsure,   \* ghost: the hub may rightly have another pin than the wallet
    moved,    \* ghost: the pin was set while a balance was asked for
    torn      \* ghost: addresses whose book entry and watch entry may differ

wallet == <<loaded, userPin>>
hub    == <<book, watched, torn>>
link   == <<up, down, sent>>
vars   == <<wallet, shown, hub, link, unsure, moved>>

Entry   == [owner : Wallets, pin : Pins]
Code    == {"Success", "AlreadyRegistered", "NotRegistered", "InvalidPin",
            "WatchlistFailure"}
Op      == {"add", "remove", "update", "balance"}
\* A request carries the wallet's pin; "new" is the second pin of an update,
\* and in every request the pin the wallet holds once it has sent it.
Request == [op : Op, addr : Addresses, pin : Pins, new : Pins]
\* "sure" is a ghost: the wallet's own address, in the book, with its pin known.
Answer  == [kind : {"result"}, ok : BOOLEAN, code : Code]
             \cup [kind : {"balance"}, under : Pins, sure : BOOLEAN]

TypeOK ==
    /\ loaded \in [Wallets -> Addresses]
    /\ userPin \in [Wallets -> Pins]
    /\ shown \in [Wallets -> {"nothing", "success", "failure", "balance", "garbled"}]
    /\ book \in [Addresses -> Entry \cup {NoEntry}]
    /\ watched \subseteq Addresses
    /\ up \in [Wallets -> Seq(Request)]
    /\ down \in [Wallets -> Seq(Answer)]
    /\ sent \in 0..MaxSent
    /\ unsure \in [Wallets -> BOOLEAN]
    /\ moved \in [Wallets -> BOOLEAN]
    /\ torn \subseteq Addresses

\* No pin has been agreed on before the first registration.
Init ==
    /\ loaded \in [Wallets -> Addresses]
    /\ userPin = [w \in Wallets |-> ZeroPin]
    /\ shown = [w \in Wallets |-> "nothing"]
    /\ book = [a \in Addresses |-> NoEntry]
    /\ watched = {}
    /\ up = [w \in Wallets |-> <<>>]
    /\ down = [w \in Wallets |-> <<>>]
    /\ sent = 0
    /\ unsure = [w \in Wallets |-> TRUE]
    /\ moved = [w \in Wallets |-> FALSE]
    /\ torn = {}

Registered(w) == book[loaded[w]] # NoEntry /\ book[loaded[w]].owner = w

---------------------------------------------------------------------------
(* The wallet's menu, enterDogeMode.                                       *)

\* A balance was asked for and has not been printed.
BalanceOut(w) ==
    \/ \E i \in DOMAIN up[w] : up[w][i].op = "balance"
    \/ \E i \in DOMAIN down[w] : down[w][i].kind = "balance"

Send(w, op, pin, new) ==
    /\ sent < MaxSent
    /\ sent' = sent + 1
    /\ up' = [up EXCEPT ![w] =
                Append(@, [op |-> op, addr |-> loaded[w], pin |-> pin, new |-> new])]
    /\ UNCHANGED <<loaded, shown, hub, down>>

\* getUserSuppliedPin and the copy loop of updateRegisteredPin.
SetUserPin(w, pin) ==
    /\ userPin' = [userPin EXCEPT ![w] = pin]
    /\ moved' = [moved EXCEPT ![w] = @ \/ BalanceOut(w)]

RequestBalance(w) ==
    /\ Send(w, "balance", userPin[w], userPin[w])
    /\ moved' = [moved EXCEPT ![w] = @ /\ BalanceOut(w)]
    /\ UNCHANGED <<userPin, unsure>>

\* The pin typed for the registration becomes the wallet's at once.
RegisterAddress(w) == \E pin \in Pins :
    /\ Send(w, "add", pin, pin)
    /\ SetUserPin(w, pin)
    /\ unsure' = [unsure EXCEPT ![w] = FALSE]

RemoveRegistration(w) ==
    /\ Send(w, "remove", userPin[w], userPin[w])
    /\ UNCHANGED <<userPin, unsure, moved>>

\* Mutant: the new pin is not stored.
UpdateForgotten(w) == \E pin \in Pins :
    /\ Send(w, "update", userPin[w], pin)
    /\ UNCHANGED <<userPin, unsure, moved>>

\* So does the new pin, before the hub has answered.
updateRegisteredPin(w) == \E pin \in Pins :
    /\ Send(w, "update", userPin[w], pin)
    /\ SetUserPin(w, pin)
    /\ UNCHANGED unsure

SetPin(w) == \E pin \in Pins :
    /\ SetUserPin(w, pin)
    /\ unsure' = [unsure EXCEPT ![w] = TRUE]
    /\ UNCHANGED <<loaded, shown, hub, link>>

\* Demo pairs, manual editing, or a key file; the pin is kept.
LoadAddress(w) == \E a \in Addresses \ {loaded[w]} :
    /\ loaded' = [loaded EXCEPT ![w] = a]
    /\ unsure' = [unsure EXCEPT ![w] = TRUE]
    /\ UNCHANGED <<userPin, shown, hub, link, moved>>

Menu(w) ==
    \/ RequestBalance(w)
    \/ RegisterAddress(w)
    \/ RemoveRegistration(w)
    \/ updateRegisteredPin(w)
    \/ SetPin(w)
    \/ LoadAddress(w)

---------------------------------------------------------------------------
(* The hub, ProcessDogePayload.  Addresses are never too long here: the    *)
(* wallet sends a fixed number of characters.                              *)

Result(ok, code) == [kind |-> "result", ok |-> ok, code |-> code]

Receive(w, op) ==
    /\ up[w] # <<>>
    /\ Head(up[w]).op = op
    /\ up' = [up EXCEPT ![w] = Tail(@)]
    /\ UNCHANGED <<wallet, shown, sent, moved>>

Reply(w, answer) == down' = [down EXCEPT ![w] = Append(@, answer)]

Refuse(w, code) ==
    /\ Reply(w, Result(FALSE, code))
    /\ UNCHANGED hub

\* The entry is in the book before the watch list is tried; if that fails
\* the answer still says success.  A refused registration leaves the wallet
\* with the pin it was refused with.
AddRegistration(w) == LET r == Head(up[w]) IN
    /\ Receive(w, "add")
    /\ IF book[r.addr] = NoEntry
       THEN /\ book' = [book EXCEPT ![r.addr] = [owner |-> w, pin |-> r.pin]]
            /\ UNCHANGED unsure
            /\ \/ /\ watched' = watched \cup {r.addr}
                  /\ torn' = torn \ {r.addr}
                  /\ Reply(w, Result(TRUE, "Success"))
               \/ /\ torn' = torn \cup {r.addr}
                  /\ UNCHANGED watched
                  /\ Reply(w, Result(TRUE, "WatchlistFailure"))
       ELSE /\ Refuse(w, "AlreadyRegistered")
            /\ unsure' = [unsure EXCEPT ![w] = TRUE]

\* Mutant: the book entry goes, the watch list is not told.
RemoveUnwatched(w, a) ==
    /\ book' = [book EXCEPT ![a] = NoEntry]
    /\ UNCHANGED <<watched, torn>>
    /\ Reply(w, Result(TRUE, "Success"))

\* When the library fails the address may or may not be off the list.
RemoveEntry(w, a) ==
    /\ book' = [book EXCEPT ![a] = NoEntry]
    /\ \/ /\ watched' = watched \ {a}
          /\ torn' = torn \ {a}
          /\ Reply(w, Result(TRUE, "Success"))
       \/ /\ watched' \in {watched, watched \ {a}}
          /\ torn' = torn \cup {a}
          /\ Reply(w, Result(TRUE, "WatchlistFailure"))

RemoveRequested(w) == LET r == Head(up[w]) IN
    /\ Receive(w, "remove")
    /\ UNCHANGED unsure
    /\ \/ book[r.addr] = NoEntry /\ Refuse(w, "NotRegistered")
       \/ /\ book[r.addr] # NoEntry
          /\ IF book[r.addr].pin = r.pin THEN RemoveEntry(w, r.addr)
                                         ELSE Refuse(w, "InvalidPin")

\* Mutant: ResetPin compares and does not store.
UpdateNotStored(w) == LET r == Head(up[w]) IN
    /\ Receive(w, "update")
    /\ UNCHANGED <<unsure, hub>>
    /\ Reply(w, IF book[r.addr] # NoEntry /\ book[r.addr].pin = r.pin
                THEN Result(TRUE, "Success")
                ELSE Result(FALSE, "InvalidPin"))

\* ResetPin keeps the owner; the owner's wallet is not told of the new pin.
UpdatePin(w) == LET r == Head(up[w]) IN
    /\ Receive(w, "update")
    /\ \/ book[r.addr] = NoEntry /\ Refuse(w, "NotRegistered") /\ UNCHANGED unsure
       \/ /\ book[r.addr] # NoEntry
          /\ IF book[r.addr].pin = r.pin
             THEN /\ book' = [book EXCEPT ![r.addr].pin = r.new]
                  /\ unsure' = [v \in Wallets |->
                                  unsure[v] \/ (v = book[r.addr].owner /\ v # w)]
                  /\ Reply(w, Result(TRUE, "Success"))
                  /\ UNCHANGED <<watched, torn>>
             ELSE Refuse(w, "InvalidPin") /\ UNCHANGED unsure

\* Mutant: the array for the pin is left as it was allocated.
ObfuscateWithZeroPin(pin, sure) ==
    [kind |-> "balance", under |-> ZeroPin, sure |-> sure]

ObfuscateDogeCoinBalance(pin, sure) ==
    [kind |-> "balance", under |-> pin, sure |-> sure]

\* Anybody may ask for the balance of any address in the book.
ServiceBalanceRequest(w) == LET r == Head(up[w]) IN
    /\ Receive(w, "balance")
    /\ UNCHANGED <<unsure, hub>>
    /\ IF book[r.addr] = NoEntry
       THEN Reply(w, Result(FALSE, "NotRegistered"))
       ELSE Reply(w, ObfuscateDogeCoinBalance(
                       book[r.addr].pin,
                       ~unsure[w] /\ r.addr = loaded[w] /\ Registered(w)))

\* The book is in memory only, the watch list is a file.
HubRestarts ==
    /\ book' = [a \in Addresses |-> NoEntry]
    /\ torn' = torn \cup {a \in Addresses : book[a] # NoEntry}
    /\ UNCHANGED <<wallet, shown, watched, link, unsure, moved>>

Hub(w) ==
    \/ AddRegistration(w)
    \/ RemoveRequested(w)
    \/ UpdatePin(w)
    \/ ServiceBalanceRequest(w)

---------------------------------------------------------------------------
(* The wallet's serial thread, processDogePayload, and the radio.          *)

Take(w) ==
    /\ down[w] # <<>>
    /\ down' = [down EXCEPT ![w] = Tail(@)]
    /\ UNCHANGED <<wallet, hub, up, sent, unsure, moved>>

\* A success is printed as such whatever its response code.
ResultReceived(w) ==
    /\ Take(w)
    /\ Head(down[w]).kind = "result"
    /\ shown' = [shown EXCEPT ![w] = IF Head(down[w]).ok THEN "success" ELSE "failure"]

\* Decoded with the pin the wallet has now.
BalanceReceived(w) ==
    /\ Take(w)
    /\ Head(down[w]).kind = "balance"
    /\ shown' = [shown EXCEPT ![w] =
                   IF Head(down[w]).under = userPin[w] THEN "balance" ELSE "garbled"]

\* A request that sets the hub's pin leaves the two apart when it is lost.
LoseRequest(w) ==
    /\ up[w] # <<>>
    /\ up' = [up EXCEPT ![w] = Tail(@)]
    /\ unsure' = [unsure EXCEPT ![w] = @ \/ Head(up[w]).op \in {"add", "update"}]
    /\ UNCHANGED <<wallet, shown, hub, down, sent, moved>>

LoseAnswer(w) == Take(w) /\ UNCHANGED shown

Next ==
    \/ HubRestarts
    \/ \E w \in Wallets :
         \/ Menu(w)
         \/ Hub(w)
         \/ ResultReceived(w)
         \/ BalanceReceived(w)
         \/ LoseRequest(w)
         \/ LoseAnswer(w)

Spec == Init /\ [][Next]_vars

---------------------------------------------------------------------------
(* The inductive invariant behind PinsAgree: the pins of the requests on   *)
(* their way form a chain from the hub's pin to the wallet's.              *)

Settled(q, i) == \A j \in i..Len(q) : q[j].op # "add"

OnlyUpdatesChange == \A w \in Wallets : \A i \in 1..Len(up[w]) :
    up[w][i].op # "update" => up[w][i].pin = up[w][i].new

AboutAddress(q, a) == \A i \in 1..Len(q) :
    Settled(q, i + 1) => q[i].addr = a

Linked(q) == \A i \in 2..Len(q) :
    Settled(q, i) => q[i].pin = q[i - 1].new

EndsIn(q, pin) == q # <<>> => q[Len(q)].new = pin

\* The pin the next request will show the hub, or the wallet's if there is none.
NextPin(q, pin) == IF q = <<>> THEN pin ELSE q[1].pin

Chain(w) ==
    ~unsure[w] =>
      /\ AboutAddress(up[w], loaded[w])
      /\ Linked(up[w])
      /\ EndsIn(up[w], userPin[w])
      /\ Registered(w) /\ Settled(up[w], 1)
           => book[loaded[w]].pin = NextPin(up[w], userPin[w])

PinChain == \A w \in Wallets : Chain(w)

IInv == TypeOK /\ OnlyUpdatesChange /\ PinChain

(* And behind BalanceIsReadable: as long as the pin stands, a balance asked *)
(* for has no registration behind it, and one under way is under that pin. *)

PinStands(w) ==
    ~moved[w] =>
      /\ \A i \in 1..Len(up[w]) : up[w][i].op = "balance" =>
           Settled(up[w], i) /\ up[w][i].pin = userPin[w]
      /\ \A i \in 1..Len(down[w]) : down[w][i].kind = "balance" =>
           (down[w][i].sure => down[w][i].under = userPin[w])

BalancesStand == \A w \in Wallets : PinStands(w)

---------------------------------------------------------------------------
(* Properties.                                                             *)

\* The wallet stores a pin as soon as it has sent it (serdog.c:1386, 1474) and
\* never hears of what the hub has.  Still, once nothing is on its way, the
\* hub has the wallet's pin for an address registered by it, unless a request
\* was lost, the registration was refused, the pin was set by hand, or another
\* node changed it.
PinsAgree == \A w \in Wallets :
    ~unsure[w] /\ up[w] = <<>> /\ Registered(w)
      => book[loaded[w]].pin = userPin[w]

\* Whatever a wallet sends before the hub has answered (several updates in a row,
\* an update and then a removal), the hub finds its own pin in the next request,
\* with the same exceptions: AddressBookEntry.cs:30 does not refuse it.
NextRequestFits == \A w \in Wallets :
    /\ ~unsure[w] /\ Registered(w)
    /\ up[w] # <<>> /\ Settled(up[w], 1)
    => book[loaded[w]].pin = Head(up[w]).pin /\ Head(up[w]).addr = loaded[w]

\* The hub encodes a balance with the pin it has when it answers, the wallet
\* decodes it with the pin it has when the answer comes (serdog.c:1198).  The
\* user reads a wrong balance only after setting the pin in the meantime, or
\* for an address that is not surely the wallet's own.
BalanceIsReadable == [][\A w \in Wallets :
    shown'[w] = "garbled" /\ shown[w] # "garbled"
      => moved[w] \/ ~Head(down[w]).sure]_vars

\* The book in memory and the watch list on file name the same addresses,
\* except those for which the library failed (DogeMode.cs:258, 284) and those
\* that were registered when the hub was restarted.
BookMatchesWatch == \A a \in Addresses \ torn :
    book[a] # NoEntry <=> a \in watched

=============================================================================
