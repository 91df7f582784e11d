# RadioDoge in TLA+

RadioDoge sends Dogecoin transactions over LoRa radio. This directory models the
parts of it whose correctness depends on the order of events: the firmware of the
LoRa modules, how its nodes work together, and the wallet and the hub that talk
through them. It holds TLA+ modules, TLC configurations, and TLAPS proofs. `F3` below
is `src/heltec-firmware-v3/heltec-firmware.ino`, `F2` is
`src/heltec-firmware/heltec-firmware.ino`, `serdog.c` is `src/serdog/serdog.c`, and
`*.cs` are files of `src/RadioDogeSharp/RadioDogeSharp/`.

## 1. Inventory

| Component | State | Operations | Interacts with |
|---|---|---|---|
| v3 request queue (F3:131–164, 2300–2471) | `pendingRequests`, `currentRequestState`, `confirmationStartTime`, `currentRequestId` | `handleApiBroadcast`, `QueueRequest`, `ProcessNextQueuedRequest`, `CheckRequestTimeouts`, `HandleConfirmationReceived` | web clients above, multipart senders below |
| v3 multipart packets (F3:1540–1967, 2248–2298) | `multipartBuffer`, `activeMultipartSessions` | the three `SendMultipart…`, `ProcessMultipartPacket`, `ReassembleMultipartPacket`, `CleanupExpiredMultipartSessions` | radio, and the `ProcessReassembled…` handlers |
| command loop and callbacks (F3:315–330, 1318–1380; F2:131–189) | `isLoRaIdle`, `needToSendACK`, `dest`, and the radio chip | `CommandAndControlLoop`, `OnTxDone`, `OnTxTimeout`, `OnRxDone`, `HostSerialRead`, the web handlers that transmit | everybody: every transmission goes through it |
| mesh forwarding and gateway (F3:1969–2246, 4043–4191, 5090) | the gateway settings; no memory of what was relayed | `ProcessReassembledTransaction`, `…Broadcast`, `…Message` | other nodes, the Dogecoin network by HTTP |
| NVS configuration (F3:463–958) | WiFi, LoRa address, access point password, gateway, each in memory and in flash | load, save, clear | web handlers and the host change it, everybody reads it at boot |
| WiFi, Internet bridge, web pages, log (F3:979–1235, 2936–5173) | connection flags, 100 log lines | connect, DNS, proxy, pages | web clients |
| serdog wallet (`serdog.c`) | `currUTXOs`, `numUTXOs`, `userPin`, `loadedDogeAddress`, `multipartBuffer` | menu commands on the main thread, `serialPollThread` | its LoRa module over serial, the hub over the air |
| RadioDogeSharp hub (`*.cs`) | `dogeAddressBook`, watch list of libdogecoin, `currMultipartPacket`, the `spvnode` process | registration, balance, UTXOs, transactions | its LoRa module over serial, wallets over the air |
| vendored (`src/libdogecoin`, images, uthash, SPV lists) | – | – | not part of the program's own logic |

What is hard in it:

* **Order of events in one node.** The firmware is single threaded, but its loop
  serves the web server, the queue, the acknowledgement flag, the radio and the
  serial host in turn, and callbacks transmit from inside the poll of the radio.
  They share `dest`, `isLoRaIdle` and the one chip.
* **The air.** Packets are lost, no packet but a confirmation is answered, a node
  is deaf while it sends or waits in a `delay`, and packets carry no message number.
* **Time.** Timeouts compare values of `millis()`, which wraps, across handlers
  that take seconds; they run inside loops over arrays they shrink.
* **The mesh.** Everybody repeats what they hear, with no hop count and no memory.
* **Flash.** A save is several writes, and the power may go between any two; a write that
  fails is only logged.
* **Wallet and hub.** A thread and a menu share the UTXO table without a lock; the
  wallet's idea of its pin and registration and the hub's differ after a loss; the hub
  puts one packet together at a time for all wallets and reads a listing while the
  SPV node changes what it lists.

`PROJECT.json` lists these as hazards, each at the line where it bites, with the
properties that cover it or the reason none does.

## 2. Modules

| Module | Models | Checked by | Proved in |
|---|---|---|---|
| `RequestQueue` (`MCRequestQueue`) | the request queue of one v3 node | `request_queue` | `RequestQueueProofs` |
| `BroadcastTurns` | abstract: accepted broadcasts take turns, one in flight | `request_queue` (as `ImplementsTurns`) | `RequestQueueProofs` |
| `MultipartReassembly` (`MCMultipart`) | senders that split, the air, the session table of the receiver | `reassembly`, `reassembly_mixes_messages` | `MultipartReassemblyProofs` |
| `PartTable` | abstract: a table of collections of parts, one per key | `reassembly` (as `ImplementsPartTable`) | `MultipartReassemblyProofs` |
| `CommandLoop` | the loop, callbacks and chip of one v2 or v3 node | `loops`, `loop_v3_ack` | `CommandLoopProofs` |
| `Mesh` (`MCMesh`) | what v3 nodes do with whole messages: post, answer, relay | `mesh`, `mesh_posts_prefixed`, `mesh_confirmation_ignored` | `MeshProofs` |
| `NodeConfig` (`MCNodeConfig`) | the settings of a v3 node in memory and in flash | `node_config`, `gateway_not_restored` | `NodeConfigProofs` |
| `AddressRegistry` (`MCAddressRegistry`) | registrations and pins: wallets and the hub's address book | `registry` | `AddressRegistryProofs` |
| `WalletUtxos` (in `MCTransactions`) | the hub's listing of outputs and the wallet's table, with its two threads | `transactions` | `WalletUtxosProofs` |
| `HubTransfers` (in `MCTransactions`) | transactions in parts from wallets into the hub's one packet | `transactions` | `HubTransfersProofs` |

The modules cut the v3 node along its calls. `RequestQueue` calls "send a broadcast"
and does not look inside; `CommandLoop` looks at the transmissions and the flags and
not at what they carry; `MultipartReassembly` looks at parts; `Mesh` starts where
reassembly hands over a whole message; `NodeConfig` is what all of them read at boot.
Wallet and hub are cut along their conversations: `AddressRegistry` for requests of one
packet, `WalletUtxos` for what goes to the wallet in parts, `HubTransfers` for what
goes to the hub in parts. Where one module abstracts the other its comments say so.
Definitions named "Mutant" are variants of the definition that follows or precedes
them with a plausible mistake. No action uses them; they show that each property can
fail.

### RequestQueue and BroadcastTurns

`pc` is the place in a pass of `loop()`: `"web"` (one client is served), `"timeouts"`
and `"scan"` (`CheckRequestTimeouts`, with its downward loop step by step),
`"radio"` (a confirmation may be handled). A queue entry keeps its id, its timestamp,
and what sending it does: one packet, several parts, or refused for its length.
`status` is a ghost that remembers what became of each request; `waited` and `age`
are ghosts for true time, next to the wrapped clock (`ClockMod` stands for 2^32) the
code subtracts from. `IInv` is the inductive invariant.

Only `handleApiBroadcast` calls `QueueRequest`, always with a broadcast that needs
confirmation, so the other request types and the recursion of
`ProcessNextQueuedRequest` for unconfirmed requests never happen and are left out.

A confirmation may be handled at any time here, which covers confirmations by a peer
of any make. The firmware's own peers send one that is never recognised (see
`mesh_confirmation_ignored`): among them only the steps without it occur.

`BroadcastTurns` promises the same without array, clock and passes: what is accepted waits
in a set of at most `Capacity` requests, the oldest takes off in the very step in which the
flight before it ends, and each accepted request waits, flies or has one outcome. The mapping
reads the set off the array (`PendingIds`), the flight off `currentRequestState` and
`currentRequestId` (`Flying`) and the outcomes off `status` (`Outcomes`). A dispatch is not
an action of its own in the code: it happens inside a confirmation, a timeout or an accepted
broadcast, so each of these is one abstract step that includes `NextTurn`.

### MultipartReassembly and PartTable

A sender is blocked while it sends, so a node sends the parts of one message in order
and one message at a time (`nextPart`). Each part is received or lost. The receiver's
`multipartBuffer` is a sequence of at most `Slots` sessions found by sender and data type
(`Key`); part contents are represented by the message they came from, so that a mixture
shows. `spoiled` and `overlapped` are ghosts for the preconditions of the properties:
a message lost a part, was refused, met an open session of its key, or expired while
being sent.

`PartTable` knows no slots: it maps each key to the parts collected for it, and its
steps put a part in, complete, or drop a collection while at most `Capacity` are open.
The refinement mapping `TableOf` reads it off the array.

### CommandLoop

One module for both firmware versions: `hasWeb` is chosen at the start and never changes, TRUE
for v3 and FALSE for v2, which has no web server and receives no packet that makes it
transmit from inside `OnRxDone` (`Received`). A handler that transmits puts its list of transmissions in `todo`, each with the
`delay` that follows it, and `Transmit` sends one at a time, so that the chip moves on
between them; `back` says where the handler returns and whether it sets `isLoRaIdle`. The
radio library is outside the repository; the module assumes of it what the code relies on:
`Radio.Send`, `Rx` and `Sleep` take effect at once and end what was going on, an
interrupt is kept until `Radio.IrqProcess` polls it and a newer one of the same kind
replaces it, and transmissions end. A packet of 255 bytes at SF7 and 125 kHz takes
399 ms, so a `delay` of 500 ms or more (`"long"`) outlasts it and one of 100 ms
(`"short"`, F3:1604) does not. `owed` and `cut` are ghosts: pingers waiting for an
acknowledgement, and kinds of packets interrupted by the node itself.

### Mesh

A text is the body a client gave and a number of `transaction:<priority>:` prefixes,
because prefixes are all that the forwarding code changes. `air` is a bag of messages,
each heard (`Receive`) or lost. A broadcast that fits one packet is heard by
nobody: `SendBroadcast` (F3:2474) and `SendTransaction` (F3:1612) write their text
over the address fields, and no node of the modelled mesh has an address that happens
to equal those characters. A text of more than 20 parts is not sent. A gateway posts and
answers whatever the Dogecoin network said. Two messages of one sender that overlap at
a receiver are the subject of `MultipartReassembly` and do not mix here.

### NodeConfig

`ram` is what the node works with, `nvs` the keys in flash. A request puts its library
calls in `job`; `WriteKey` makes one key durable at a time, `WriteFails` loses the rest of
one call, `Finish` is the code after the calls, and `PowerLoss` may come between any two
steps; `setup` loads what there is. NVS is outside the repository: a key is written
durably and atomically, erasing a namespace takes its keys one after the other in any
order, and a key of more than 15 characters is refused, which is what the comment at
F3:816 says. `failed` and `torn` are ghosts for the preconditions: namespaces in which a
write failed, or whose save the power cut short.

`connectToInternetWiFi` looks at `WiFi.status` after `WiFi.begin`; the module takes it to
speak of the new credentials. A torn save of the LoRa address or the WiFi credentials
mixes fields of two entries, since neither erases first; only the gateway's save is
ordered so that no mixture of password and host results, and that is what
`PasswordGoesToItsGateway` says. A blank user is not written, so a former user stays in
flash next to the new host; `SettingsSurviveRestart` therefore leaves the user out, as it
leaves out host names longer than the buffer they are read into.

### AddressRegistry

Each wallet keeps a pin and a loaded address and nothing about what the hub accepted; the
hub keeps owner and pin of each address in memory and the watch list in a file. `up` and
`down` carry requests and answers in order, and each may be lost. An answer carries
neither the address nor anything to tell which request it is about. A balance travels
XORed with the hub's pin and is modelled by the pin it is under.

Three ghosts state when the two sides may rightly differ. `unsure`: a request that sets a
pin was lost, a registration was refused, the user set the pin by hand or loaded another
address, or another node changed the pin. `moved`: the pin was set while a balance was
asked for. `torn`: the library failed to change the watch list, or the hub was restarted.
What the code does in these cases is in the model: the wallet stores a new pin before the
hub has answered; a failure of the watch list is answered with success; a restart empties
the book while the file goes on watching; anybody may ask for any balance.

### WalletUtxos, HubTransfers and MCTransactions

`WalletUtxos` follows a listing from the hub's wallet file to a transaction. The hub reads
it with one library call for the number and two for each output, and each call reads
the file anew (`GetAllUTXOs`), while the SPV node changes it (`OwnedChanges`). The parts go
to the wallet in order or are lost, and are copied to the end of `multipartBuffer`
as they come (`AppendPart`). The serial thread writes `numUTXOs` and then a table entry in
two steps (`DeserializeId`, `DeserializeAmount`); the menu thread reads and writes the same
table in steps of its own. Each step of a thread is one access to what they share. Bytes
that are not where they belong are read as garbage: the id of no output, or any amount.
What follows a write past the end is undefined, so `overrun` stops the behaviour.
`spoiled` is set when the two threads work on the table at the same time, after a loss,
for a listing read during a change, and for an output typed in twice.

`HubTransfers` is the way back. `currMultipartPacket` waits for a part number and takes a
part with this number from whoever sends it; only its first part sets sender and total.
`Receive` is everything that happens to what is on the air. The answer to a transaction
says how the broadcast went and not which transaction it was.

The two share no state. `MCTransactions` runs both in one state space and `way` chooses
between them at the start.

## 3. Runs

| Run | Question | Bounds and why they are enough |
|---|---|---|
| `request_queue` | Is the queue exact; do timeouts fire neither early, nor late, nor never; does it all implement turns: in order, one in flight, within its capacity? | Queue of 2 and 4 requests: full, refused, removed at either end. Timeouts 2 and 4 keep the 15 s : 30 s proportion, clock wraps at 7, so it wraps several times with requests waiting. |
| `reassembly` | Are sessions exact and bounded in age, is only what was sent handed over, does the array implement the abstract table, do sessions end? | Two senders and four messages; two have the same key and different lengths; 2 slots for 3 keys, so that parts are refused. The clock wraps at 4, timeout 1. |
| `reassembly_mixes_messages` (violation) | Is what is handed over always one message? | As `reassembly`. |
| `loops` | Does a node, v2 or v3, acknowledge each ping once, and lose no idle flag? Does v2 acknowledge to the sender, uncut, and always receive again? Which packets of v3 are never cut? | Two pinging nodes, so that a wrong destination shows, and messages of two parts: a first and a last one. |
| `loop_v3_ack` (violation) | Does the acknowledgement of v3 go to the pinger? | Two pinging nodes; one part suffices. |
| `mesh` | Does the air become quiet; is only what was posted answered; does what is sent get posted and answered, and is it until then always under way? | Line of three with the gateway at its end; texts of 3 to 5 with room for 6, so that one relay fits and the storm is cut off after it. One broadcast needs a relay, one is in range, one is for the gateway alone. |
| `mesh_posts_prefixed`, `mesh_confirmation_ignored` (violations) | Is the transaction posted as given behind a relay? Does the answer end the wait? | As `mesh`. |
| `node_config` | What does a restart bring back; does a gateway's password stay with its gateway; do stored WiFi credentials work? | The requests of a behaviour are about one namespace (`focus`): namespaces share writes, power and setup and no keys. Two values of each setting; four gateways, one of each type and two of one, one with a long host name. No bound on saves, failures and restarts. |
| `gateway_not_restored` (violation) | Does a saved gateway survive a restart? | As `node_config`. |
| `registry` | When do the pins of wallet and hub agree; is a balance decoded with the pin it was encoded with; do book and watch list name the same addresses? | Two wallets, two addresses, two pins, three requests (`MaxSent`): a registration and two updates under way at once, or two wallets at one address. Restarts, losses and failures are not bounded. Wallets and addresses are interchangeable. |
| `transactions` | Is a transaction built from outputs that exist, each once, with their amounts; does no thread write past a table; is what the hub broadcasts one transaction, and is it answered, once, to its own wallet? | Three outputs, a table of three, a buffer of two outputs: a listing of three is too long. Two requests: a second listing meets the table and the buffer of the first. One change, one addition by hand. Two wallets with transactions of 3 and 2, and of 3 and 1 parts, so that some end before the part the hub may be waiting for; two losses. |

Violation runs are disagreements between the code and its own documents or
comments; `PROJECT.json` "findings" quotes each. In short: after a loss two messages can be
joined into one; in v3 an acknowledgement can go to the wrong node; a transaction that
needed a relay is posted with a prefix and is no transaction; no confirmation is
recognised; and the endpoint of a gateway is never stored. `mesh` shows why the
prefix is not mended by dropping the extra one: with `RelayedOnce`, its mutant for
`QuietInTheEnd`, two nodes send the text back and forth for ever, for the growing prefix is
the only thing that stops them (`MAX_REBROADCAST_HOPS`, F3:122, is not used).

What the code does and no property forbids, because nothing says otherwise:

* Node: accepted broadcasts expire in the queue while two silent flights of 15 s go by; one
  older than its timeout is sent when its turn comes before the scan (F3:2448); parts
  of a long message cut one another (F3:1604); the second confirmation of v3 and the
  single-packet relay of F3:2075 are cut by the node's own `Radio.Rx`; a packet from the
  host can be cut by an interrupt of the packet before it (F2:397); a v3 node that a client
  makes send in every pass does not receive.
* Mesh: behind a relay the answer reaches the relay and not the originator (F3:2187),
  against `src/heltec-firmware-v3/README.md:719`; `InRangeIsAnswered` is therefore about nodes
  in range.
* Wallet and hub: a wallet whose pin update was lost has no way to find out; outputs stay in
  the table after they are spent and the hub never sends an empty listing (serdog.c:911);
  after a loss the hub's packet stays half filled, shorter transactions are refused for
  ever and a longer one may complete a mixture; the buffer of 4096 bytes takes 53 outputs,
  fewer than the 64 of the table.

`CHECK_DEADLOCK FALSE` is set for `MCMesh` and `MCTransactions` only. In the first each
client asks once, and a mesh with nothing on the air and nothing to ask for stops; in the
second wallets have sent what they had, or a write past the end has ended the
behaviour. Elsewhere nothing stops, and the runs check deadlock.

### Fairness

* `loop()` is called by the Arduino runtime for ever, so each part of a pass is weakly
  fair (`RequestQueue`, `MultipartReassembly`, `CommandLoop`). Nothing is assumed of
  web clients, the serial host, senders, or arriving packets.
* `millis()` advances: `SF_vars(Tick)`. It is strong because `Tick` is disabled during
  the instant a scan takes, again and again.
* `CommandLoop`: a transmission ends (`WF_vars(TxEnds)`); the chip's own transmission
  timeout is 3 s.
* `Mesh`: what is sent is heard or lost in the end (`WF_vars(Deliver)`). Radio does not
  store messages.
* `HubTransfers`: what is on the air arrives or is lost in the end (`WF(Receive)`), since
  the serial callback of the hub and the serial thread of the wallet always run. One
  condition for all of it is enough: each of its steps takes something off the air, and
  what is put on is limited.

`NodeConfig`, `AddressRegistry` and `WalletUtxos` have no liveness properties: a user need
not ask, the power may stay off, and what is lost is not repeated.

## 4. Proofs

All theorems hold for every value of the constants that the named assumptions allow.

**`RequestQueueProofs`** proves `IInv` inductive and from it its named parts and every safety
property of `request_queue`: `TypeCorrect`, `NothingWaitsWhenIdle`, `AtMostOneInFlight`,
`FirstInFirstOut`, `NothingLostInTheQueue`, `NeverExpiresEarly`, `NeverTimesOutEarly`,
`NoWaitIsLong`. The properties are not inductive alone. `IInv` adds `IdsInOrder` (ids grow, and
`currentRequestId` was handed out) and `AgesExact`: the difference modulo `ClockMod` that
the code computes is the true age. It needs a bound on ages, which holds because
each scan removes what is too old and scans are at most `MaxPass` apart, entries that the
running scan has not reached being allowed one pass more. `ClockAssumption`
(`ClockMod` exceeds a timeout and two passes) is what makes modular subtraction exact.
`QueueImplementsTurns` shows the refinement of `BroadcastTurns` step by step. The code removes,
dispatches and settles in one call, with intermediate queues the state never shows, so the
proof follows the arguments of that call (`Dispatchable`: a queue in order that holds what a
given status calls queued) and shows once that a dispatch of any such queue is `NextTurn` of
its set (`DispatchIsNextTurn`). That the abstract bound on waiting requests is kept needs the
array to hold each request once (`WaitingFits`: as many in the set as in the array).

**`MultipartReassemblyProofs`** proves every safety property of `reassembly`
(`BufferTypeCorrect`, `CountsAreExact`, `SessionsAreBounded`, `OnlyWholeMessages`,
`CompleteMessagesArrive`) for any messages, slots and losses, and `ArrayImplementsTable`: that
each step of the array is a step of `PartTable` or a stutter. Both rest on the sessions having
different keys (`KeysDiffer`), with which finding, appending and shifting in the array become
statements about the session of one key. `IInv` adds what is true of messages half
received: `Pure` (a session whose key nothing overlapped holds parts of one message, and no
other of its key is being sent), `OnItsWay` (the session of a message that has lost nothing
holds exactly the parts sent so far) and `OneSender`. Of the clock it needs what the queue's
proof needs: `ClockMod` exceeds the timeout and two passes.

**`CommandLoopProofs`** proves every safety property of `loops`: `LoopTypeCorrect`,
`NodeIsNeverDeaf`, `PingsAcknowledgedOnce`, `TransactionPartsAreSent` and `ConfirmationsAreSent` for
both versions, and `V2AcksGoToPinger` and `V2AcksAreTransmitted` for v2; of v3 the former is
false (`loop_v3_ack`). The strengthenings are `Patient` (packets that must not
be cut are followed by a long delay), `PausedOnAir` (while one is on the air its handler
is in that delay), `OneDebt` (the flag and the list of pingers agree, and while a ping is
owed the loop is at a place where no other is received) and `AckIsPrivate` (in v2 nothing
comes between a ping and its acknowledgement, so `dest` is still the pinger).

**`MeshProofs`** proves every safety property of `mesh` for any graph of nodes, gateways and
requests: `MeshTypeCorrect` and `OnlyPostedIsAnswered`, with the strengthening that only issued
requests are on the air, and on top of them `NoAnswerIsForgotten` and `NoRelayIsForgotten`. For
the last two, facts about bags say that a step takes only the message it handles off the
air; it remains to see what each handler puts there for it. `FirstStripped` is where the
number of prefixes comes in: a text straight from its origin has at most one, so what a
gateway in range posts is what the client gave, and `Relayed` makes it longer, never short
enough for a single packet, which nobody would hear. `RelayedIsLonger` (a rebroadcast is
strictly longer than what was heard) is the variant behind `QuietInTheEnd`.

**`AddressRegistryProofs`** proves every safety property of `registry` (`RegistryTypeCorrect`,
`PinsStayTogether`, `SureWalletIsNotRefused`, `BookFollowsWatch`, `BalancesAreReadable`) for any
wallets, addresses, pins and number of requests. `PinsAgree`
speaks of the moment when nothing is under way; the strengthening `PinChain` says what
holds meanwhile. The requests of a wallet that is not `unsure` are about its loaded address
after the last registration among them, each shows the pin that the one before it sets,
the last sets the wallet's pin, and the first shows the pin the hub has. `BalanceIsReadable`
is about the moment a balance arrives; `BalancesStand`, on top of the chain, says that while
the pin was not set behind a balance, each request for a balance will find the hub with the
wallet's pin, and each balance on its way down is under that pin.

**`HubTransfersProofs`** proves `TransferInvariant`, `BroadcastsAreWhole` and `EachHasOneResult` for
any number of wallets, transactions, parts and losses. The invariant is `InOrder` (the parts of a wallet on
the air follow each other up to the last of each message), `Fresh` (an empty packet is as
new) and `Continues` (an undisturbed packet holds the first parts of one message and the
next of them is the first its wallet has on the air). `EachHasOneResult` needs more (`ResultInv`):
a part is on the air once and of a transaction that was sent (`AirOnce`), and while nothing
was lost and no transfers overlapped, the packet waits for exactly the part that the wallet
in the middle of a transfer sends next (`InStep`). So no part is refused, each last part
completes a packet, and `Accounted` follows each transaction from its last part to its
answer to what its wallet prints.

**`WalletUtxosProofs`** proves `UtxosTypeCorrect`, `TableIsNotOverrun` and
`TransactionsAreSound` for any outputs, table, buffer and part length, with any number of
listings, changes and additions, and any interleaving of the two threads. For the bounds the
invariant `UInv` speaks of the air, since the wallet compares nothing: the parts follow each
other (`PartsInOrder`), the buffer holds the ones before the next (`BufferBehind`), so a
count that is stored is one of a listing that fitted the buffer (`TableBounded`). That this
is fewer than the table has room for is `FitAssumption`: 4096 bytes hold 53 outputs, and the table 64.
For the transactions `TInv` follows a listing through the two programs: a listing that was
not torn is `ListingOf` distinct outputs with their amounts (`ReadingTrue`), its parts travel
together and are its pieces (`RunsComplete`), the buffer holds its beginning (`BufferTrue`),
while the table is written the slots below the loop's index hold what the listing says
(`SerialTrue`), afterwards all do (`PollTrue`), and the inputs of a transaction are the first
slots (`MenuTrue`). `OwnedAssumption` says that the hub's wallet file has an output once, at
the start; that it stays so is part of the invariant. After a lost part or an overlong
listing nothing is claimed of the bounds; `TransactionsAreSound` claims nothing of the
transactions made once the table is `spoiled`, until it is filled anew.

**`NodeConfigProofs`** proves every safety property of `node_config` (`SettingsTypeCorrect`,
`PasswordsStayWithGateways`, `ControlFollowsAddress`, `SettingsAreKept`,
`StoredCredentialsWorked`) for any addresses, credentials and gateways. `PasswordGoesToItsGateway`
speaks of memory, which is loaded from flash, so the invariant says `Together` of flash: it
has no password, or no keys but those of one gateway that was entered. In the middle of a
save flash is neither the old nor the new gateway, so `Progress` follows the calls: for
some gateway and some `i`, the calls that are left are those after the first `i` of
`GatewayWrites`, and flash is as the first `i` leave it (`Written`): both passwords are gone
after the second, and the new one is there only after the last. When a call has failed
nothing is claimed until a save has run through. `ControlInv` adds that a save of another
namespace leaves memory with the address in the control messages. `SettingsSurviveRestart` and
`StoredWiFiWorked` speak of flash after a save; in the middle of one they follow from the calls
that are left (`WillHold`: a key will hold what the last of them that has it writes, or
what it holds already), which a write made does not change, so nothing has to be said about
how far a save has come. `AbsentAssumption` says that what is entered is not what
the model uses for a missing key.

The type invariants of all modules are proved and not repeated in runs. Nor are `IdleMeansDrained`,
`OneInFlight` and `NoOvertaking` of the queue: `BroadcastTurns` says as much step by step, so
`request_queue` checks `ImplementsTurns`, and the three remain parts of `IInv`.

Every safety property that a passing run checks is also proved. Only model-checked is liveness
(`QueuedLeaves`, `FlightEnds`, `SessionsEnd`, `V2ListensAgain`, `PingIsAcknowledged`,
`QuietInTheEnd`, `InRangeIsAnswered`, `RelayReachesGateway`, `SentIsAnswered`): it rests on fairness
and is out of the prover's reach. What it rests on besides is stated and proved as safety,
for every value of the constants:

| Liveness (TLC) | Its safety part (proved) | What only fairness adds |
|---|---|---|
| `QueuedLeaves`, `FlightEnds` | `WaitsAreBounded`: no wait exceeds its timeout and two passes | that time passes |
| `SessionsEnd` | `AgeBounded` | that time passes |
| `PingIsAcknowledged` | `EachPingAcknowledgedOnce`: what is owed is flagged | that the loop goes round |
| `InRangeIsAnswered` | `AnsweredUnlessLost`: the text or the answer is under way | that what is on the air is heard or lost |
| `RelayReachesGateway` | `RelayedUnlessLost`: the text is under way on one of its two hops | the same |
| `SentIsAnswered` | `OneResultEach`: the last part or the result is under way | the same |

## 5. Not modelled

* Messages of more than `MAX_MULTIPART_PARTS` parts, which `SendMultipartMessage` does not
  refuse (F3:1546).
* HTTP, JSON and JSON-RPC, web pages, the log, the display: formatting and I/O. The single-packet
  web handlers `handleMessage`, `handleTransaction`, `handleBroadcast` are in `CommandLoop` as
  transmissions.
* WiFi, DNS and proxy beyond what is stored: library calls with little state of this
  program's own. `internet_bridge_enabled` is left set after a disconnect (F3:1108).
* The framing of the serial line: both sides take commands whole. `isCompleteCmd`
  (serdog.c:1060) never recognises two commands read at once.
* Wallet: console prompts, signing, the key file, the test mode's multipart messages and
  the sharing of its own address as a sender.
* Hub: the menus, demonstrations and setup answers, and the life of the external `spvnode`
  process.
* Vendored code and data: by far most of the files of the repository, and none of its own logic.

## 6. Plan

1. Serial framing: bytes from a serial port to whole commands, on both sides.
2. `SPVNodeManager.cs`: starting, restarting and stopping the process.
3. More of the mesh: failed posts, and answers of more than one packet through
   `MultipartReassembly`.
