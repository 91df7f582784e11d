------------------------------ MODULE WalletUtxos ------------------------------
(***************************************************************************)
(* The unspent outputs of a serdog wallet (src/serdog/serdog.c): asked for *)
(* at the hub, sent in parts over the radio, put together and written into *)
(* currUTXOs by the serial thread, added to and cleared by the user, and   *)
(* spent by createTransaction in the menu thread.  The two threads share   *)
(* numUTXOs and currUTXOs and take no lock.                                *)
(*                                                                         *)
(* The hub (RadioDogeSharp) reads the number of outputs and then each      *)
(* field of each output with a library call of its own; every call reads   *)
(* the wallet file again, which the SPV node rewrites.                     *)
(*                                                                         *)
(* A listing is a sequence of fields: the count, then per output its id    *)
(* (vout and txid) and its amount.  Bytes that are not where they belong   *)
(* are read as garbage: no id of an output, and any amount.                *)
(***************************************************************************)
EXTENDS Integers, Sequences, SequencesExt

CONSTANTS
    Utxos,           \* outputs, by vout and txid
    Amount,          \* the amount of each output
    FirstOwned,      \* sequences of outputs the hub may start with
    Garbage,         \* an id that is no output's
    GarbageAmounts,  \* amounts that misplaced bytes may spell
    Wanted,          \* what a transaction may need, the fee included
    MaxNumUtxos,     \* MAX_NUM_UTXOS, the size of currUTXOs
    BufferLen,       \* size of multipartBuffer, in fields
    PartLen,         \* MAX_PAYLOAD_BYTES, in fields
    MaxRequests,     \* bound: listings asked for
    MaxChanges,      \* bound: changes of the hub's outputs
    MaxAdds          \* bound: outputs typed in

ASSUME UtxoAssumption == Garbage \notin Utxos /\ Amount \in [Utxos -> Nat]
ASSUME AmountAssumption == GarbageAmounts \subseteq Nat /\ Wanted \subseteq Nat
ASSUME SizeAssumption == /\ MaxNumUtxos \in Nat \ {0}
                         /\ BufferLen \in Nat /\ PartLen \in Nat \ {0}
\* An output is in the wallet file once.
ASSUME OwnedAssumption ==
    /\ FirstOwned \subseteq Seq(Utxos)
    /\ \A o \in FirstOwned : \A i, j \in 1..Len(o) : o[i] = o[j] => i = j
ASSUME BoundAssumption == MaxRequests \in Nat /\ MaxChanges \in Nat /\ MaxAdds \in Nat
\* multipartBuffer has 4096 bytes: 53 outputs, and currUTXOs has room for 64.
ASSUME FitAssumption == BufferLen < 1 + 2 * MaxNumUtxos

VARIABLES
    owned,      \* the outputs in the hub's wallet file, in order
    reading,    \* the listing the hub is reading, or a record with n = 0
    requests,   \* requests on their way to the hub
    parts,      \* parts on their way to the wallet, in order
    buffer,     \* multipartBuffer up to multipartIndex
    patchy,     \* ghost: a part was lost since the buffer was begun
    numUTXOs, ids, amounts,  \* numUTXOs and currUTXOs, slots counted from 0
    serial,     \* serial thread: the loop of deserializeUTXOs
    menu,       \* menu thread: what it is in the middle of
    made,       \* the inputs of the last transaction made
    spoiled,    \* ghost: the table may rightly be wrong
    overrun,    \* the table or the buffer was accessed past its end
    excess,     \* ghost: a part was lost or a listing too long was sent
    used        \* bound: requests, changes and additions so far

hubVars   == <<owned, reading, requests>>
tableVars == <<numUTXOs, ids, amounts>>
walletVars == <<parts, buffer, patchy, tableVars, serial, menu, made, spoiled,
                overrun>>
utxoVars  == <<hubVars, used, excess, walletVars>>

Slots   == 0..(MaxNumUtxos - 1)
Field   == [f : {"count"}, v : Nat] \cup [f : {"id"}, v : Utxos]
             \cup [f : {"amount"}, v : Nat]
\* "torn" is a ghost: the outputs changed while the hub read them.
Part    == [no : Nat \ {0}, total : Nat \ {0}, fields : Seq(Field), torn : BOOLEAN]
Ids     == Utxos \cup {Garbage}
Input   == [id : Ids, amount : Nat]

UtxoTypeOK ==
    /\ owned \in Seq(Utxos)
    /\ reading \in [n : Nat, fields : Seq(Field), torn : BOOLEAN]
    /\ requests \in Nat
    /\ parts \in Seq(Part)
    /\ buffer \in Seq(Field) /\ Len(buffer) <= BufferLen
    /\ numUTXOs \in Nat
    /\ ids \in [Slots -> Ids] /\ amounts \in [Slots -> Nat]
    /\ serial \in [pc : {"poll", "id", "amount"}, i : Nat, from : Seq(Field)]
    /\ menu.pc \in {"idle", "type id", "type amount", "take id", "take amount"}
    /\ made \in Seq(Input)
    /\ {patchy, spoiled, overrun, excess} \subseteq BOOLEAN
    /\ used \in [requests : 0..MaxRequests, changes : 0..MaxChanges, adds : 0..MaxAdds]

NoReading == [n |-> 0, fields |-> <<>>, torn |-> FALSE]
Polling   == [pc |-> "poll", i |-> 0, from |-> <<>>]
Idle      == [pc |-> "idle"]

\* The table is zeroed memory; nothing has been asked for.
UtxoInit ==
    /\ owned \in FirstOwned
    /\ reading = NoReading
    /\ requests = 0
    /\ parts = <<>>
    /\ buffer = <<>> /\ patchy = FALSE
    /\ numUTXOs = 0
    /\ ids = [s \in Slots |-> Garbage]
    /\ amounts = [s \in Slots |-> 0]
    /\ serial = Polling
    /\ menu = Idle
    /\ made = <<>>
    /\ spoiled = FALSE /\ overrun = FALSE /\ excess = FALSE
    /\ used = [requests |-> 0, changes |-> 0, adds |-> 0]

Count(what) == used' = [used EXCEPT ![what] = @ + 1]

---------------------------------------------------------------------------
(* The hub.                                                                *)

\* The SPV node finds a new output or sees one spent.
OwnedChanges ==
    /\ used.changes < MaxChanges
    /\ \/ \E u \in Utxos \ ToSet(owned) : owned' = Append(owned, u)
       \/ \E i \in DOMAIN owned : owned' = RemoveAt(owned, i)
    /\ reading' = IF reading = NoReading THEN reading
                  ELSE [reading EXCEPT !.torn = TRUE]
    /\ Count("changes")
    /\ UNCHANGED <<requests, excess, walletVars>>

\* A request is answered with a listing, or it is lost, or it is answered with a
\* failure, which does not touch the wallet's table.  A failure is also what the
\* wallet gets when its last output is spent.
ServiceUTXORequest ==
    /\ requests > 0
    /\ reading = NoReading
    /\ requests' = requests - 1
    /\ \/ UNCHANGED reading
       \/ /\ owned # <<>>
          /\ reading' = [n |-> Len(owned), torn |-> FALSE,
                         fields |-> <<[f |-> "count", v |-> Len(owned)]>>]
    /\ UNCHANGED <<owned, excess, used, walletVars>>

\* The output the hub is at; its id is read first, in a later call its amount.
Index == (Len(reading.fields) + 1) \div 2
AtId  == Len(reading.fields) % 2 = 1

\* The amount of an index past the end is a string nobody wrote.
NextField ==
    IF AtId THEN {[f |-> "id", v |-> owned[Index]]}
    ELSE {[f |-> "amount", v |-> a] :
            a \in IF Index <= Len(owned) THEN {Amount[owned[Index]]} ELSE GarbageAmounts}

AllRead == Len(reading.fields) = 1 + 2 * reading.n

\* One call into the library.  When the list has become shorter than the index,
\* the id is no string, and the exception ends the listing; without any output
\* left so does the amount.
GetAllUTXOs ==
    /\ reading # NoReading /\ ~AllRead
    /\ IF Index > Len(owned) /\ (AtId \/ owned = <<>>) THEN reading' = NoReading
       ELSE \E field \in NextField : reading' = [reading EXCEPT !.fields = Append(@, field)]
    /\ UNCHANGED <<owned, requests, used, excess, walletVars>>

PartsOf(fields, total, torn) ==
    [k \in 1..total |->
       [no |-> k, total |-> total, torn |-> torn,
        fields |-> SubSeq(fields, (k - 1) * PartLen + 1,
                          IF k * PartLen > Len(fields) THEN Len(fields)
                          ELSE k * PartLen)]]

\* Mutant: the remainder has no part of its own.
PacketsWithoutRemainder(fields, torn) ==
    PartsOf(fields, Len(fields) \div PartLen, torn)

CreateMultipartPackets(fields, torn) ==
    PartsOf(fields, (Len(fields) + PartLen - 1) \div PartLen, torn)

SendMultipartPacket ==
    /\ reading # NoReading /\ AllRead
    /\ parts' = parts \o CreateMultipartPackets(reading.fields, reading.torn)
    /\ excess' = (excess \/ Len(reading.fields) > BufferLen)
    /\ reading' = NoReading
    /\ UNCHANGED <<owned, requests, used, buffer, patchy, tableVars, serial, menu,
                   made, spoiled, overrun>>

---------------------------------------------------------------------------
(* The serial thread, serialPollThread.                                    *)

LosePart ==
    /\ parts # <<>>
    /\ parts' = Tail(parts)
    /\ patchy' = TRUE
    /\ excess' = TRUE
    /\ UNCHANGED <<hubVars, used, buffer, tableVars, serial, menu, made, spoiled,
                   overrun>>

\* processReceivedUTXOs stores the count it reads and goes on to the outputs.
\* What does not begin with a listing's first bytes is another message, or a
\* listing with any count.
processReceivedUTXOs(whole, doubtful) ==
    LET start(n) == /\ numUTXOs' = n
                    /\ serial' = [pc |-> "id", i |-> 0, from |-> whole]
    IN  IF whole[1].f = "count"
        THEN /\ start(whole[1].v)
             /\ spoiled' = (doubtful \/ menu # Idle)
        ELSE \/ UNCHANGED <<numUTXOs, serial, spoiled>>
             \/ /\ \E n \in 0..(MaxNumUtxos + 1) : start(n)
                /\ spoiled' = TRUE

\* parseMultipartPayload: the part goes behind what the buffer has, and its own
\* number says whether it is the last.
AppendPart(part, kept) ==
    LET whole   == buffer \o part.fields
        patched == patchy /\ ~(buffer = <<>> /\ part.no = 1)
        last    == part.no = part.total
    IN  IF Len(whole) > BufferLen
        THEN overrun' = TRUE /\ UNCHANGED <<buffer, patchy, numUTXOs, serial, spoiled>>
        ELSE /\ buffer' = IF last THEN kept ELSE whole
             /\ patchy' = patched
             /\ IF last THEN processReceivedUTXOs(whole, patched \/ part.torn)
                ELSE UNCHANGED <<numUTXOs, serial, spoiled>>
             /\ UNCHANGED overrun

\* Mutant: multipartIndex is not reset.
ReceiveWithoutReset ==
    /\ serial = Polling
    /\ parts # <<>>
    /\ parts' = Tail(parts)
    /\ AppendPart(Head(parts), buffer \o Head(parts).fields)
    /\ UNCHANGED <<hubVars, used, ids, amounts, menu, made, excess>>

ReceivePart ==
    /\ serial = Polling
    /\ parts # <<>>
    /\ parts' = Tail(parts)
    /\ AppendPart(Head(parts), <<>>)
    /\ UNCHANGED <<hubVars, used, ids, amounts, menu, made, excess>>

\* What the bytes at a place of the payload give when read as field f.
Reads(k, f) ==
    IF k <= Len(serial.from) /\ serial.from[k].f = f THEN {serial.from[k].v}
    ELSE IF f = "id" THEN {Garbage} ELSE GarbageAmounts

\* One pass of the loop, up to the amount; the loop reads numUTXOs each time.
DeserializeId ==
    /\ serial.pc = "id"
    /\ IF serial.i >= numUTXOs
       THEN serial' = Polling /\ UNCHANGED <<ids, overrun, spoiled>>
       ELSE IF serial.i >= MaxNumUtxos
       THEN overrun' = TRUE /\ UNCHANGED <<serial, ids, spoiled>>
       ELSE /\ \E u \in Reads(2 * serial.i + 2, "id") : ids' = [ids EXCEPT ![serial.i] = u]
            /\ serial' = [serial EXCEPT !.pc = "amount"]
            /\ spoiled' = (spoiled \/ menu # Idle)
            /\ UNCHANGED overrun
    /\ UNCHANGED <<hubVars, used, excess, parts, buffer, patchy, numUTXOs, amounts,
                   menu, made>>

DeserializeAmount ==
    /\ serial.pc = "amount"
    /\ \E a \in Reads(2 * serial.i + 3, "amount") :
         amounts' = [amounts EXCEPT ![serial.i] = a]
    /\ serial' = [serial EXCEPT !.pc = "id", !.i = @ + 1]
    /\ UNCHANGED <<hubVars, used, excess, parts, buffer, patchy, numUTXOs, ids, menu,
                   made, spoiled, overrun>>

---------------------------------------------------------------------------
(* The menu thread.                                                        *)

\* A menu step that works on the table while the serial thread does.
Touch == spoiled' = (spoiled \/ serial # Polling)

RequestUTXOs ==
    /\ menu = Idle
    /\ used.requests < MaxRequests
    /\ requests' = requests + 1
    /\ Count("requests")
    /\ UNCHANGED <<owned, reading, excess, walletVars>>

ClearUTXOs ==
    /\ menu = Idle
    /\ numUTXOs' = 0
    /\ Touch
    /\ UNCHANGED <<hubVars, used, excess, parts, buffer, patchy, ids, amounts, serial,
                   menu, made, overrun>>

\* The user types in an output and its amount; the slot of the id is the one
\* numUTXOs named before the user typed.  An output typed in twice, or one that
\* was listed, is the user's mistake.
manuallyAddUTXO == \E u \in Utxos :
    /\ menu = Idle
    /\ used.adds < MaxAdds
    /\ numUTXOs # MaxNumUtxos
    /\ menu' = [pc |-> "type id", id |-> u, slot |-> numUTXOs]
    /\ spoiled' = (\/ spoiled \/ serial # Polling
                   \/ \E s \in Slots : s < numUTXOs /\ ids[s] = u)
    /\ Count("adds")
    /\ UNCHANGED <<hubVars, excess, parts, buffer, patchy, tableVars, serial, made,
                   overrun>>

TypeId ==
    /\ menu.pc = "type id"
    /\ IF menu.slot >= MaxNumUtxos THEN overrun' = TRUE /\ UNCHANGED <<ids, menu>>
       ELSE /\ ids' = [ids EXCEPT ![menu.slot] = menu.id]
            /\ \/ menu' = [menu EXCEPT !.pc = "type amount"]
               \/ menu' = Idle   \* "Invalid vout value!"
            /\ UNCHANGED overrun
    /\ Touch
    /\ UNCHANGED <<hubVars, used, excess, parts, buffer, patchy, numUTXOs, amounts,
                   serial, made>>

\* The amount goes to the slot numUTXOs names by now.
TypeAmount ==
    /\ menu.pc = "type amount"
    /\ IF numUTXOs >= MaxNumUtxos
       THEN overrun' = TRUE /\ UNCHANGED <<amounts, numUTXOs, menu>>
       ELSE /\ amounts' = [amounts EXCEPT ![numUTXOs] = Amount[menu.id]]
            /\ numUTXOs' = numUTXOs + 1
            /\ menu' = Idle
            /\ UNCHANGED overrun
    /\ Touch
    /\ UNCHANGED <<hubVars, used, excess, parts, buffer, patchy, ids, serial, made>>

createTransaction == \E d \in Wanted :
    /\ menu = Idle
    /\ numUTXOs >= 1
    /\ menu' = [pc |-> "take id", desired |-> d, inputs |-> <<>>]
    /\ made' = <<>>
    /\ Touch
    /\ UNCHANGED <<hubVars, used, excess, parts, buffer, patchy, tableVars, serial,
                   overrun>>

\* Past the table, a read gives anything.
TableIds(s) == IF s < MaxNumUtxos THEN ids[s] ELSE Garbage
TableAmounts(s) == IF s < MaxNumUtxos THEN {amounts[s]} ELSE GarbageAmounts

Total(inputs) == FoldSeq(LAMBDA in, sum : in.amount + sum, 0, inputs)

\* The loop ends without enough, or takes the id of the next slot.
TakeId ==
    /\ menu.pc = "take id"
    /\ IF Len(menu.inputs) >= numUTXOs THEN menu' = Idle
       ELSE menu' = [pc |-> "take amount", desired |-> menu.desired,
                     inputs |-> menu.inputs, id |-> TableIds(Len(menu.inputs))]
    /\ Touch
    /\ UNCHANGED <<hubVars, used, excess, parts, buffer, patchy, tableVars, serial,
                   made, overrun>>

\* With enough, the transaction is signed and made.
TakeAmount ==
    /\ menu.pc = "take amount"
    /\ \E a \in TableAmounts(Len(menu.inputs)) :
         LET inputs == Append(menu.inputs, [id |-> menu.id, amount |-> a])
         IN  IF Total(inputs) >= menu.desired
             THEN made' = inputs /\ menu' = Idle
             ELSE /\ menu' = [pc |-> "take id", desired |-> menu.desired,
                              inputs |-> inputs]
                  /\ UNCHANGED made
    /\ Touch
    /\ UNCHANGED <<hubVars, used, excess, parts, buffer, patchy, tableVars, serial,
                   overrun>>

---------------------------------------------------------------------------
HubStep    == OwnedChanges \/ ServiceUTXORequest \/ GetAllUTXOs \/ SendMultipartPacket
SerialStep == LosePart \/ ReceivePart \/ DeserializeId \/ DeserializeAmount
MenuStep   == \/ RequestUTXOs \/ ClearUTXOs
              \/ manuallyAddUTXO \/ TypeId \/ TypeAmount
              \/ createTransaction \/ TakeId \/ TakeAmount

\* What follows a write past the end is undefined.
UtxoNext == ~overrun /\ (HubStep \/ SerialStep \/ MenuStep)

UtxoSpec == UtxoInit /\ [][UtxoNext]_utxoVars

---------------------------------------------------------------------------
(* createTransaction (serdog.c:822) spends outputs that exist, each once,  *)
(* and counts for each the amount it has, unless a part of the listing was *)
(* lost, the hub's outputs changed while it read them, the two threads met *)
(* in the table, or the user typed an output in twice.                     *)
TransactionIsSound ==
    [][made' # made /\ ~spoiled' =>
         /\ \A i \in DOMAIN made' : /\ made'[i].id \in Utxos
                                    /\ made'[i].amount = Amount[made'[i].id]
         /\ \A i, j \in DOMAIN made' : made'[i].id = made'[j].id => i = j]_utxoVars

(* deserializeUTXOs, parseMultipartPayload and manuallyAddUTXO stay inside *)
(* currUTXOs and multipartBuffer, whatever the threads do to each other,   *)
(* unless a part was lost or the hub sent more outputs than there is room  *)
(* for.                                                                    *)
NoWritePastTable == overrun => excess
=============================================================================
