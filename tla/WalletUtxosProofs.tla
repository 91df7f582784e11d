--------------------------- MODULE WalletUtxosProofs ---------------------------
(***************************************************************************)
(* The wallet does not access currUTXOs or multipartBuffer past their      *)
(* ends, in any interleaving of its two threads, unless a part was lost or *)
(* a listing was too long to begin with (UInv), and the transactions it    *)
(* makes spend what exists (TInv, below).                                  *)
(*                                                                         *)
(* The wallet checks neither a count nor a length, so the invariants are   *)
(* about what is on the air.  For UInv the parts follow each other as they *)
(* were sent (PartsInOrder), each ends within the buffer if the ones       *)
(* before it fill it as they should, and the buffer holds those before the *)
(* next one (BufferBehind).  Then a count that is stored is one of a       *)
(* listing that fits, which leaves a slot free for an output that is being *)
(* typed in (TableBounded).                                                *)
(***************************************************************************)
EXTENDS WalletUtxos, SequenceTheorems, TLAPS

Counts(field) == field.f = "count" /\ field.v < MaxNumUtxos

MenuOK ==
    menu \in [pc : {"idle"}]
        \cup [pc : {"type id", "type amount"}, id : Utxos, slot : Nat]
        \cup [pc : {"take id"}, desired : Nat, inputs : Seq(Input)]
        \cup [pc : {"take amount"}, desired : Nat, inputs : Seq(Input), id : Ids]

\* A listing begins with the count of its outputs and has two fields for each.
ReadingOK ==
    reading # NoReading =>
        /\ reading.n > 0 /\ Len(reading.fields) \in 1 .. (1 + 2 * reading.n)
        /\ reading.fields[1] = [f |-> "count", v |-> reading.n]

Filled(part) == Len(part.fields) \in 1 .. PartLen /\ part.no <= part.total

PartsFilled == \A j \in 1 .. Len(parts) : Filled(parts[j])

\* A part that ends within the buffer when those before it do.
PartFits(part) ==
    /\ (part.no - 1) * PartLen + Len(part.fields) <= BufferLen
    /\ part.no = 1 => Counts(part.fields[1])

\* next may come after part.
InTurn(part, next) ==
    IF part.no = part.total THEN next.no = 1
    ELSE next.no = part.no + 1 /\ next.total = part.total

PartsInOrder ==
    /\ \A j \in 1 .. Len(parts) : PartFits(parts[j])
    /\ \A j \in 1 .. (Len(parts) - 1) : InTurn(parts[j], parts[j + 1])
    /\ parts # <<>> => parts[Len(parts)].no = parts[Len(parts)].total

\* The buffer holds the parts before the first one on the way.
BufferBehind ==
    IF parts = <<>> \/ parts[1].no = 1 THEN buffer = <<>>
    ELSE /\ buffer # <<>> /\ Counts(buffer[1])
         /\ Len(buffer) <= (parts[1].no - 1) * PartLen

TableBounded ==
    /\ numUTXOs <= MaxNumUtxos
    /\ menu.pc \in {"type id", "type amount"} =>
          numUTXOs < MaxNumUtxos /\ menu.slot < MaxNumUtxos

InBounds == ~excess => PartsInOrder /\ BufferBehind /\ TableBounded /\ ~overrun

Typed == UtxoTypeOK /\ MenuOK /\ ReadingOK /\ PartsFilled

UInv == Typed /\ InBounds
-----------------------------------------------------------------------------
LEMMA Constants ==
    /\ Garbage \notin Utxos /\ Amount \in [Utxos -> Nat]
    /\ GarbageAmounts \subseteq Nat /\ Wanted \subseteq Nat
    /\ MaxNumUtxos \in Nat \ {0} /\ BufferLen \in Nat /\ PartLen \in Nat \ {0}
    /\ FirstOwned \subseteq Seq(Utxos)
    /\ MaxRequests \in Nat /\ MaxChanges \in Nat /\ MaxAdds \in Nat
    /\ BufferLen < 1 + 2 * MaxNumUtxos
  BY UtxoAssumption, AmountAssumption, SizeAssumption, OwnedAssumption, BoundAssumption,
     FitAssumption

LEMMA TableSize == MaxNumUtxos \in Nat \ {0}
  BY SizeAssumption

LEMMA CountOK ==
    ASSUME used \in [requests : 0..MaxRequests, changes : 0..MaxChanges, adds : 0..MaxAdds],
           \/ used.changes < MaxChanges /\ Count("changes")
           \/ used.requests < MaxRequests /\ Count("requests")
           \/ used.adds < MaxAdds /\ Count("adds")
    PROVE  used' \in [requests : 0..MaxRequests, changes : 0..MaxChanges, adds : 0..MaxAdds]
  BY Constants DEF Count

LEMMA RemoveAtOK ==
    ASSUME NEW S, NEW s \in Seq(S), NEW i \in DOMAIN s
    PROVE  RemoveAt(s, i) \in Seq(S)
<1>1. Len(s) \in Nat /\ DOMAIN s = 1 .. Len(s) /\ \A j \in 1 .. Len(s) : s[j] \in S
  BY LenProperties, ElementOfSeq
<1>2. i \in Int /\ i >= 1 /\ i <= Len(s)
  BY <1>1
<1>3. SubSeq(s, 1, i - 1) \in Seq(S)
  <2>1. i - 1 \in Int /\ \A j \in 1 .. (i - 1) : s[j] \in S
    BY <1>1, <1>2
  <2>2. QED
    BY <2>1, SubSeqProperties
<1>4. SubSeq(s, i + 1, Len(s)) \in Seq(S)
  <2>1. i + 1 \in Int /\ Len(s) \in Int /\ \A j \in (i + 1) .. Len(s) : s[j] \in S
    BY <1>1, <1>2
  <2>2. QED
    BY <2>1, SubSeqProperties
<1>5. QED
  BY <1>3, <1>4, ConcatProperties DEF RemoveAt
-----------------------------------------------------------------------------
(* The hub.                                                                *)

LEMMA OwnedChangesOK ==
    ASSUME Typed, OwnedChanges
    PROVE  Typed'
<1>1. owned' \in Seq(Utxos)
  <2>1. owned \in Seq(Utxos)
    BY DEF Typed, UtxoTypeOK
  <2>2. CASE \E u \in Utxos \ ToSet(owned) : owned' = Append(owned, u)
    BY <2>1, <2>2, AppendProperties
  <2>3. CASE \E i \in DOMAIN owned : owned' = RemoveAt(owned, i)
    BY <2>1, <2>3, RemoveAtOK
  <2>4. QED
    BY <2>2, <2>3 DEF OwnedChanges
<1>2. used' \in [requests : 0..MaxRequests, changes : 0..MaxChanges, adds : 0..MaxAdds]
  BY CountOK DEF OwnedChanges, Typed, UtxoTypeOK
<1>3. /\ reading' \in [n : Nat, fields : Seq(Field), torn : BOOLEAN] /\ ReadingOK'
  <2>1. CASE reading = NoReading
    BY <2>1 DEF OwnedChanges, Typed, UtxoTypeOK, ReadingOK
  <2>2. CASE reading # NoReading
    <3>1. reading' = [reading EXCEPT !.torn = TRUE]
      BY <2>2 DEF OwnedChanges
    <3>2. reading \in [n : Nat, fields : Seq(Field), torn : BOOLEAN]
      BY DEF Typed, UtxoTypeOK
    <3>3. /\ reading'.n = reading.n /\ reading'.fields = reading.fields
          /\ reading' \in [n : Nat, fields : Seq(Field), torn : BOOLEAN]
      BY <3>1, <3>2
    <3>4. QED
      BY <2>2, <3>3 DEF Typed, ReadingOK
  <2>3. QED
    BY <2>1, <2>2
<1>4. UNCHANGED <<requests, excess, walletVars>>
  BY DEF OwnedChanges
<1>5. QED
  BY <1>1, <1>2, <1>3, <1>4
  DEF Typed, UtxoTypeOK, MenuOK, PartsFilled, walletVars, tableVars

LEMMA ServiceOK ==
    ASSUME Typed, ServiceUTXORequest
    PROVE  Typed'
<1>1. owned \in Seq(Utxos) /\ requests \in Nat
      /\ reading \in [n : Nat, fields : Seq(Field), torn : BOOLEAN]
  BY DEF Typed, UtxoTypeOK
<1>2. requests' \in Nat
  BY <1>1 DEF ServiceUTXORequest
<1>3. CASE owned # <<>> /\ reading' = [n |-> Len(owned), torn |-> FALSE,
                           fields |-> <<[f |-> "count", v |-> Len(owned)]>>]
  <2>1. Len(owned) \in Nat \ {0}
    BY <1>1, <1>3, EmptySeq
  <2>2. [f |-> "count", v |-> Len(owned)] \in Field
    BY <2>1 DEF Field
  <2>3. reading'.fields \in Seq(Field) /\ Len(reading'.fields) = 1
        /\ reading'.fields[1] = [f |-> "count", v |-> Len(owned)]
    BY <1>3, <2>2
  <2>4. /\ reading' \in [n : Nat, fields : Seq(Field), torn : BOOLEAN] /\ ReadingOK'
    BY <1>3, <2>1, <2>3 DEF ReadingOK
  <2>5. QED
    BY <1>2, <2>4
    DEF ServiceUTXORequest, Typed, UtxoTypeOK, MenuOK, PartsFilled, walletVars, tableVars
<1>4. CASE UNCHANGED reading
  BY <1>2, <1>4
  DEF ServiceUTXORequest, Typed, UtxoTypeOK, ReadingOK, MenuOK, PartsFilled, walletVars, tableVars
<1>5. QED
  BY <1>3, <1>4 DEF ServiceUTXORequest

LEMMA GetAllOK ==
    ASSUME Typed, GetAllUTXOs
    PROVE  Typed'
<1>1. owned \in Seq(Utxos) /\ ReadingOK
      /\ reading \in [n : Nat, fields : Seq(Field), torn : BOOLEAN]
  BY DEF Typed, UtxoTypeOK
<1>2. /\ reading # NoReading /\ ~AllRead
      /\ UNCHANGED <<owned, requests, used, excess, walletVars>>
  BY DEF GetAllUTXOs
<1>3. CASE reading' = NoReading
  <2>1. NoReading \in [n : Nat, fields : Seq(Field), torn : BOOLEAN]
    BY EmptySeq DEF NoReading
  <2>2. QED
    BY <1>2, <1>3, <2>1
    DEF Typed, UtxoTypeOK, ReadingOK, MenuOK, PartsFilled, walletVars, tableVars
<1>4. CASE ~(Index > Len(owned) /\ (AtId \/ owned = <<>>))
  <2>1. PICK field \in NextField : reading' = [reading EXCEPT !.fields = Append(@, field)]
    BY <1>4 DEF GetAllUTXOs
  <2> DEFINE k == Len(reading.fields)
  <2>2. /\ k \in 1 .. (1 + 2 * reading.n) /\ k # 1 + 2 * reading.n /\ reading.n \in Nat
        /\ reading.n > 0 /\ reading.fields \in Seq(Field)
        /\ reading.fields[1] = [f |-> "count", v |-> reading.n]
    BY <1>1, <1>2 DEF ReadingOK, AllRead
  <2>3. Index \in Nat /\ Index >= 1 /\ Len(owned) \in Nat
    BY <1>1, <2>2, LenProperties DEF Index
  <2>4. Index <= Len(owned) => owned[Index] \in Utxos
    BY <1>1, <2>3, ElementOfSeq
  <2>5. field \in Field
    <3>1. CASE AtId
      BY <1>4, <2>3, <2>4, <3>1 DEF NextField, Field
    <3>2. CASE ~AtId
      <4>1. PICK a \in (IF Index <= Len(owned) THEN {Amount[owned[Index]]}
                        ELSE GarbageAmounts) : field = [f |-> "amount", v |-> a]
        BY <3>2 DEF NextField
      <4>2. a \in Nat
        BY <2>4, <4>1, Constants
      <4>3. QED
        BY <4>1, <4>2 DEF Field
    <3>3. QED
      BY <3>1, <3>2
  <2>6. /\ Append(reading.fields, field) \in Seq(Field)
        /\ Len(Append(reading.fields, field)) = k + 1
        /\ Append(reading.fields, field)[1] = reading.fields[1]
    BY <2>2, <2>5, AppendProperties
  <2>7. /\ reading'.n = reading.n /\ reading'.fields = Append(reading.fields, field)
        /\ reading' \in [n : Nat, fields : Seq(Field), torn : BOOLEAN]
    BY <1>1, <2>1, <2>6
  <2>8. k + 1 \in 1 .. (1 + 2 * reading.n)
    BY <2>2
  <2>9. ReadingOK'
    BY <2>2, <2>6, <2>7, <2>8 DEF ReadingOK
  <2>10. QED
    BY <1>2, <2>7, <2>9
    DEF Typed, UtxoTypeOK, MenuOK, PartsFilled, walletVars, tableVars
<1>5. QED
  BY <1>3, <1>4 DEF GetAllUTXOs

-----------------------------------------------------------------------------
(* How a listing is cut into parts.                                        *)

LEMMA NumberOfParts ==
    ASSUME NEW n \in Nat \ {0}
    PROVE  LET total == (n + PartLen - 1) \div PartLen
           IN  /\ total \in Nat \ {0}
               /\ \A k \in 1 .. total : (k - 1) * PartLen \in Nat /\ (k - 1) * PartLen < n
<1> DEFINE total == (n + PartLen - 1) \div PartLen
<1>1. PartLen \in Nat /\ PartLen > 0 /\ n + PartLen - 1 \in Nat /\ n + PartLen - 1 >= PartLen
  BY Constants
<1>2. /\ total \in Nat /\ PartLen * total <= n + PartLen - 1
      /\ n + PartLen - 1 < PartLen * total + PartLen
  BY <1>1
<1> HIDE DEF total
<1>3. total # 0
  BY <1>1, <1>2
<1>4. ASSUME NEW k \in 1 .. total
      PROVE  (k - 1) * PartLen \in Nat /\ (k - 1) * PartLen < n
  <2>1. k \in Nat /\ k - 1 \in Nat /\ k <= total
    BY <1>2
  <2>2. k * PartLen <= total * PartLen /\ total * PartLen = PartLen * total
    BY <1>1, <1>2, <2>1
  <2>3. (k - 1) * PartLen = k * PartLen - PartLen /\ (k - 1) * PartLen \in Nat
    BY <1>1, <2>1
  <2>4. k * PartLen \in Nat /\ total * PartLen \in Nat
    BY <1>1, <1>2, <2>1
  <2>5. QED
    BY <1>1, <1>2, <2>2, <2>3, <2>4
<1>5. QED
  BY <1>2, <1>3, <1>4 DEF total

\* Part k of the total parts of a listing f.
Cut(s, f, total) ==
    /\ s \in Seq(Part) /\ Len(s) = total /\ total \in Nat \ {0}
    /\ s[1].fields[1] = f[1]
    /\ \A k \in 1 .. total :
         /\ s[k].no = k /\ s[k].total = total
         /\ Len(s[k].fields) \in 1 .. PartLen
         /\ (k - 1) * PartLen + Len(s[k].fields) <= Len(f)

LEMMA ListingIsCut ==
    ASSUME NEW f \in Seq(Field), f # <<>>, NEW torn \in BOOLEAN
    PROVE  \E total \in Nat : Cut(CreateMultipartPackets(f, torn), f, total)
<1> DEFINE n == Len(f)
           total == (n + PartLen - 1) \div PartLen
           s == CreateMultipartPackets(f, torn)
           upto(k) == IF k * PartLen > n THEN n ELSE k * PartLen
           body(k) == SubSeq(f, (k - 1) * PartLen + 1, upto(k))
<1>1. n \in Nat \ {0} /\ \A i \in 1 .. n : f[i] \in Field
  BY EmptySeq, ElementOfSeq
<1>2. /\ total \in Nat \ {0}
      /\ \A k \in 1 .. total : (k - 1) * PartLen \in Nat /\ (k - 1) * PartLen < n
  BY <1>1, NumberOfParts
<1>3. s = [k \in 1 .. total |-> [no |-> k, total |-> total, torn |-> torn,
                                 fields |-> body(k)]]
  BY DEF CreateMultipartPackets, PartsOf
<1> HIDE DEF n, total, s
<1>4. ASSUME NEW k \in 1 .. total
      PROVE  /\ body(k) \in Seq(Field)
             /\ Len(body(k)) \in 1 .. PartLen
             /\ (k - 1) * PartLen + Len(body(k)) <= n
             /\ k = 1 => body(k)[1] = f[1]
  <2>1. /\ k * PartLen = (k - 1) * PartLen + PartLen /\ PartLen \in Nat \ {0} /\ n \in Nat
        /\ (k - 1) * PartLen \in Nat /\ (k - 1) * PartLen < n
        /\ k = 1 => (k - 1) * PartLen = 0
    BY <1>1, <1>2, Constants
  <2> DEFINE o == (k - 1) * PartLen
             e == upto(k)
  <2>2. e = IF o + PartLen > n THEN n ELSE o + PartLen
    BY <2>1
  <2> HIDE DEF o, e
  <2>3. o \in Nat /\ o + 1 \in Int /\ e \in Int /\ o < n /\ e <= n /\ o + 1 <= e
        /\ e <= o + PartLen
    BY <2>1, <2>2 DEF o
  <2>4. \A i \in (o + 1) .. e : f[i] \in Field
    BY <1>1, <2>3
  <2>5. /\ SubSeq(f, o + 1, e) \in Seq(Field)
        /\ Len(SubSeq(f, o + 1, e)) = e - (o + 1) + 1
        /\ \A i \in 1 .. e - (o + 1) + 1 : SubSeq(f, o + 1, e)[i] = f[o + 1 + i - 1]
    BY <2>3, <2>4, SubSeqProperties
  <2>6. Len(SubSeq(f, o + 1, e)) \in 1 .. PartLen /\ o + Len(SubSeq(f, o + 1, e)) <= n
    BY <2>1, <2>3, <2>5
  <2>7. SubSeq(f, o + 1, e)[1] = f[o + 1]
    BY <2>3, <2>5
  <2>8. o = 0 => SubSeq(f, o + 1, e)[1] = f[1]
    <3>1. o = 0 => o + 1 = 1
      OBVIOUS
    <3>2. QED
      BY <2>7, <3>1
  <2>9. SubSeq(f, o + 1, e) = body(k)
    BY DEF o, e
  <2>10. QED
    BY <2>1, <2>5, <2>6, <2>8, <2>9 DEF o
<1> HIDE DEF body
<1>5. ASSUME NEW k \in 1 .. total
      PROVE  s[k].no = k /\ s[k].total = total /\ s[k].fields = body(k) /\ s[k] \in Part
  <2>1. s[k] = [no |-> k, total |-> total, torn |-> torn, fields |-> body(k)]
    BY <1>3
  <2>2. body(k) \in Seq(Field)
    BY <1>4
  <2>3. k \in Nat \ {0} /\ total \in Nat \ {0}
    BY <1>2
  <2>4. QED
    BY <2>1, <2>2, <2>3 DEF Part
<1>6. s \in [1 .. total -> Part]
  BY <1>3, <1>5
<1>7. s \in Seq(Part) /\ Len(s) = total
  BY <1>2, <1>6
<1>8. 1 \in 1 .. total
  BY <1>2
<1>9. Cut(s, f, total)
  <2>1. s[1].fields[1] = f[1]
    BY <1>4, <1>5, <1>8
  <2>2. \A k \in 1 .. total : (k - 1) * PartLen + Len(s[k].fields) <= Len(f)
    BY <1>4, <1>5 DEF n
  <2>3. \A k \in 1 .. total : s[k].no = k /\ s[k].total = total
                              /\ Len(s[k].fields) \in 1 .. PartLen
    BY <1>4, <1>5
  <2>4. QED
    BY <1>2, <1>7, <2>1, <2>2, <2>3 DEF Cut
<1>10. QED
  BY <1>2, <1>9 DEF s

LEMMA SendOK ==
    ASSUME UInv, SendMultipartPacket
    PROVE  UInv'
<1> DEFINE f == reading.fields
           c == CreateMultipartPackets(f, reading.torn)
           n == Len(parts)
<1>1. /\ parts \in Seq(Part) /\ ReadingOK /\ n \in Nat /\ PartsFilled
      /\ reading \in [n : Nat, fields : Seq(Field), torn : BOOLEAN]
      /\ excess \in BOOLEAN
  BY LenProperties DEF UInv, Typed, UtxoTypeOK
<1>2. /\ reading # NoReading /\ AllRead /\ parts' = parts \o c
      /\ excess' = (excess \/ Len(f) > BufferLen) /\ reading' = NoReading
      /\ UNCHANGED <<owned, requests, used, buffer, patchy, tableVars, serial, menu,
                     made, spoiled, overrun>>
  BY DEF SendMultipartPacket
<1>3. /\ f \in Seq(Field) /\ f # <<>> /\ reading.torn \in BOOLEAN /\ reading.n \in Nat
      /\ Len(f) = 1 + 2 * reading.n /\ f[1] = [f |-> "count", v |-> reading.n]
  BY <1>1, <1>2 DEF ReadingOK, AllRead
<1>4. PICK total \in Nat : Cut(c, f, total)
  BY <1>3, ListingIsCut
<1> HIDE DEF f, c, n
<1>5. /\ parts' \in Seq(Part) /\ Len(parts') = n + total /\ total \in Nat \ {0}
      /\ \A j \in 1 .. n : parts'[j] = parts[j]
      /\ \A j \in (n + 1) .. (n + total) : j - n \in 1 .. total /\ parts'[j] = c[j - n]
  <2>1. c \in Seq(Part) /\ Len(c) = total /\ total \in Nat \ {0}
    BY <1>4 DEF Cut
  <2>2. /\ parts \o c \in Seq(Part) /\ Len(parts \o c) = n + total
        /\ \A i \in 1 .. n + total :
             (parts \o c)[i] = IF i <= n THEN parts[i] ELSE c[i - n]
    BY <1>1, <2>1, ConcatProperties DEF n
  <2>3. QED
    BY <1>1, <1>2, <2>1, <2>2
<1>6. Typed'
  <2>1. NoReading \in [n : Nat, fields : Seq(Field), torn : BOOLEAN]
    BY EmptySeq DEF NoReading
  <2>2. ASSUME NEW j \in 1 .. (n + total)
        PROVE  Filled(parts'[j])
    <3>1. CASE j \in 1 .. n
      BY <1>1, <1>5, <3>1 DEF PartsFilled, n
    <3>2. CASE j \in (n + 1) .. (n + total)
      BY <1>4, <1>5, <3>2 DEF Cut, Filled
    <3>3. QED
      BY <1>1, <3>1, <3>2
  <2>3. PartsFilled' /\ ReadingOK'
    BY <1>2, <1>5, <2>2 DEF PartsFilled, ReadingOK, NoReading
  <2>4. excess' \in BOOLEAN
    BY <1>1, <1>2
  <2>5. QED
    BY <1>2, <1>5, <2>1, <2>3, <2>4 DEF UInv, Typed, UtxoTypeOK, MenuOK, tableVars
<1>7. ASSUME ~excess'
      PROVE  PartsInOrder' /\ BufferBehind' /\ TableBounded' /\ ~overrun'
  <2>1. /\ ~excess /\ Len(f) <= BufferLen
        /\ PartsInOrder /\ BufferBehind /\ TableBounded /\ ~overrun
    <3>1. ~excess /\ ~(Len(f) > BufferLen)
      BY <1>2, <1>7
    <3>2. Len(f) \in Nat
      BY <1>3, LenProperties
    <3>3. QED
      BY <3>1, <3>2, Constants DEF UInv, InBounds
  <2>2. Counts(f[1])
    BY <1>3, <2>1, Constants DEF Counts
  <2>3. ASSUME NEW j \in 1 .. (n + total)
        PROVE  PartFits(parts'[j])
    <3>1. CASE j \in 1 .. n
      BY <1>5, <2>1, <3>1 DEF PartsInOrder, n
    <3>2. CASE j \in (n + 1) .. (n + total)
      <4> DEFINE k == j - n
      <4>1. k \in 1 .. total /\ parts'[j] = c[k]
        BY <1>5, <3>2
      <4> HIDE DEF k
      <4>2. /\ c[k].no = k /\ (k - 1) * PartLen + Len(c[k].fields) <= Len(f)
            /\ Len(c[k].fields) \in Nat /\ (k = 1 => c[k].fields[1] = f[1])
        BY <1>4, <4>1 DEF Cut
      <4>3. (k - 1) * PartLen \in Nat /\ Len(f) \in Nat
        BY <1>3, <4>1, Constants
      <4>4. (k - 1) * PartLen + Len(c[k].fields) <= BufferLen
        BY <2>1, <4>2, <4>3, Constants
      <4>5. QED
        BY <2>2, <4>1, <4>2, <4>4 DEF PartFits
    <3>3. QED
      BY <1>1, <3>1, <3>2
  <2>4. ASSUME NEW j \in 1 .. (n + total - 1)
        PROVE  InTurn(parts'[j], parts'[j + 1])
    <3>1. CASE j \in 1 .. (n - 1)
      <4>1. j \in 1 .. n /\ j + 1 \in 1 .. n
        BY <1>1, <3>1
      <4>2. QED
        BY <1>5, <2>1, <3>1, <4>1 DEF PartsInOrder, n
    <3>2. CASE j = n
      <4>1. n \in 1 .. n /\ n + 1 \in (n + 1) .. (n + total) /\ (n + 1) - n = 1
        BY <1>1, <1>5, <3>2
      <4>2. parts'[n] = parts[n] /\ parts'[n + 1] = c[1]
        BY <1>5, <4>1
      <4>3. parts # <<>>
        BY <1>1, <4>1, EmptySeq DEF n
      <4>4. parts[n].no = parts[n].total
        BY <2>1, <4>3 DEF PartsInOrder, n
      <4>5. c[1].no = 1
        BY <1>4, <1>5 DEF Cut
      <4>6. QED
        BY <3>2, <4>2, <4>4, <4>5 DEF InTurn
    <3>3. CASE j \in (n + 1) .. (n + total - 1)
      <4>1. /\ j \in (n + 1) .. (n + total) /\ j + 1 \in (n + 1) .. (n + total)
            /\ (j + 1) - n = (j - n) + 1 /\ j - n \in 1 .. total /\ j + 1 - n \in 1 .. total
            /\ j - n # total
        BY <1>1, <1>5, <3>3
      <4>2. parts'[j] = c[j - n] /\ parts'[j + 1] = c[(j - n) + 1]
        BY <1>5, <4>1
      <4>3. QED
        BY <1>4, <4>1, <4>2 DEF Cut, InTurn
    <3>4. QED
      BY <1>1, <1>5, <3>1, <3>2, <3>3
  <2>5. parts'[n + total].no = parts'[n + total].total
    <3>1. n + total \in (n + 1) .. (n + total) /\ (n + total) - n = total
          /\ total \in 1 .. total
      BY <1>1, <1>5
    <3>2. parts'[n + total] = c[total]
      BY <1>5, <3>1
    <3>3. QED
      BY <1>4, <3>1, <3>2 DEF Cut
  <2>6. PartsInOrder'
    <3>1. Len(parts') = n + total
      BY <1>5
    <3>2. \A j \in 1 .. Len(parts') : PartFits(parts'[j])
      BY <2>3, <3>1
    <3>3. \A j \in 1 .. (Len(parts') - 1) : InTurn(parts'[j], parts'[j + 1])
      <4> SUFFICES ASSUME NEW j \in 1 .. (Len(parts') - 1)
                   PROVE  InTurn(parts'[j], parts'[j + 1])
        OBVIOUS
      <4>1. j \in 1 .. (n + total - 1)
        BY <1>1, <1>5, <3>1
      <4>2. QED
        BY <2>4, <4>1
    <3>4. parts'[Len(parts')].no = parts'[Len(parts')].total
      BY <2>5, <3>1
    <3>5. QED
      BY <3>2, <3>3, <3>4 DEF PartsInOrder
  <2>7. BufferBehind'
    <3>1. CASE parts = <<>>
      <4>1. n = 0 /\ buffer = <<>>
        BY <2>1, <3>1 DEF BufferBehind, n
      <4>2. 1 \in (n + 1) .. (n + total) /\ 1 - n = 1 /\ 1 \in 1 .. total
        BY <1>5, <4>1
      <4>3. parts'[1] = c[1] /\ c[1].no = 1
        BY <1>4, <1>5, <4>2 DEF Cut
      <4>4. QED
        BY <1>2, <4>1, <4>3 DEF BufferBehind
    <3>2. CASE parts # <<>>
      <4>1. n # 0
        BY <1>1, <3>2, EmptySeq DEF n
      <4>2. parts'[1] = parts[1] /\ parts' # <<>>
        BY <1>1, <1>5, <4>1
      <4>3. QED
        BY <1>2, <2>1, <3>2, <4>2 DEF BufferBehind
    <3>3. QED
      BY <3>1, <3>2
  <2>8. QED
    BY <1>2, <2>1, <2>6, <2>7 DEF TableBounded, tableVars
<1>8. QED
  BY <1>6, <1>7 DEF UInv, InBounds

-----------------------------------------------------------------------------
(* The serial thread.                                                      *)

LEMMA TailOK ==
    ASSUME Typed, parts # <<>>, parts' = Tail(parts)
    PROVE  /\ parts' \in Seq(Part) /\ PartsFilled' /\ Len(parts') = Len(parts) - 1
           /\ Head(parts) = parts[1] /\ parts[1] \in Part /\ Filled(parts[1])
           /\ Len(parts) \in Nat \ {0}
           /\ \A j \in 1 .. Len(parts') : parts'[j] = parts[j + 1] /\ j + 1 \in 1 .. Len(parts)
<1>1. parts \in Seq(Part) /\ PartsFilled
  BY DEF Typed, UtxoTypeOK
<1>2. /\ parts' \in Seq(Part) /\ Len(parts') = Len(parts) - 1
      /\ \A j \in 1 .. Len(parts') : parts'[j] = parts[j + 1]
  BY <1>1, HeadTailProperties
<1>3. Len(parts) \in Nat \ {0} /\ Head(parts) = parts[1]
  BY <1>1, EmptySeq
<1>4. 1 \in 1 .. Len(parts) /\ \A j \in 1 .. Len(parts') : j + 1 \in 1 .. Len(parts)
  BY <1>2, <1>3
<1>5. parts[1] \in Part
  BY <1>1, <1>4, ElementOfSeq
<1>6. PartsFilled'
  BY <1>1, <1>2, <1>4 DEF PartsFilled
<1>7. QED
  BY <1>1, <1>2, <1>3, <1>4, <1>5, <1>6 DEF PartsFilled

LEMMA LoseOK ==
    ASSUME UInv, LosePart
    PROVE  UInv'
<1>1. /\ parts # <<>> /\ parts' = Tail(parts) /\ patchy' = TRUE /\ excess' = TRUE
      /\ UNCHANGED <<hubVars, used, buffer, tableVars, serial, menu, made, spoiled, overrun>>
  BY DEF LosePart
<1>2. parts' \in Seq(Part) /\ PartsFilled'
  BY <1>1, TailOK DEF UInv
<1>3. Typed'
  BY <1>1, <1>2 DEF UInv, Typed, UtxoTypeOK, MenuOK, ReadingOK, hubVars, tableVars
<1>4. QED
  BY <1>1, <1>3 DEF UInv, InBounds

\* What the buffer and the part that has come make.
LEMMA WholeOK ==
    ASSUME Typed, parts # <<>>
    PROVE  LET whole == buffer \o parts[1].fields
           IN  /\ whole \in Seq(Field) /\ Len(whole) \in Nat \ {0}
               /\ Len(whole) = Len(buffer) + Len(parts[1].fields)
               /\ whole[1] = IF buffer = <<>> THEN parts[1].fields[1] ELSE buffer[1]
               /\ whole[1] \in Field /\ Len(buffer) \in Nat
<1> DEFINE f == parts[1].fields
           whole == buffer \o f
<1>1. parts \in Seq(Part) /\ buffer \in Seq(Field) /\ PartsFilled
  BY DEF Typed, UtxoTypeOK
<1>2. 1 \in 1 .. Len(parts)
  BY <1>1, EmptySeq
<1>3. f \in Seq(Field) /\ Len(f) \in 1 .. PartLen
  <2>1. parts[1] \in Part
    BY <1>1, <1>2, ElementOfSeq
  <2>2. Filled(parts[1])
    BY <1>1, <1>2 DEF PartsFilled
  <2>3. QED
    BY <2>1, <2>2 DEF Filled, Part
<1>4. Len(f) \in Nat \ {0} /\ Len(buffer) \in Nat /\ (buffer = <<>> <=> Len(buffer) = 0)
  BY <1>1, <1>3, LenProperties, EmptySeq
<1> HIDE DEF f
<1>5. /\ whole \in Seq(Field) /\ Len(whole) = Len(buffer) + Len(f)
      /\ \A i \in 1 .. Len(buffer) + Len(f) :
           whole[i] = IF i <= Len(buffer) THEN buffer[i] ELSE f[i - Len(buffer)]
  BY <1>1, <1>3, ConcatProperties
<1> HIDE DEF whole
<1>6. Len(whole) \in Nat \ {0} /\ 1 \in 1 .. Len(buffer) + Len(f)
  BY <1>4, <1>5
<1>7. whole[1] = IF buffer = <<>> THEN f[1] ELSE buffer[1]
  <2>1. CASE buffer = <<>>
    <3>1. ~(1 <= Len(buffer)) /\ 1 - Len(buffer) = 1
      BY <1>4, <2>1
    <3>2. QED
      BY <1>5, <1>6, <2>1, <3>1
  <2>2. CASE buffer # <<>>
    <3>1. 1 <= Len(buffer)
      BY <1>4, <2>2
    <3>2. QED
      BY <1>5, <1>6, <2>2, <3>1
  <2>3. QED
    BY <2>1, <2>2
<1>8. whole[1] \in Field
  BY <1>5, <1>6, ElementOfSeq
<1>9. QED
  BY <1>4, <1>5, <1>6, <1>7, <1>8 DEF whole, f

LEMMA ReceiveTyped ==
    ASSUME Typed, ReceivePart
    PROVE  Typed'
<1> DEFINE p == parts[1]
           whole == buffer \o p.fields
           last == p.no = p.total
           patched == patchy /\ ~(buffer = <<>> /\ p.no = 1)
<1>1. /\ parts # <<>> /\ parts' = Tail(parts)
      /\ UNCHANGED <<hubVars, used, ids, amounts, menu, made, excess>>
      /\ AppendPart(Head(parts), <<>>)
  BY DEF ReceivePart
<1>2. /\ parts' \in Seq(Part) /\ PartsFilled' /\ p \in Part /\ Head(parts) = p
  BY <1>1, TailOK
<1>3. whole \in Seq(Field) /\ Len(whole) \in Nat \ {0} /\ whole[1] \in Field
  BY <1>1, WholeOK
<1>4. /\ buffer \in Seq(Field) /\ Len(buffer) <= BufferLen /\ numUTXOs \in Nat
      /\ serial \in [pc : {"poll", "id", "amount"}, i : Nat, from : Seq(Field)]
      /\ patchy \in BOOLEAN /\ spoiled \in BOOLEAN /\ overrun \in BOOLEAN
  BY DEF Typed, UtxoTypeOK
<1>5. CASE overrun' = TRUE /\ UNCHANGED <<buffer, patchy, numUTXOs, serial, spoiled>>
  BY <1>1, <1>2, <1>5 DEF Typed, UtxoTypeOK, MenuOK, ReadingOK, hubVars
<1>6. CASE /\ ~(Len(whole) > BufferLen)
           /\ buffer' = IF last THEN <<>> ELSE whole
           /\ patchy' = patched
           /\ IF last THEN processReceivedUTXOs(whole, patched \/ p.torn)
              ELSE UNCHANGED <<numUTXOs, serial, spoiled>>
           /\ UNCHANGED overrun
  <2> HIDE DEF p, whole
  <2>1. buffer' \in Seq(Field) /\ Len(buffer') <= BufferLen
    <3>1. Len(whole) <= BufferLen /\ 0 <= BufferLen
      BY <1>3, <1>6, Constants
    <3>2. QED
      BY <1>3, <1>6, <3>1, EmptySeq
  <2>2. patchy' \in BOOLEAN /\ overrun' \in BOOLEAN
    BY <1>4, <1>6
  <2>3. /\ numUTXOs' \in Nat /\ spoiled' \in BOOLEAN
        /\ serial' \in [pc : {"poll", "id", "amount"}, i : Nat, from : Seq(Field)]
    <3>1. CASE ~last \/ UNCHANGED <<numUTXOs, serial, spoiled>>
      BY <1>4, <1>6, <3>1
    <3>2. CASE last /\ processReceivedUTXOs(whole, patched \/ p.torn)
               /\ ~UNCHANGED <<numUTXOs, serial, spoiled>>
      <4>1. /\ numUTXOs' \in Nat /\ spoiled' \in BOOLEAN
            /\ serial' = [pc |-> "id", i |-> 0, from |-> whole]
        <5>1. CASE whole[1].f = "count"
          <6>1. whole[1].v \in Nat
            BY <1>3, <5>1 DEF Field
          <6>2. QED
            BY <3>2, <5>1, <6>1 DEF processReceivedUTXOs
        <5>2. CASE whole[1].f # "count"
          <6>1. PICK n \in 0 .. (MaxNumUtxos + 1) :
                  numUTXOs' = n /\ serial' = [pc |-> "id", i |-> 0, from |-> whole]
            BY <3>2, <5>2 DEF processReceivedUTXOs
          <6>2. spoiled' = TRUE
            BY <3>2, <5>2 DEF processReceivedUTXOs
          <6>3. QED
            BY <6>1, <6>2, Constants
        <5>3. QED
          BY <5>1, <5>2
      <4>2. QED
        BY <1>3, <4>1
    <3>3. QED
      BY <1>6, <3>1, <3>2
  <2>4. QED
    BY <1>1, <1>2, <2>1, <2>2, <2>3 DEF Typed, UtxoTypeOK, MenuOK, ReadingOK, hubVars
<1>7. QED
  BY <1>1, <1>2, <1>5, <1>6 DEF AppendPart

LEMMA ReceiveInBounds ==
    ASSUME UInv, ReceivePart
    PROVE  InBounds'
<1> DEFINE p == parts[1]
           whole == buffer \o p.fields
           last == p.no = p.total
<1> SUFFICES ASSUME ~excess'
             PROVE  PartsInOrder' /\ BufferBehind' /\ TableBounded' /\ ~overrun'
  BY DEF InBounds
<1>1. /\ parts # <<>> /\ parts' = Tail(parts)
      /\ UNCHANGED <<hubVars, used, ids, amounts, menu, made, excess>>
      /\ AppendPart(Head(parts), <<>>)
  BY DEF ReceivePart
<1>2. Typed /\ PartsInOrder /\ BufferBehind /\ TableBounded /\ ~overrun
  BY <1>1 DEF UInv, InBounds
<1>3. /\ parts' \in Seq(Part) /\ p \in Part /\ Head(parts) = p /\ Filled(p)
      /\ Len(parts) \in Nat \ {0} /\ Len(parts') = Len(parts) - 1
      /\ \A j \in 1 .. Len(parts') : parts'[j] = parts[j + 1] /\ j + 1 \in 1 .. Len(parts)
  BY <1>1, <1>2, TailOK
<1>4. /\ whole \in Seq(Field) /\ Len(whole) \in Nat \ {0} /\ Len(buffer) \in Nat
      /\ Len(whole) = Len(buffer) + Len(p.fields)
      /\ whole[1] = IF buffer = <<>> THEN p.fields[1] ELSE buffer[1]
  BY <1>1, <1>2, WholeOK
<1>5. PartFits(p)
  BY <1>2, <1>3 DEF PartsInOrder
<1> HIDE DEF whole, p
<1>6. p.no \in Nat \ {0} /\ p.total \in Nat /\ Len(p.fields) \in 1 .. PartLen
  BY <1>3 DEF Part, Filled
<1>7. Counts(whole[1]) /\ Len(buffer) <= (p.no - 1) * PartLen
  <2>1. CASE p.no = 1
    <3>1. buffer = <<>> /\ Len(buffer) = 0
      BY <1>1, <1>2, <2>1 DEF BufferBehind, p
    <3>2. (p.no - 1) * PartLen = 0
      BY <2>1, Constants
    <3>3. QED
      BY <1>4, <1>5, <2>1, <3>1, <3>2 DEF PartFits
  <2>2. CASE p.no # 1
    BY <1>1, <1>2, <1>4, <2>2 DEF BufferBehind, p
  <2>3. QED
    BY <2>1, <2>2
<1>8. /\ (p.no - 1) * PartLen \in Nat
      /\ p.no * PartLen = (p.no - 1) * PartLen + PartLen
  BY <1>6, Constants
<1>9. Len(whole) <= BufferLen /\ Len(whole) <= p.no * PartLen
  <2> DEFINE o == (p.no - 1) * PartLen
             e == p.no * PartLen
             n == Len(p.fields)
  <2>1. /\ o \in Nat /\ e = o + PartLen /\ n \in 1 .. PartLen /\ o + n <= BufferLen
        /\ Len(buffer) <= o /\ Len(buffer) \in Nat /\ Len(whole) = Len(buffer) + n
    BY <1>4, <1>5, <1>6, <1>7, <1>8 DEF PartFits
  <2> HIDE DEF o, e, n
  <2>2. Len(whole) <= BufferLen /\ Len(whole) <= e
    BY <2>1, Constants
  <2>3. QED
    BY <2>2 DEF e
<1>10. /\ buffer' = IF last THEN <<>> ELSE whole
       /\ \E doubtful \in BOOLEAN :
            IF last THEN processReceivedUTXOs(whole, doubtful)
            ELSE UNCHANGED <<numUTXOs, serial, spoiled>>
       /\ UNCHANGED overrun
  <2>1. ~(Len(whole) > BufferLen)
    BY <1>4, <1>9, Constants
  <2>2. patchy \in BOOLEAN /\ p.torn \in BOOLEAN
    BY <1>2, <1>3 DEF Typed, UtxoTypeOK, Part
  <2>3. QED
    BY <1>1, <1>3, <2>1, <2>2 DEF AppendPart, whole
<1>11. PartsInOrder'
  <2>1. ASSUME NEW j \in 1 .. Len(parts')
        PROVE  PartFits(parts'[j])
    BY <1>2, <1>3 DEF PartsInOrder
  <2>2. ASSUME NEW j \in 1 .. (Len(parts') - 1)
        PROVE  InTurn(parts'[j], parts'[j + 1])
    <3>1. /\ j \in 1 .. Len(parts') /\ j + 1 \in 1 .. Len(parts')
          /\ j + 1 \in 1 .. (Len(parts) - 1)
      BY <1>3
    <3>2. parts'[j] = parts[j + 1] /\ parts'[j + 1] = parts[(j + 1) + 1]
      BY <1>3, <3>1
    <3>3. QED
      BY <1>2, <3>1, <3>2 DEF PartsInOrder
  <2>3. ASSUME parts' # <<>>
        PROVE  parts'[Len(parts')].no = parts'[Len(parts')].total
    <3>1. Len(parts') \in 1 .. Len(parts') /\ Len(parts') + 1 = Len(parts)
      BY <1>3, <2>3, EmptySeq
    <3>2. parts'[Len(parts')] = parts[Len(parts)]
      BY <1>3, <3>1
    <3>3. QED
      BY <1>1, <1>2, <3>2 DEF PartsInOrder
  <2>4. QED
    BY <2>1, <2>2, <2>3 DEF PartsInOrder
<1>12. parts' # <<>> => parts'[1] = parts[2] /\ InTurn(p, parts[2])
  <2> SUFFICES ASSUME parts' # <<>>
               PROVE  parts'[1] = parts[2] /\ InTurn(p, parts[2])
    OBVIOUS
  <2>1. Len(parts') \in Nat \ {0}
    BY <1>3, EmptySeq
  <2>2. 1 \in 1 .. Len(parts') /\ 1 \in 1 .. (Len(parts) - 1) /\ 1 + 1 = 2
    BY <1>3, <2>1
  <2>3. parts'[1] = parts[1 + 1] /\ InTurn(parts[1], parts[1 + 1])
    BY <1>2, <1>3, <2>2 DEF PartsInOrder
  <2>4. QED
    BY <2>2, <2>3 DEF p
<1>13. parts' = <<>> => last
  <2> SUFFICES ASSUME parts' = <<>>
               PROVE  last
    OBVIOUS
  <2>1. Len(parts) = 1
    BY <1>3
  <2>2. QED
    BY <1>1, <1>2, <2>1 DEF PartsInOrder, p
<1>14. BufferBehind'
  <2>1. CASE last
    BY <1>10, <1>12, <2>1 DEF BufferBehind, InTurn
  <2>2. CASE ~last
    <3>1. parts' # <<>> /\ parts'[1].no = p.no + 1
      BY <1>12, <1>13, <2>2 DEF InTurn
    <3>2. buffer' = whole /\ whole # <<>>
      BY <1>4, <1>10, <2>2
    <3>3. p.no + 1 # 1 /\ (p.no + 1) - 1 = p.no
      BY <1>6
    <3>4. QED
      BY <1>7, <1>9, <3>1, <3>2, <3>3 DEF BufferBehind
  <2>3. QED
    BY <2>1, <2>2
<1>15. TableBounded'
  <2>1. CASE last
    <3>1. numUTXOs' = whole[1].v
      BY <1>7, <1>10, <2>1 DEF processReceivedUTXOs, Counts
    <3>2. numUTXOs' < MaxNumUtxos
      BY <1>7, <3>1 DEF Counts
    <3>3. numUTXOs' <= MaxNumUtxos
      <4>1. numUTXOs' \in Nat
        BY <1>2, ReceiveTyped DEF Typed, UtxoTypeOK
      <4>2. QED
        BY <3>2, <4>1, Constants
    <3>4. QED
      BY <1>1, <1>2, <3>2, <3>3 DEF TableBounded
  <2>2. CASE ~last
    BY <1>1, <1>2, <1>10, <2>2 DEF TableBounded
  <2>3. QED
    BY <2>1, <2>2
<1>16. QED
  BY <1>2, <1>10, <1>11, <1>14, <1>15

LEMMA ReceiveOK ==
    ASSUME UInv, ReceivePart
    PROVE  UInv'
  BY ReceiveTyped, ReceiveInBounds DEF UInv

LEMMA SameAir ==
    ASSUME UNCHANGED <<parts, buffer>>
    PROVE  (PartsInOrder => PartsInOrder') /\ (BufferBehind => BufferBehind')
  BY DEF PartsInOrder, BufferBehind

\* Steps that leave the air, the buffer and the count alone.
LEMMA SameBounds ==
    ASSUME InBounds, UNCHANGED <<parts, buffer, numUTXOs, excess>>,
           overrun' = overrun,
           menu' = menu \/ menu'.pc \notin {"type id", "type amount"}
    PROVE  InBounds'
<1>1. CASE menu' = menu
  BY <1>1, SameAir DEF InBounds, TableBounded
<1>2. CASE menu'.pc \notin {"type id", "type amount"}
  BY <1>2, SameAir DEF InBounds, TableBounded
<1>3. QED
  BY <1>1, <1>2

LEMMA DeserializeIdOK ==
    ASSUME UInv, DeserializeId
    PROVE  UInv'
<1>1. /\ serial.pc = "id"
      /\ UNCHANGED <<hubVars, used, excess, parts, buffer, patchy, numUTXOs, amounts,
                     menu, made>>
  BY DEF DeserializeId
<1>2. /\ serial \in [pc : {"poll", "id", "amount"}, i : Nat, from : Seq(Field)]
      /\ ids \in [Slots -> Ids] /\ numUTXOs \in Nat /\ spoiled \in BOOLEAN
      /\ overrun \in BOOLEAN /\ Typed /\ InBounds
  BY DEF UInv, Typed, UtxoTypeOK
<1>3. CASE serial.i >= numUTXOs
  <2>1. serial' = Polling /\ UNCHANGED <<ids, overrun, spoiled>>
    BY <1>3 DEF DeserializeId
  <2>2. Polling \in [pc : {"poll", "id", "amount"}, i : Nat, from : Seq(Field)]
    BY EmptySeq DEF Polling
  <2>3. Typed'
    BY <1>1, <1>2, <2>1, <2>2
    DEF Typed, UtxoTypeOK, MenuOK, ReadingOK, PartsFilled, hubVars
  <2>4. InBounds'
    BY <1>1, <1>2, <2>1, SameBounds
  <2>5. QED
    BY <2>3, <2>4 DEF UInv
<1>4. CASE ~(serial.i >= numUTXOs) /\ serial.i >= MaxNumUtxos
  <2>1. overrun' = TRUE /\ UNCHANGED <<serial, ids, spoiled>>
    BY <1>4 DEF DeserializeId
  <2>2. Typed'
    BY <1>1, <1>2, <2>1 DEF Typed, UtxoTypeOK, MenuOK, ReadingOK, PartsFilled, hubVars
  <2>3. ~(numUTXOs <= MaxNumUtxos)
    BY <1>2, <1>4, Constants
  <2>4. excess
    BY <1>2, <2>3 DEF InBounds, TableBounded
  <2>5. InBounds'
    BY <1>1, <2>4 DEF InBounds
  <2>6. QED
    BY <2>2, <2>5 DEF UInv
<1>5. CASE ~(serial.i >= numUTXOs) /\ ~(serial.i >= MaxNumUtxos)
  <2> DEFINE k == 2 * serial.i + 2
  <2>1. PICK u \in Reads(k, "id") : ids' = [ids EXCEPT ![serial.i] = u]
    BY <1>5 DEF DeserializeId
  <2>2. /\ serial' = [serial EXCEPT !.pc = "amount"] /\ UNCHANGED overrun
        /\ spoiled' = (spoiled \/ menu # Idle)
    BY <1>5 DEF DeserializeId
  <2>3. u \in Ids
    <3>1. k \in Nat /\ k >= 1
      BY <1>2
    <3> HIDE DEF k
    <3>2. k <= Len(serial.from) => serial.from[k] \in Field
      BY <1>2, <3>1, ElementOfSeq, LenProperties
    <3>3. CASE k <= Len(serial.from) /\ serial.from[k].f = "id"
      BY <2>1, <3>2, <3>3 DEF Reads, Field, Ids
    <3>4. CASE ~(k <= Len(serial.from) /\ serial.from[k].f = "id")
      BY <2>1, <3>4 DEF Reads, Ids
    <3>5. QED
      BY <3>3, <3>4
  <2>4. ids' \in [Slots -> Ids]
    BY <1>2, <2>1, <2>3
  <2>5. serial' \in [pc : {"poll", "id", "amount"}, i : Nat, from : Seq(Field)]
    BY <1>2, <2>2
  <2>6. spoiled' \in BOOLEAN
    BY <2>2
  <2>7. Typed'
    BY <1>1, <1>2, <2>2, <2>4, <2>5, <2>6
    DEF Typed, UtxoTypeOK, MenuOK, ReadingOK, PartsFilled, hubVars
  <2>8. InBounds'
    BY <1>1, <1>2, <2>2, SameBounds
  <2>9. QED
    BY <2>7, <2>8 DEF UInv
<1>6. QED
  BY <1>3, <1>4, <1>5

LEMMA DeserializeAmountOK ==
    ASSUME UInv, DeserializeAmount
    PROVE  UInv'
<1> DEFINE k == 2 * serial.i + 3
<1>1. /\ serial' = [serial EXCEPT !.pc = "id", !.i = @ + 1]
      /\ UNCHANGED <<hubVars, used, excess, parts, buffer, patchy, numUTXOs, ids, menu,
                     made, spoiled, overrun>>
  BY DEF DeserializeAmount
<1>2. /\ serial \in [pc : {"poll", "id", "amount"}, i : Nat, from : Seq(Field)]
      /\ amounts \in [Slots -> Nat] /\ Typed /\ InBounds
  BY DEF UInv, Typed, UtxoTypeOK
<1>3. PICK a \in Reads(k, "amount") : amounts' = [amounts EXCEPT ![serial.i] = a]
  BY DEF DeserializeAmount
<1>4. k \in Nat /\ k >= 1
  BY <1>2
<1> HIDE DEF k
<1>5. a \in Nat
  <2>1. k <= Len(serial.from) => serial.from[k] \in Field
    BY <1>2, <1>4, ElementOfSeq, LenProperties
  <2>2. CASE k <= Len(serial.from) /\ serial.from[k].f = "amount"
    BY <1>3, <2>1, <2>2 DEF Reads, Field
  <2>3. CASE ~(k <= Len(serial.from) /\ serial.from[k].f = "amount")
    BY <1>3, <2>3, Constants DEF Reads
  <2>4. QED
    BY <2>2, <2>3
<1>6. amounts' \in [Slots -> Nat]
  BY <1>2, <1>3, <1>5
<1>7. serial' \in [pc : {"poll", "id", "amount"}, i : Nat, from : Seq(Field)]
  <2>1. serial' = [pc |-> "id", i |-> serial.i + 1, from |-> serial.from]
    BY <1>1, <1>2
  <2>2. serial.i + 1 \in Nat /\ serial.from \in Seq(Field)
    BY <1>2
  <2>3. QED
    BY <2>1, <2>2
<1>8. Typed'
  BY <1>1, <1>2, <1>6, <1>7 DEF Typed, UtxoTypeOK, MenuOK, ReadingOK, PartsFilled, hubVars
<1>9. InBounds'
  BY <1>1, <1>2, SameBounds
<1>10. QED
  BY <1>8, <1>9 DEF UInv

-----------------------------------------------------------------------------
(* The menu thread.                                                        *)

MenuShape(m) ==
    /\ m.pc = "idle" => m \in [pc : {"idle"}]
    /\ m.pc \in {"type id", "type amount"} =>
          m \in [pc : {"type id", "type amount"}, id : Utxos, slot : Nat]
    /\ m.pc = "take id" => m \in [pc : {"take id"}, desired : Nat, inputs : Seq(Input)]
    /\ m.pc = "take amount" =>
          m \in [pc : {"take amount"}, desired : Nat, inputs : Seq(Input), id : Ids]

LEMMA MenuIs ==
    ASSUME MenuOK
    PROVE  MenuShape(menu)
  BY DEF MenuOK, MenuShape

\* A step of the menu that only the menu's own variables notice.
LEMMA MenuTyped ==
    ASSUME Typed, MenuOK', UNCHANGED <<hubVars, excess, parts, buffer, patchy, serial>>,
           numUTXOs' \in Nat, ids' \in [Slots -> Ids], amounts' \in [Slots -> Nat],
           made' \in Seq(Input), spoiled' \in BOOLEAN, overrun' \in BOOLEAN,
           used' \in [requests : 0..MaxRequests, changes : 0..MaxChanges,
                      adds : 0..MaxAdds]
    PROVE  Typed'
<1>1. menu'.pc \in {"idle", "type id", "type amount", "take id", "take amount"}
  BY DEF MenuOK
<1>2. QED
  BY <1>1 DEF Typed, UtxoTypeOK, ReadingOK, PartsFilled, hubVars

LEMMA TypesOfMenu ==
    ASSUME Typed
    PROVE  /\ numUTXOs \in Nat /\ ids \in [Slots -> Ids] /\ amounts \in [Slots -> Nat]
           /\ made \in Seq(Input) /\ spoiled \in BOOLEAN /\ overrun \in BOOLEAN
           /\ used \in [requests : 0..MaxRequests, changes : 0..MaxChanges,
                        adds : 0..MaxAdds]
           /\ MenuOK /\ MenuShape(menu) /\ (spoiled \/ serial # Polling) \in BOOLEAN
  BY MenuIs DEF Typed, UtxoTypeOK

LEMMA RequestOK ==
    ASSUME UInv, RequestUTXOs
    PROVE  UInv'
<1>1. /\ requests' = requests + 1 /\ UNCHANGED <<owned, reading, excess, walletVars>>
      /\ used' \in [requests : 0..MaxRequests, changes : 0..MaxChanges, adds : 0..MaxAdds]
  BY CountOK DEF RequestUTXOs, UInv, Typed, UtxoTypeOK
<1>2. requests' \in Nat
  <2>1. requests \in Nat
    BY DEF UInv, Typed, UtxoTypeOK
  <2>2. QED
    BY <1>1, <2>1
<1>3. Typed'
  BY <1>1, <1>2
  DEF UInv, Typed, UtxoTypeOK, MenuOK, ReadingOK, PartsFilled, walletVars, tableVars
<1>4. InBounds'
  BY <1>1, SameBounds DEF UInv, walletVars, tableVars
<1>5. QED
  BY <1>3, <1>4 DEF UInv

LEMMA ClearOK ==
    ASSUME UInv, ClearUTXOs
    PROVE  UInv'
<1>1. /\ numUTXOs' = 0 /\ spoiled' = (spoiled \/ serial # Polling)
      /\ UNCHANGED <<hubVars, used, excess, parts, buffer, patchy, ids, amounts, serial,
                     menu, made, overrun>>
  BY DEF ClearUTXOs, Touch
<1>2. Typed /\ InBounds /\ MenuOK'
  BY <1>1 DEF UInv, Typed, MenuOK
<1>3. Typed'
  BY <1>1, <1>2, TypesOfMenu, MenuTyped
<1>4. InBounds'
  <2>1. TableBounded => TableBounded'
    <3>1. numUTXOs' = 0 /\ menu' = menu
      BY <1>1
    <3>2. 0 <= MaxNumUtxos /\ 0 < MaxNumUtxos
      BY TableSize
    <3>3. QED
      BY <3>1, <3>2 DEF TableBounded
  <2>2. QED
    BY <1>1, <1>2, <2>1, SameAir DEF InBounds
<1>5. QED
  BY <1>3, <1>4 DEF UInv

LEMMA AddOK ==
    ASSUME UInv, manuallyAddUTXO
    PROVE  UInv'
<1>1. PICK u \in Utxos :
        /\ numUTXOs # MaxNumUtxos /\ used.adds < MaxAdds /\ Count("adds")
        /\ menu' = [pc |-> "type id", id |-> u, slot |-> numUTXOs]
        /\ spoiled' = (\/ spoiled \/ serial # Polling
                       \/ \E s \in Slots : s < numUTXOs /\ ids[s] = u)
        /\ UNCHANGED <<hubVars, excess, parts, buffer, patchy, tableVars, serial, made,
                       overrun>>
  BY DEF manuallyAddUTXO
<1>2. Typed /\ InBounds /\ numUTXOs \in Nat
  BY DEF UInv, Typed, UtxoTypeOK
<1>3. used' \in [requests : 0..MaxRequests, changes : 0..MaxChanges, adds : 0..MaxAdds]
  BY <1>1, <1>2, TypesOfMenu, CountOK
<1>4. MenuOK' /\ spoiled' \in BOOLEAN
  BY <1>1, <1>2 DEF MenuOK
<1>5. Typed'
  BY <1>1, <1>2, <1>3, <1>4, TypesOfMenu, MenuTyped DEF tableVars
<1>6. ASSUME ~excess'
      PROVE  PartsInOrder' /\ BufferBehind' /\ TableBounded' /\ ~overrun'
  <2>1. PartsInOrder /\ BufferBehind /\ TableBounded /\ ~overrun
    BY <1>1, <1>2, <1>6 DEF InBounds
  <2>2. numUTXOs < MaxNumUtxos
    <3>1. numUTXOs <= MaxNumUtxos /\ numUTXOs # MaxNumUtxos
      BY <1>1, <2>1 DEF TableBounded
    <3>2. QED
      BY <1>2, <3>1, TableSize
  <2>3. TableBounded'
    BY <1>1, <2>1, <2>2 DEF TableBounded, tableVars
  <2>4. QED
    BY <1>1, <2>1, <2>3, SameAir
<1>7. QED
  BY <1>5, <1>6 DEF UInv, InBounds

LEMMA TypeIdOK ==
    ASSUME UInv, TypeId
    PROVE  UInv'
<1>1. /\ menu.pc = "type id" /\ spoiled' = (spoiled \/ serial # Polling)
      /\ UNCHANGED <<hubVars, used, excess, parts, buffer, patchy, numUTXOs, amounts,
                     serial, made>>
  BY DEF TypeId, Touch
<1>2. Typed /\ InBounds
      /\ menu \in [pc : {"type id", "type amount"}, id : Utxos, slot : Nat]
  BY <1>1, TypesOfMenu DEF UInv, MenuShape
<1>3. CASE menu.slot >= MaxNumUtxos
  <2>1. overrun' = TRUE /\ UNCHANGED <<ids, menu>>
    BY <1>3 DEF TypeId
  <2>2. Typed'
    <3>1. MenuOK'
      BY <2>1, <1>2 DEF Typed, MenuOK
    <3>2. QED
      BY <1>1, <1>2, <2>1, <3>1, TypesOfMenu, MenuTyped
  <2>3. ~(menu.slot < MaxNumUtxos)
    <3>1. menu.slot \in Nat
      BY <1>2
    <3>2. QED
      BY <1>3, <3>1, TableSize
  <2>4. excess
    BY <1>1, <1>2, <2>3 DEF InBounds, TableBounded
  <2>5. QED
    BY <1>1, <2>2, <2>4 DEF UInv, InBounds
<1>4. CASE ~(menu.slot >= MaxNumUtxos)
  <2>1. /\ ids' = [ids EXCEPT ![menu.slot] = menu.id] /\ UNCHANGED overrun
        /\ menu' = [menu EXCEPT !.pc = "type amount"] \/ menu' = Idle
    BY <1>4 DEF TypeId
  <2>2. ids' \in [Slots -> Ids]
    BY <1>2, <2>1, TypesOfMenu DEF Ids
  <2>3. MenuOK'
    <3>1. CASE menu' = Idle
      BY <3>1 DEF MenuOK, Idle
    <3>2. CASE menu' = [menu EXCEPT !.pc = "type amount"]
      <4>1. menu' \in [pc : {"type id", "type amount"}, id : Utxos, slot : Nat]
        BY <1>2, <3>2
      <4>2. QED
        BY <4>1 DEF MenuOK
    <3>3. QED
      BY <2>1, <3>1, <3>2
  <2>4. Typed'
    BY <1>1, <1>2, <2>1, <2>2, <2>3, TypesOfMenu, MenuTyped
  <2>5. InBounds'
    <3>1. CASE menu' = Idle
      <4>1. menu'.pc \notin {"type id", "type amount"}
        BY <3>1 DEF Idle
      <4>2. QED
        BY <1>1, <1>2, <2>1, <4>1, SameBounds
    <3>2. CASE menu' = [menu EXCEPT !.pc = "type amount"]
      <4>1. menu'.slot = menu.slot
        BY <1>2, <3>2
      <4>2. QED
        BY <1>1, <1>2, <2>1, <4>1, SameAir DEF InBounds, TableBounded
    <3>3. QED
      BY <2>1, <3>1, <3>2
  <2>6. QED
    BY <2>4, <2>5 DEF UInv
<1>5. QED
  BY <1>3, <1>4

LEMMA TypeAmountOK ==
    ASSUME UInv, TypeAmount
    PROVE  UInv'
<1>1. /\ menu.pc = "type amount" /\ spoiled' = (spoiled \/ serial # Polling)
      /\ UNCHANGED <<hubVars, used, excess, parts, buffer, patchy, ids, serial, made>>
  BY DEF TypeAmount, Touch
<1>2. Typed /\ InBounds /\ numUTXOs \in Nat
      /\ menu \in [pc : {"type id", "type amount"}, id : Utxos, slot : Nat]
  BY <1>1, TypesOfMenu DEF UInv, MenuShape
<1>3. CASE numUTXOs >= MaxNumUtxos
  <2>1. overrun' = TRUE /\ UNCHANGED <<amounts, numUTXOs, menu>>
    BY <1>3 DEF TypeAmount
  <2>2. Typed'
    <3>1. MenuOK'
      BY <2>1, <1>2 DEF Typed, MenuOK
    <3>2. QED
      BY <1>1, <1>2, <2>1, <3>1, TypesOfMenu, MenuTyped
  <2>3. ~(numUTXOs < MaxNumUtxos)
    <3>1. numUTXOs \in Nat
      BY <1>2
    <3>2. QED
      BY <1>3, <3>1, TableSize
  <2>4. excess
    BY <1>1, <1>2, <2>3 DEF InBounds, TableBounded
  <2>5. QED
    BY <1>1, <2>2, <2>4 DEF UInv, InBounds
<1>4. CASE ~(numUTXOs >= MaxNumUtxos)
  <2>1. /\ amounts' = [amounts EXCEPT ![numUTXOs] = Amount[menu.id]]
        /\ numUTXOs' = numUTXOs + 1 /\ menu' = Idle /\ UNCHANGED overrun
    BY <1>4 DEF TypeAmount
  <2>2. amounts' \in [Slots -> Nat]
    <3>1. Amount[menu.id] \in Nat
      BY <1>2, Constants
    <3>2. QED
      BY <1>2, <2>1, <3>1, TypesOfMenu
  <2>3. MenuOK' /\ numUTXOs' \in Nat /\ numUTXOs' <= MaxNumUtxos
        /\ menu'.pc \notin {"type id", "type amount"}
    <3>1. numUTXOs' \in Nat /\ numUTXOs' <= MaxNumUtxos
      <4>1. numUTXOs \in Nat /\ numUTXOs' = numUTXOs + 1
        BY <1>2, <2>1
      <4>2. QED
        BY <1>4, <4>1, TableSize
    <3>2. QED
      BY <2>1, <3>1 DEF MenuOK, Idle
  <2>4. Typed'
    BY <1>1, <1>2, <2>1, <2>2, <2>3, TypesOfMenu, MenuTyped
  <2>5. InBounds'
    BY <1>1, <1>2, <2>1, <2>3, SameAir DEF InBounds, TableBounded
  <2>6. QED
    BY <2>4, <2>5 DEF UInv
<1>5. QED
  BY <1>3, <1>4

LEMMA CreateOK ==
    ASSUME UInv, createTransaction
    PROVE  UInv'
<1>1. PICK d \in Wanted :
        /\ menu' = [pc |-> "take id", desired |-> d, inputs |-> <<>>] /\ made' = <<>>
        /\ spoiled' = (spoiled \/ serial # Polling)
        /\ UNCHANGED <<hubVars, used, excess, parts, buffer, patchy, tableVars, serial,
                       overrun>>
  BY DEF createTransaction, Touch
<1>2. Typed /\ InBounds
  BY DEF UInv
<1>3. /\ MenuOK' /\ made' \in Seq(Input)
      /\ menu'.pc \notin {"type id", "type amount"}
  <2>1. <<>> \in Seq(Input) /\ d \in Nat
    BY EmptySeq, Constants
  <2>2. menu' \in [pc : {"take id"}, desired : Nat, inputs : Seq(Input)]
    BY <1>1, <2>1
  <2>3. QED
    BY <1>1, <2>1, <2>2 DEF MenuOK
<1>4. Typed'
  BY <1>1, <1>2, <1>3, TypesOfMenu, MenuTyped DEF tableVars
<1>5. InBounds'
  BY <1>1, <1>2, <1>3, SameBounds DEF tableVars
<1>6. QED
  BY <1>4, <1>5 DEF UInv

LEMMA TakeIdOK ==
    ASSUME UInv, TakeId
    PROVE  UInv'
<1>1. /\ menu.pc = "take id" /\ spoiled' = (spoiled \/ serial # Polling)
      /\ IF Len(menu.inputs) >= numUTXOs THEN menu' = Idle
         ELSE menu' = [pc |-> "take amount", desired |-> menu.desired,
                       inputs |-> menu.inputs, id |-> TableIds(Len(menu.inputs))]
      /\ UNCHANGED <<hubVars, used, excess, parts, buffer, patchy, tableVars, serial,
                     made, overrun>>
  BY DEF TakeId, Touch
<1>2. Typed /\ InBounds
      /\ menu \in [pc : {"take id"}, desired : Nat, inputs : Seq(Input)]
  BY <1>1, TypesOfMenu DEF UInv, MenuShape
<1>3. MenuOK' /\ menu'.pc \notin {"type id", "type amount"}
  <2>1. CASE menu' = Idle
    BY <2>1 DEF MenuOK, Idle
  <2>2. CASE menu' = [pc |-> "take amount", desired |-> menu.desired,
                      inputs |-> menu.inputs, id |-> TableIds(Len(menu.inputs))]
    <3>1. Len(menu.inputs) \in Nat /\ ids \in [Slots -> Ids]
      BY <1>2, LenProperties, TypesOfMenu
    <3>2. TableIds(Len(menu.inputs)) \in Ids
      <4>1. Len(menu.inputs) < MaxNumUtxos => Len(menu.inputs) \in Slots
        BY <3>1, TableSize DEF Slots
      <4>2. QED
        BY <3>1, <4>1 DEF TableIds, Ids
    <3>3. menu' \in [pc : {"take amount"}, desired : Nat, inputs : Seq(Input), id : Ids]
      BY <1>2, <2>2, <3>2
    <3>4. QED
      BY <2>2, <3>3 DEF MenuOK
  <2>3. QED
    BY <1>1, <2>1, <2>2
<1>4. Typed'
  BY <1>1, <1>2, <1>3, TypesOfMenu, MenuTyped DEF tableVars
<1>5. InBounds'
  BY <1>1, <1>2, <1>3, SameBounds DEF tableVars
<1>6. QED
  BY <1>4, <1>5 DEF UInv

LEMMA TakeAmountOK ==
    ASSUME UInv, TakeAmount
    PROVE  UInv'
<1>1. /\ menu.pc = "take amount" /\ spoiled' = (spoiled \/ serial # Polling)
      /\ UNCHANGED <<hubVars, used, excess, parts, buffer, patchy, tableVars, serial,
                     overrun>>
  BY DEF TakeAmount, Touch
<1>2. Typed /\ InBounds /\ made \in Seq(Input)
      /\ menu \in [pc : {"take amount"}, desired : Nat, inputs : Seq(Input), id : Ids]
  BY <1>1, TypesOfMenu DEF UInv, MenuShape
<1>3. PICK a \in TableAmounts(Len(menu.inputs)) :
        LET inputs == Append(menu.inputs, [id |-> menu.id, amount |-> a])
        IN  IF Total(inputs) >= menu.desired
            THEN made' = inputs /\ menu' = Idle
            ELSE /\ menu' = [pc |-> "take id", desired |-> menu.desired,
                             inputs |-> inputs]
                 /\ UNCHANGED made
  BY DEF TakeAmount
<1> DEFINE inputs == Append(menu.inputs, [id |-> menu.id, amount |-> a])
<1>4. a \in Nat
  <2>1. Len(menu.inputs) \in Nat /\ amounts \in [Slots -> Nat]
    BY <1>2, LenProperties, TypesOfMenu
  <2>2. Len(menu.inputs) < MaxNumUtxos => Len(menu.inputs) \in Slots
    BY <2>1, TableSize DEF Slots
  <2>3. QED
    BY <1>3, <2>1, <2>2, AmountAssumption DEF TableAmounts
<1>5. inputs \in Seq(Input)
  <2>1. [id |-> menu.id, amount |-> a] \in Input
    BY <1>2, <1>4 DEF Input
  <2>2. QED
    BY <1>2, <2>1, AppendProperties
<1>6. \/ made' = inputs /\ menu' = Idle
      \/ menu' = [pc |-> "take id", desired |-> menu.desired, inputs |-> inputs]
         /\ UNCHANGED made
  BY <1>3
<1> HIDE DEF inputs
<1>7. MenuOK' /\ made' \in Seq(Input) /\ menu'.pc \notin {"type id", "type amount"}
  <2>1. CASE made' = inputs /\ menu' = Idle
    BY <1>5, <2>1 DEF MenuOK, Idle
  <2>2. CASE /\ menu' = [pc |-> "take id", desired |-> menu.desired, inputs |-> inputs]
             /\ UNCHANGED made
    <3>1. menu' \in [pc : {"take id"}, desired : Nat, inputs : Seq(Input)]
      BY <1>2, <1>5, <2>2
    <3>2. QED
      BY <1>2, <2>2, <3>1 DEF MenuOK
  <2>3. QED
    BY <1>6, <2>1, <2>2
<1>8. Typed'
  BY <1>1, <1>2, <1>7, TypesOfMenu, MenuTyped DEF tableVars
<1>9. InBounds'
  BY <1>1, <1>2, <1>7, SameBounds DEF tableVars
<1>10. QED
  BY <1>8, <1>9 DEF UInv
-----------------------------------------------------------------------------
(* The invariant and the property.                                         *)

LEMMA UInit == UtxoInit => UInv
<1> SUFFICES ASSUME UtxoInit PROVE UInv
  OBVIOUS
<1>1. /\ owned \in FirstOwned /\ reading = NoReading /\ requests = 0 /\ parts = <<>>
      /\ buffer = <<>> /\ patchy = FALSE /\ numUTXOs = 0
      /\ ids = [s \in Slots |-> Garbage] /\ amounts = [s \in Slots |-> 0]
      /\ serial = Polling /\ menu = Idle /\ made = <<>>
      /\ spoiled = FALSE /\ overrun = FALSE /\ excess = FALSE
      /\ used = [requests |-> 0, changes |-> 0, adds |-> 0]
  BY DEF UtxoInit
<1>2. /\ owned \in Seq(Utxos)
      /\ reading \in [n : Nat, fields : Seq(Field), torn : BOOLEAN]
      /\ parts \in Seq(Part) /\ Len(parts) = 0
      /\ buffer \in Seq(Field) /\ Len(buffer) <= BufferLen
      /\ serial \in [pc : {"poll", "id", "amount"}, i : Nat, from : Seq(Field)]
      /\ made \in Seq(Input)
  BY <1>1, Constants, EmptySeq DEF NoReading, Polling
<1>3. ids \in [Slots -> Ids] /\ amounts \in [Slots -> Nat]
  BY <1>1 DEF Ids
<1>4. used \in [requests : 0..MaxRequests, changes : 0..MaxChanges, adds : 0..MaxAdds]
  BY <1>1, BoundAssumption
<1>5. MenuOK /\ menu.pc = "idle" /\ ReadingOK /\ PartsFilled
  BY <1>1, <1>2 DEF MenuOK, Idle, ReadingOK, PartsFilled
<1>6. Typed
  BY <1>1, <1>2, <1>3, <1>4, <1>5 DEF Typed, UtxoTypeOK
<1>7. PartsInOrder /\ BufferBehind
  BY <1>1, <1>2 DEF PartsInOrder, BufferBehind
<1>8. TableBounded
  <2>1. 0 <= MaxNumUtxos
    BY TableSize
  <2>2. QED
    BY <1>1, <1>5, <2>1 DEF TableBounded
<1>9. QED
  BY <1>1, <1>6, <1>7, <1>8 DEF UInv, InBounds

LEMMA UStep == UInv /\ [UtxoNext]_utxoVars => UInv'
<1> SUFFICES ASSUME UInv, [UtxoNext]_utxoVars PROVE UInv'
  OBVIOUS
<1>1. CASE OwnedChanges \/ ServiceUTXORequest \/ GetAllUTXOs
  <2>1. Typed'
    BY <1>1, OwnedChangesOK, ServiceOK, GetAllOK DEF UInv
  <2>2. UNCHANGED <<excess, walletVars>>
    BY <1>1 DEF OwnedChanges, ServiceUTXORequest, GetAllUTXOs
  <2>3. InBounds'
    BY <2>2, SameBounds DEF UInv, walletVars, tableVars
  <2>4. QED
    BY <2>1, <2>3 DEF UInv
<1>2. CASE SendMultipartPacket
  BY <1>2, SendOK
<1>3. CASE SerialStep
  BY <1>3, LoseOK, ReceiveOK, DeserializeIdOK, DeserializeAmountOK DEF SerialStep
<1>4. CASE MenuStep
  BY <1>4, RequestOK, ClearOK, AddOK, TypeIdOK, TypeAmountOK, CreateOK, TakeIdOK,
     TakeAmountOK DEF MenuStep
<1>5. CASE UNCHANGED utxoVars
  <2>1. /\ UNCHANGED <<hubVars, excess, parts, buffer, patchy, serial, numUTXOs, ids,
                       amounts, made, spoiled, overrun, used, menu>>
    BY <1>5 DEF utxoVars, walletVars, tableVars
  <2>2. MenuOK'
    BY <2>1 DEF UInv, Typed, MenuOK
  <2>3. Typed'
    BY <2>1, <2>2, TypesOfMenu, MenuTyped DEF UInv
  <2>4. InBounds'
    BY <2>1, SameBounds DEF UInv
  <2>5. QED
    BY <2>3, <2>4 DEF UInv
<1>6. QED
  BY <1>1, <1>2, <1>3, <1>4, <1>5 DEF UtxoNext, HubStep

LEMMA UInvHolds == UtxoSpec => []UInv
<1>1. UtxoInit => UInv
  BY UInit
<1>2. UInv /\ [UtxoNext]_utxoVars => UInv'
  BY UStep
<1>3. QED
  BY <1>1, <1>2, PTL DEF UtxoSpec

\* Types, and that what is put into multipartBuffer fits, through all that the
\* two threads and the hub's changing wallet file may do.
THEOREM UtxosTypeCorrect == UtxoSpec => []UtxoTypeOK
<1>1. UInv => UtxoTypeOK
  BY DEF UInv, Typed
<1>2. QED
  BY <1>1, UInvHolds, PTL

\* parseMultipartPayload, deserializeUTXOs and manuallyAddUTXO access neither
\* multipartBuffer nor currUTXOs past their ends, although they compare no
\* length and no count, and although the two threads interleave: it takes a lost
\* part or a listing longer than the buffer.
THEOREM TableIsNotOverrun == UtxoSpec => []NoWritePastTable
<1>1. UInv => NoWritePastTable
  BY DEF UInv, InBounds, NoWritePastTable
<1>2. QED
  BY <1>1, UInvHolds, PTL

-----------------------------------------------------------------------------
(* What a transaction spends.  A listing that was not torn names distinct  *)
(* outputs with their amounts (ReadingTrue); its pieces travel together    *)
(* (RunsComplete) and are put together as they were cut (BufferTrue), or   *)
(* the listing is known to be patchy; and while the table is not spoiled,  *)
(* its slots hold what the listing says (SerialTrue, PollTrue) and the     *)
(* inputs of a transaction are the first slots (MenuTrue).                 *)

Distinct == {o \in Seq(Utxos) : \A i, j \in 1 .. Len(o) : o[i] = o[j] => i = j}

ListingOf(o) ==
    [k \in 1 .. (1 + 2 * Len(o)) |->
       IF k = 1 THEN [f |-> "count", v |-> Len(o)]
       ELSE IF k % 2 = 0 THEN [f |-> "id", v |-> o[k \div 2]]
       ELSE [f |-> "amount", v |-> Amount[o[k \div 2]]]]

ReadingTrue ==
    reading # NoReading /\ ~reading.torn =>
        /\ reading.n = Len(owned)
        /\ \A k \in 1 .. Len(reading.fields) : reading.fields[k] = ListingOf(owned)[k]

\* The end of part k of a listing of n fields.
EndOf(k, n) == IF k * PartLen > n THEN n ELSE k * PartLen

Piece(part, l) ==
    /\ part.total = (Len(l) + PartLen - 1) \div PartLen
    /\ part.fields = SubSeq(l, (part.no - 1) * PartLen + 1, EndOf(part.no, Len(l)))

\* The parts of the listing that are behind part j of a queue, itself included.
Rest(q, j) == 0 .. (q[j].total - q[j].no)

RunComplete(q, j) ==
    /\ j + (q[j].total - q[j].no) <= Len(q)
    /\ \A k \in Rest(q, j) : /\ q[j + k].no = q[j].no + k
                             /\ q[j + k].total = q[j].total
                             /\ q[j + k].torn = q[j].torn
    /\ q[j].no = q[j].total /\ j < Len(q) => q[j + 1].no = 1

Pieces(q, j, o) == \A k \in Rest(q, j) : Piece(q[j + k], ListingOf(o))

RunsComplete == \A j \in 1 .. Len(parts) :
    /\ RunComplete(parts, j)
    /\ ~parts[j].torn => \E o \in Distinct : Pieces(parts, j, o)

Begun ==
    /\ parts # <<>> /\ parts[1].no # 1 /\ buffer # <<>>
    /\ ~parts[1].torn => \E o \in Distinct :
         /\ Pieces(parts, 1, o)
         /\ buffer = SubSeq(ListingOf(o), 1, (parts[1].no - 1) * PartLen)

BufferTrue ==
    ~patchy => \/ buffer = <<>> /\ (parts # <<>> => parts[1].no = 1)
               \/ Begun

Written(o, n) == \A s \in 0 .. (n - 1) :
    ids[s] = o[s + 1] /\ amounts[s] = Amount[o[s + 1]]

\* The loop of deserializeUTXOs is alone with the table.
SerialTrue ==
    serial # Polling =>
        /\ menu = Idle
        /\ \E o \in Distinct :
             /\ serial.from = ListingOf(o)
             /\ numUTXOs = Len(o) /\ Len(o) < MaxNumUtxos
             /\ serial.i <= Len(o) /\ Written(o, serial.i)
             /\ serial.pc = "amount" =>
                  serial.i < Len(o) /\ ids[serial.i] = o[serial.i + 1]

PollTrue ==
    serial = Polling =>
        /\ numUTXOs <= MaxNumUtxos
        /\ \A s \in 0 .. (numUTXOs - 1) :
             ids[s] \in Utxos /\ amounts[s] = Amount[ids[s]]
        /\ \A s, t \in 0 .. (numUTXOs - 1) : ids[s] = ids[t] => s = t

Slot(s) == [id |-> ids[s], amount |-> amounts[s]]

MenuTrue ==
    /\ menu.pc \in {"type id", "type amount"} =>
         /\ menu.slot = numUTXOs
         /\ \A s \in 0 .. (numUTXOs - 1) : ids[s] # menu.id
    /\ menu.pc = "type amount" /\ menu.slot < MaxNumUtxos => ids[menu.slot] = menu.id
    /\ menu.pc \in {"take id", "take amount"} =>
         /\ Len(menu.inputs) <= numUTXOs
         /\ \A i \in 1 .. Len(menu.inputs) : menu.inputs[i] = Slot(i - 1)
    /\ menu.pc = "take amount" =>
         Len(menu.inputs) < numUTXOs /\ menu.id = ids[Len(menu.inputs)]

TableTrue == ~spoiled => SerialTrue /\ PollTrue /\ MenuTrue

ListingsTrue == owned \in Distinct /\ ReadingTrue /\ RunsComplete

TInv == ListingsTrue /\ (~overrun => BufferTrue /\ TableTrue)

-----------------------------------------------------------------------------
(* Listings.                                                               *)

LEMMA Halves ==
    ASSUME NEW i \in Nat \ {0}
    PROVE  /\ (2 * i) % 2 = 0 /\ (2 * i) \div 2 = i
           /\ (2 * i + 1) % 2 = 1 /\ (2 * i + 1) \div 2 = i
  OBVIOUS

LEMMA OddOrEven ==
    ASSUME NEW k \in Nat, k > 1
    PROVE  LET i == k \div 2
           IN  i \in Nat \ {0} /\ (IF k % 2 = 0 THEN k = 2 * i ELSE k = 2 * i + 1)
  OBVIOUS

\* What is where in a listing.
LEMMA ListingFacts ==
    ASSUME NEW o \in Seq(Utxos)
    PROVE  LET l == ListingOf(o)
           IN  /\ l \in Seq(Field) /\ Len(l) = 1 + 2 * Len(o) /\ Len(o) \in Nat
               /\ l[1] = [f |-> "count", v |-> Len(o)]
               /\ \A i \in 1 .. Len(o) :
                    /\ 2 * i \in 1 .. Len(l) /\ 2 * i + 1 \in 1 .. Len(l)
                    /\ l[2 * i] = [f |-> "id", v |-> o[i]]
                    /\ l[2 * i + 1] = [f |-> "amount", v |-> Amount[o[i]]]
<1> DEFINE n == Len(o)
           l == ListingOf(o)
           e(k) == IF k = 1 THEN [f |-> "count", v |-> Len(o)]
                   ELSE IF k % 2 = 0 THEN [f |-> "id", v |-> o[k \div 2]]
                   ELSE [f |-> "amount", v |-> Amount[o[k \div 2]]]
<1>1. n \in Nat /\ 1 + 2 * n \in Nat /\ \A i \in 1 .. n : o[i] \in Utxos
  BY LenProperties, ElementOfSeq
<1>2. l = [k \in 1 .. (1 + 2 * n) |-> e(k)]
  BY DEF ListingOf
<1>3. ASSUME NEW k \in 1 .. (1 + 2 * n)
      PROVE  e(k) \in Field
  <2>1. CASE k = 1
    BY <1>1, <2>1 DEF Field
  <2>2. CASE k # 1
    <3> DEFINE i == k \div 2
    <3>1. k \in Nat /\ k > 1
      BY <1>1, <2>2
    <3>2. i \in Nat \ {0} /\ (k = 2 * i \/ k = 2 * i + 1)
      BY <3>1, OddOrEven
    <3>3. i \in 1 .. n
      BY <1>1, <3>2
    <3>4. o[i] \in Utxos /\ Amount[o[i]] \in Nat
      BY <1>1, <3>3, Constants
    <3>5. QED
      BY <2>2, <3>4 DEF Field
  <2>3. QED
    BY <2>1, <2>2
<1> HIDE DEF e, l, n
<1>4. l \in [1 .. (1 + 2 * n) -> Field]
  BY <1>2, <1>3
<1>5. l \in Seq(Field) /\ Len(l) = 1 + 2 * n
  BY <1>1, <1>4
<1>6. l[1] = [f |-> "count", v |-> n]
  <2>1. 1 \in 1 .. (1 + 2 * n)
    BY <1>1
  <2>2. QED
    BY <1>2, <2>1 DEF e, n
<1>7. ASSUME NEW i \in 1 .. n
      PROVE  /\ 2 * i \in 1 .. Len(l) /\ 2 * i + 1 \in 1 .. Len(l)
             /\ l[2 * i] = [f |-> "id", v |-> o[i]]
             /\ l[2 * i + 1] = [f |-> "amount", v |-> Amount[o[i]]]
  <2>1. /\ i \in Nat \ {0} /\ 2 * i \in 1 .. (1 + 2 * n) /\ 2 * i + 1 \in 1 .. (1 + 2 * n)
        /\ 2 * i # 1 /\ 2 * i + 1 # 1
    BY <1>1
  <2>2. /\ (2 * i) % 2 = 0 /\ (2 * i) \div 2 = i
        /\ (2 * i + 1) % 2 = 1 /\ (2 * i + 1) \div 2 = i
    BY <2>1, Halves
  <2>3. l[2 * i] = e(2 * i) /\ l[2 * i + 1] = e(2 * i + 1)
    BY <1>2, <2>1
  <2>4. e(2 * i) = [f |-> "id", v |-> o[i]]
    BY <2>1, <2>2 DEF e
  <2>5. e(2 * i + 1) = [f |-> "amount", v |-> Amount[o[i]]]
    <3>1. (2 * i + 1) % 2 # 0
      BY <2>2
    <3>2. QED
      BY <2>1, <2>2, <3>1 DEF e
  <2>6. QED
    BY <1>5, <2>1, <2>3, <2>4, <2>5
<1>8. QED
  BY <1>1, <1>5, <1>6, <1>7 DEF l, n

-----------------------------------------------------------------------------
(* The hub's outputs and the listing it reads.                             *)

LEMMA AppendDistinct ==
    ASSUME NEW o \in Distinct, NEW u \in Utxos \ ToSet(o)
    PROVE  Append(o, u) \in Distinct
<1>1. /\ o \in Seq(Utxos) /\ Len(o) \in Nat /\ Append(o, u) \in Seq(Utxos)
      /\ Len(Append(o, u)) = Len(o) + 1 /\ Append(o, u)[Len(o) + 1] = u
      /\ \A i \in 1 .. Len(o) : Append(o, u)[i] = o[i]
  BY AppendProperties, LenProperties DEF Distinct
<1>2. \A i \in 1 .. Len(o) : o[i] # u
  BY <1>1, LenProperties DEF ToSet
<1> DEFINE a == Append(o, u)
<1> HIDE DEF a
<1>3. ASSUME NEW i \in 1 .. (Len(o) + 1), NEW j \in 1 .. (Len(o) + 1), a[i] = a[j]
      PROVE  i = j
  <2>1. (i \in 1 .. Len(o) \/ i = Len(o) + 1) /\ (j \in 1 .. Len(o) \/ j = Len(o) + 1)
    BY <1>1
  <2>2. QED
    BY <1>1, <1>2, <1>3, <2>1 DEF a, Distinct
<1>4. QED
  BY <1>1, <1>3 DEF a, Distinct

LEMMA RemoveDistinct ==
    ASSUME NEW o \in Distinct, NEW k \in DOMAIN o
    PROVE  RemoveAt(o, k) \in Distinct
<1>1. /\ o \in Seq(Utxos) /\ Len(o) \in Nat /\ DOMAIN o = 1 .. Len(o)
      /\ \A i \in 1 .. Len(o) : o[i] \in Utxos
  BY LenProperties, ElementOfSeq DEF Distinct
<1>2. k \in Int /\ k >= 1 /\ k <= Len(o)
  BY <1>1
<1> DEFINE b == SubSeq(o, 1, k - 1)
           c == SubSeq(o, k + 1, Len(o))
           r == RemoveAt(o, k)
<1>3. /\ b \in Seq(Utxos) /\ Len(b) = k - 1 /\ \A i \in 1 .. (k - 1) : b[i] = o[i]
  <2>1. k - 1 \in Int /\ 1 \in Int /\ \A j \in 1 .. (k - 1) : o[j] \in Utxos
    BY <1>1, <1>2
  <2>2. /\ b \in Seq(Utxos) /\ Len(b) = (IF 1 <= k - 1 THEN k - 1 - 1 + 1 ELSE 0)
        /\ \A i \in 1 .. k - 1 - 1 + 1 : b[i] = o[1 + i - 1]
    BY <2>1, SubSeqProperties
  <2> HIDE DEF b
  <2>3. Len(b) = k - 1
    BY <1>2, <2>2
  <2>4. ASSUME NEW i \in 1 .. (k - 1) PROVE b[i] = o[i]
    <3>1. i \in 1 .. k - 1 - 1 + 1 /\ 1 + i - 1 = i
      BY <1>2
    <3>2. QED
      BY <2>2, <3>1
  <2>5. QED
    BY <2>2, <2>3, <2>4
<1>4. /\ c \in Seq(Utxos) /\ Len(c) = Len(o) - k
      /\ \A i \in 1 .. (Len(o) - k) : c[i] = o[k + i]
  <2>1. k + 1 \in Int /\ Len(o) \in Int /\ \A j \in (k + 1) .. Len(o) : o[j] \in Utxos
    BY <1>1, <1>2
  <2>2. /\ c \in Seq(Utxos)
        /\ Len(c) = (IF k + 1 <= Len(o) THEN Len(o) - (k + 1) + 1 ELSE 0)
        /\ \A i \in 1 .. Len(o) - (k + 1) + 1 : c[i] = o[k + 1 + i - 1]
    BY <2>1, SubSeqProperties
  <2> HIDE DEF c
  <2>3. Len(c) = Len(o) - k
    BY <1>1, <1>2, <2>2
  <2>4. ASSUME NEW i \in 1 .. (Len(o) - k) PROVE c[i] = o[k + i]
    <3>1. i \in 1 .. Len(o) - (k + 1) + 1 /\ k + 1 + i - 1 = k + i
      BY <1>1, <1>2
    <3>2. QED
      BY <2>2, <3>1
  <2>5. QED
    BY <2>2, <2>3, <2>4
<1>5. r = b \o c
  BY DEF RemoveAt
<1> HIDE DEF b, c, r
<1>6. /\ r \in Seq(Utxos) /\ Len(r) = Len(o) - 1
      /\ \A i \in 1 .. Len(o) - 1 : r[i] = IF i <= k - 1 THEN b[i] ELSE c[i - (k - 1)]
  <2>1. /\ b \o c \in Seq(Utxos) /\ Len(b \o c) = Len(b) + Len(c)
        /\ \A i \in 1 .. Len(b) + Len(c) :
             (b \o c)[i] = IF i <= Len(b) THEN b[i] ELSE c[i - Len(b)]
    BY <1>3, <1>4, ConcatProperties
  <2>2. Len(b) + Len(c) = Len(o) - 1
    BY <1>1, <1>2, <1>3, <1>4
  <2>3. QED
    BY <1>3, <1>5, <2>1, <2>2
<1> DEFINE at(i) == IF i <= k - 1 THEN i ELSE i + 1
<1>7. ASSUME NEW i \in 1 .. Len(o) - 1
      PROVE  at(i) \in 1 .. Len(o) /\ r[i] = o[at(i)]
  <2>1. CASE i <= k - 1
    <3>1. i \in 1 .. (k - 1) /\ i \in 1 .. Len(o)
      BY <1>1, <1>2, <2>1
    <3>2. QED
      BY <1>3, <1>6, <2>1, <3>1
  <2>2. CASE ~(i <= k - 1)
    <3>1. i - (k - 1) \in 1 .. (Len(o) - k) /\ k + (i - (k - 1)) = i + 1 /\ i + 1 \in 1 .. Len(o)
      BY <1>1, <1>2, <2>2
    <3>2. QED
      BY <1>4, <1>6, <2>2, <3>1
  <2>3. QED
    BY <2>1, <2>2
<1>8. ASSUME NEW i \in 1 .. Len(o) - 1, NEW j \in 1 .. Len(o) - 1, r[i] = r[j]
      PROVE  i = j
  <2>1. at(i) = at(j)
    BY <1>7, <1>8 DEF Distinct
  <2>2. QED
    BY <1>1, <1>2, <2>1
<1>9. QED
  BY <1>6, <1>8 DEF r, Distinct

\* What the hub reads is a listing of its outputs unless they change meanwhile.
LEMMA HubTrue ==
    ASSUME Typed, ListingsTrue, OwnedChanges \/ ServiceUTXORequest \/ GetAllUTXOs
    PROVE  ListingsTrue'
<1>1. /\ owned \in Seq(Utxos) /\ owned \in Distinct /\ ReadingOK /\ ReadingTrue /\ RunsComplete
      /\ reading \in [n : Nat, fields : Seq(Field), torn : BOOLEAN]
  BY DEF Typed, UtxoTypeOK, ListingsTrue
<1>2. parts' = parts
  BY DEF OwnedChanges, ServiceUTXORequest, GetAllUTXOs, walletVars
<1>3. RunsComplete'
  BY <1>1, <1>2 DEF RunsComplete, RunComplete, Pieces, Piece, Rest, ListingOf
<1>4. CASE OwnedChanges
  <2>1. owned' \in Distinct
    <3>1. CASE \E u \in Utxos \ ToSet(owned) : owned' = Append(owned, u)
      BY <1>1, <3>1, AppendDistinct
    <3>2. CASE \E i \in DOMAIN owned : owned' = RemoveAt(owned, i)
      BY <1>1, <3>2, RemoveDistinct
    <3>3. QED
      BY <1>4, <3>1, <3>2 DEF OwnedChanges
  <2>2. ReadingTrue'
    <3>1. CASE reading = NoReading
      BY <1>4, <3>1 DEF OwnedChanges, ReadingTrue
    <3>2. CASE reading # NoReading
      <4>1. reading' = [reading EXCEPT !.torn = TRUE]
        BY <1>4, <3>2 DEF OwnedChanges
      <4>2. reading'.torn
        BY <1>1, <4>1
      <4>3. QED
        BY <4>2 DEF ReadingTrue
    <3>3. QED
      BY <3>1, <3>2
  <2>3. QED
    BY <1>3, <2>1, <2>2 DEF ListingsTrue
<1>5. CASE ServiceUTXORequest
  <2>1. owned' = owned
    BY <1>5 DEF ServiceUTXORequest
  <2>2. CASE UNCHANGED reading
    BY <1>1, <1>3, <2>1, <2>2 DEF ListingsTrue, ReadingTrue
  <2>3. CASE reading' = [n |-> Len(owned), torn |-> FALSE,
                         fields |-> <<[f |-> "count", v |-> Len(owned)]>>]
    <3>1. reading'.n = Len(owned) /\ reading'.fields = <<[f |-> "count", v |-> Len(owned)]>>
      BY <2>3
    <3>2. ListingOf(owned)[1] = [f |-> "count", v |-> Len(owned)]
      BY <1>1, ListingFacts
    <3>3. \A k \in 1 .. Len(reading'.fields) : reading'.fields[k] = ListingOf(owned)[k]
      <4>1. Len(reading'.fields) = 1 /\ reading'.fields[1] = [f |-> "count", v |-> Len(owned)]
        BY <3>1
      <4>2. \A k \in 1 .. Len(reading'.fields) : k = 1
        BY <4>1
      <4>3. QED
        BY <3>2, <4>1, <4>2
    <3>4. QED
      BY <1>1, <1>3, <2>1, <3>1, <3>3 DEF ListingsTrue, ReadingTrue
  <2>4. QED
    BY <1>5, <2>2, <2>3 DEF ServiceUTXORequest
<1>6. CASE GetAllUTXOs
  <2>1. owned' = owned /\ reading # NoReading /\ ~AllRead
    BY <1>6 DEF GetAllUTXOs
  <2>2. CASE reading' = NoReading
    BY <1>1, <1>3, <2>1, <2>2 DEF ListingsTrue, ReadingTrue
  <2>3. CASE \E field \in NextField : reading' = [reading EXCEPT !.fields = Append(@, field)]
    <3> SUFFICES ASSUME ~reading'.torn PROVE ReadingTrue'
      BY <1>1, <1>3, <2>1 DEF ListingsTrue, ReadingTrue
    <3>1. PICK field \in NextField : reading' = [reading EXCEPT !.fields = Append(@, field)]
      BY <2>3
    <3> DEFINE k == Len(reading.fields)
    <3>2. reading'.n = reading.n /\ reading'.fields = Append(reading.fields, field)
          /\ ~reading.torn
      BY <1>1, <3>1
    <3>3. /\ k \in 1 .. (1 + 2 * reading.n) /\ k # 1 + 2 * reading.n /\ reading.n \in Nat
          /\ reading.n = Len(owned) /\ reading.fields \in Seq(Field)
          /\ \A j \in 1 .. k : reading.fields[j] = ListingOf(owned)[j]
      BY <1>1, <2>1, <3>2 DEF ReadingOK, AllRead, ReadingTrue
    <3>4. field = ListingOf(owned)[k + 1]
      <4> DEFINE i == Index
      <4>1. i = (k + 1) \div 2 /\ (AtId <=> k % 2 = 1)
        BY DEF Index, AtId
      <4> HIDE DEF i, k
      <4>2. i \in 1 .. Len(owned) /\ (IF k % 2 = 1 THEN k + 1 = 2 * i ELSE k + 1 = 2 * i + 1)
        BY <3>3, <4>1
      <4>3. /\ ListingOf(owned)[2 * i] = [f |-> "id", v |-> owned[i]]
            /\ ListingOf(owned)[2 * i + 1] = [f |-> "amount", v |-> Amount[owned[i]]]
        BY <1>1, <4>2, ListingFacts
      <4>4. i <= Len(owned)
        BY <3>3, <4>2
      <4>5. CASE AtId
        <5>1. field = [f |-> "id", v |-> owned[i]]
          BY <3>1, <4>5 DEF NextField, i
        <5>2. k + 1 = 2 * i
          BY <4>1, <4>2, <4>5
        <5>3. QED
          BY <4>3, <5>1, <5>2
      <4>6. CASE ~AtId
        <5>1. field = [f |-> "amount", v |-> Amount[owned[i]]]
          BY <3>1, <4>4, <4>6 DEF NextField, i
        <5>2. k + 1 = 2 * i + 1
          BY <4>1, <4>2, <4>6
        <5>3. QED
          BY <4>3, <5>1, <5>2
      <4>7. QED
        BY <4>5, <4>6
    <3>5. field \in Field
      <4>1. /\ ListingOf(owned) \in Seq(Field) /\ Len(ListingOf(owned)) = 1 + 2 * Len(owned)
        BY <1>1, ListingFacts
      <4>2. k + 1 \in 1 .. Len(ListingOf(owned))
        BY <3>3, <4>1
      <4>3. QED
        BY <3>4, <4>1, <4>2, ElementOfSeq
    <3> DEFINE a == Append(reading.fields, field)
    <3>6. /\ Len(a) = k + 1 /\ a[k + 1] = field /\ k \in Nat
          /\ \A j \in 1 .. k : a[j] = reading.fields[j]
      BY <3>3, <3>5, AppendProperties
    <3> HIDE DEF a, k
    <3>7. \A j \in 1 .. Len(a) : a[j] = ListingOf(owned)[j]
      <4> SUFFICES ASSUME NEW j \in 1 .. Len(a) PROVE a[j] = ListingOf(owned)[j]
        OBVIOUS
      <4>1. j \in 1 .. k \/ j = k + 1
        BY <3>6
      <4>2. QED
        BY <3>3, <3>4, <3>6, <4>1
    <3>8. reading'.fields = a
      BY <3>2 DEF a
    <3>9. QED
      BY <2>1, <3>2, <3>3, <3>7, <3>8 DEF ReadingTrue
  <2>4. QED
    BY <1>6, <2>2, <2>3 DEF GetAllUTXOs
<1>7. QED
  BY <1>4, <1>5, <1>6

-----------------------------------------------------------------------------
(* The pieces of a listing on the air.                                     *)

LEMMA CutPieces ==
    ASSUME NEW f, NEW torn, NEW total, total = (Len(f) + PartLen - 1) \div PartLen,
           NEW k \in 1 .. total
    PROVE  LET c == CreateMultipartPackets(f, torn)
           IN  c[k].torn = torn /\ c[k].no = k /\ c[k].total = total /\ Piece(c[k], f)
<1> DEFINE c == CreateMultipartPackets(f, torn)
           x == SubSeq(f, (k - 1) * PartLen + 1, EndOf(k, Len(f)))
<1>1. c[k] = [no |-> k, total |-> total, torn |-> torn, fields |-> x]
  BY DEF CreateMultipartPackets, PartsOf, EndOf
<1> HIDE DEF c, x
<1>2. c[k].torn = torn /\ c[k].no = k /\ c[k].total = total /\ c[k].fields = x
  BY <1>1
<1>3. QED
  BY <1>2 DEF c, x, Piece

\* A run that is found elsewhere in another queue.
LEMMA RunMoves ==
    ASSUME NEW q, NEW r, NEW j \in Nat, NEW i \in Nat, RunComplete(q, j),
           q[j].no \in Nat, q[j].total \in Nat, q[j].no <= q[j].total,
           \A k \in Rest(q, j) : r[i + k] = q[j + k],
           i + (q[j].total - q[j].no) <= Len(r),
           q[j].no = q[j].total /\ i < Len(r) => r[i + 1].no = 1
    PROVE  /\ RunComplete(r, i) /\ r[i] = q[j]
           /\ \A o : Pieces(q, j, o) => Pieces(r, i, o)
<1>1. 0 \in Rest(q, j) /\ j + 0 = j /\ i + 0 = i
  BY DEF Rest
<1>2. r[i] = q[j]
  BY <1>1
<1>3. Rest(r, i) = Rest(q, j)
  BY <1>2 DEF Rest
<1>4. RunComplete(r, i)
  <2>1. \A k \in Rest(q, j) : /\ q[j + k].no = q[j].no + k
                              /\ q[j + k].total = q[j].total
                              /\ q[j + k].torn = q[j].torn
    BY DEF RunComplete
  <2>2. \A k \in Rest(r, i) : /\ r[i + k].no = r[i].no + k
                              /\ r[i + k].total = r[i].total
                              /\ r[i + k].torn = r[i].torn
    BY <1>2, <1>3, <2>1
  <2>3. QED
    BY <1>2, <2>2 DEF RunComplete
<1>5. ASSUME NEW o, Pieces(q, j, o) PROVE Pieces(r, i, o)
  BY <1>3, <1>5 DEF Pieces
<1>6. QED
  BY <1>2, <1>4, <1>5

LEMMA PartFacts ==
    ASSUME Typed, NEW j \in 1 .. Len(parts)
    PROVE  /\ parts[j].no \in Nat \ {0} /\ parts[j].total \in Nat \ {0}
           /\ parts[j].no <= parts[j].total /\ parts[j].torn \in BOOLEAN
           /\ parts[j].fields \in Seq(Field) /\ Len(parts[j].fields) \in 1 .. PartLen
           /\ Len(parts) \in Nat
<1>1. parts \in Seq(Part) /\ PartsFilled /\ Len(parts) \in Nat
  BY LenProperties DEF Typed, UtxoTypeOK
<1>2. parts[j] \in Part /\ Filled(parts[j])
  BY <1>1, ElementOfSeq DEF PartsFilled
<1>3. QED
  BY <1>1, <1>2 DEF Part, Filled

LEMMA SendTrue ==
    ASSUME Typed, ListingsTrue, ~overrun => BufferTrue, SendMultipartPacket
    PROVE  ListingsTrue' /\ (~overrun' => BufferTrue')
<1> DEFINE f == reading.fields
           c == CreateMultipartPackets(f, reading.torn)
           n == Len(parts)
<1>1. /\ parts \in Seq(Part) /\ ReadingOK /\ n \in Nat
      /\ reading \in [n : Nat, fields : Seq(Field), torn : BOOLEAN]
      /\ owned \in Distinct /\ owned \in Seq(Utxos) /\ ReadingTrue /\ RunsComplete
  BY LenProperties DEF Typed, UtxoTypeOK, ListingsTrue
<1>2. /\ reading # NoReading /\ AllRead /\ parts' = parts \o c
      /\ reading' = NoReading /\ owned' = owned
      /\ UNCHANGED <<buffer, patchy, overrun>>
  BY DEF SendMultipartPacket
<1>3. /\ f \in Seq(Field) /\ f # <<>> /\ reading.torn \in BOOLEAN /\ reading.n \in Nat
      /\ Len(f) = 1 + 2 * reading.n
  BY <1>1, <1>2 DEF ReadingOK, AllRead
<1>4. ~reading.torn => f = ListingOf(owned)
  <2> SUFFICES ASSUME ~reading.torn PROVE f = ListingOf(owned)
    OBVIOUS
  <2>1. reading.n = Len(owned) /\ \A k \in 1 .. Len(f) : f[k] = ListingOf(owned)[k]
    BY <1>1, <1>2 DEF ReadingTrue
  <2>2. ListingOf(owned) \in Seq(Field) /\ Len(ListingOf(owned)) = 1 + 2 * Len(owned)
    BY <1>1, ListingFacts
  <2>3. QED
    BY <1>3, <2>1, <2>2, SeqEqual
<1> DEFINE total == (Len(f) + PartLen - 1) \div PartLen
<1>5. PICK t \in Nat : Cut(c, f, t)
  BY <1>3, ListingIsCut
<1>6. /\ t \in Nat \ {0} /\ Len(c) = t /\ c \in Seq(Part)
      /\ \A k \in 1 .. t : c[k].no = k /\ c[k].total = t
  BY <1>5 DEF Cut
<1>7. total \in Nat \ {0}
  <2>1. Len(f) \in Nat \ {0}
    BY <1>3
  <2>2. QED
    BY <2>1, NumberOfParts
<1>8. ASSUME NEW k \in 1 .. total
      PROVE  c[k].torn = reading.torn /\ c[k].no = k /\ c[k].total = total /\ Piece(c[k], f)
  BY CutPieces
<1> HIDE DEF total
<1>9. t = total
  <2>1. 1 \in 1 .. t /\ 1 \in 1 .. total
    BY <1>6, <1>7
  <2>2. QED
    BY <1>6, <1>8, <2>1
<1> HIDE DEF c, n, f
<1>10. /\ Len(parts') = n + t
       /\ \A j \in 1 .. n : parts'[j] = parts[j]
       /\ \A j \in (n + 1) .. (n + t) : j - n \in 1 .. t /\ parts'[j] = c[j - n]
  <2>1. parts \in Seq(Part) /\ c \in Seq(Part)
    BY <1>1, <1>6
  <2>2. /\ Len(parts \o c) = Len(parts) + Len(c)
        /\ \A i \in 1 .. Len(parts) + Len(c) :
             (parts \o c)[i] = IF i <= Len(parts) THEN parts[i] ELSE c[i - Len(parts)]
    BY <2>1, ConcatProperties
  <2>3. /\ Len(parts') = n + t
        /\ \A i \in 1 .. n + t : parts'[i] = IF i <= n THEN parts[i] ELSE c[i - n]
    BY <1>2, <1>6, <2>2 DEF n
  <2>4. QED
    BY <1>1, <1>6, <2>3
<1>11. ASSUME NEW j \in 1 .. n
       PROVE  /\ RunComplete(parts', j) /\ parts'[j] = parts[j]
              /\ \A o : Pieces(parts, j, o) => Pieces(parts', j, o)
  <2>1. /\ parts[j].no \in Nat /\ parts[j].total \in Nat /\ parts[j].no <= parts[j].total
        /\ RunComplete(parts, j) /\ j \in Nat
    BY <1>1, PartFacts DEF RunsComplete, n
  <2>2. j + (parts[j].total - parts[j].no) <= n
    BY <2>1 DEF RunComplete, n
  <2>3. \A k \in Rest(parts, j) : parts'[j + k] = parts[j + k]
    <3> SUFFICES ASSUME NEW k \in Rest(parts, j) PROVE parts'[j + k] = parts[j + k]
      OBVIOUS
    <3>1. j + k \in 1 .. n
      BY <1>1, <2>1, <2>2 DEF Rest
    <3>2. QED
      BY <1>10, <3>1
  <2>4. j + (parts[j].total - parts[j].no) <= Len(parts')
    BY <1>1, <1>6, <1>10, <2>1, <2>2
  <2>5. ASSUME parts[j].no = parts[j].total PROVE parts'[j + 1].no = 1
    <3>1. CASE j < n
      <4>1. j + 1 \in 1 .. n /\ parts[j + 1].no = 1
        BY <1>1, <2>1, <2>5, <3>1 DEF RunComplete, n
      <4>2. QED
        BY <1>10, <4>1
    <3>2. CASE j = n
      <4>1. n + 1 \in (n + 1) .. (n + t) /\ (n + 1) - n = 1 /\ 1 \in 1 .. t
        BY <1>1, <1>6
      <4>2. QED
        BY <1>6, <1>10, <3>2, <4>1
    <3>3. QED
      BY <1>1, <3>1, <3>2
  <2>6. QED
    BY <2>1, <2>3, <2>4, <2>5, RunMoves
<1>12. ASSUME NEW j \in (n + 1) .. (n + t)
       PROVE  /\ RunComplete(parts', j)
              /\ ~parts'[j].torn => \E o \in Distinct : Pieces(parts', j, o)
  <2> DEFINE i == j - n
  <2>1. i \in 1 .. t /\ parts'[j] = c[i] /\ c[i].no = i /\ c[i].total = t /\ j = n + i
        /\ c[i].torn = reading.torn
    BY <1>1, <1>6, <1>8, <1>9, <1>10
  <2> HIDE DEF i
  <2>2. ASSUME NEW k \in 0 .. (t - i)
        PROVE  i + k \in 1 .. t /\ parts'[j + k] = c[i + k]
    <3>1. i + k \in 1 .. t /\ j + k \in (n + 1) .. (n + t) /\ (j + k) - n = i + k
      BY <1>1, <1>6, <2>1
    <3>2. QED
      BY <1>10, <3>1
  <2>3. Rest(parts', j) = 0 .. (t - i)
    BY <2>1 DEF Rest
  <2>4. RunComplete(parts', j)
    <3>1. j + (t - i) <= n + t
      BY <1>1, <1>6, <2>1
    <3>2. ~(i = t /\ j < n + t)
      BY <1>1, <1>6, <2>1
    <3>3. \A k \in 0 .. (t - i) : /\ parts'[j + k].no = i + k
                                  /\ parts'[j + k].total = t
                                  /\ parts'[j + k].torn = reading.torn
      BY <1>6, <1>8, <1>9, <2>2
    <3>4. QED
      BY <1>10, <2>1, <2>3, <3>1, <3>2, <3>3 DEF RunComplete
  <2>5. ASSUME ~parts'[j].torn PROVE Pieces(parts', j, owned)
    <3>1. f = ListingOf(owned)
      BY <1>4, <2>1, <2>5
    <3>2. QED
      BY <1>8, <1>9, <2>2, <2>3, <3>1 DEF Pieces
  <2>6. QED
    BY <1>1, <2>4, <2>5
<1>13. RunsComplete'
  <2> SUFFICES ASSUME NEW j \in 1 .. Len(parts')
               PROVE  /\ RunComplete(parts', j)
                      /\ ~parts'[j].torn => \E o \in Distinct : Pieces(parts', j, o)
    BY DEF RunsComplete, RunComplete, Pieces, Piece, Rest, ListingOf
  <2>1. CASE j \in 1 .. n
    BY <1>1, <1>11, <2>1 DEF RunsComplete, n
  <2>2. CASE j \in (n + 1) .. (n + t)
    BY <1>12, <2>2
  <2>3. QED
    BY <1>1, <1>6, <1>10, <2>1, <2>2
<1>14. ListingsTrue'
  BY <1>1, <1>2, <1>13 DEF ListingsTrue, ReadingTrue
<1>15. ASSUME ~overrun' PROVE BufferTrue'
  <2>1. BufferTrue
    BY <1>2, <1>15
  <2> SUFFICES ASSUME ~patchy
               PROVE  \/ buffer = <<>> /\ (parts' # <<>> => parts'[1].no = 1)
                      \/ Begun'
    BY <1>2 DEF BufferTrue
  <2>2. CASE n = 0
    <3>1. parts = <<>>
      BY <1>1, <2>2, EmptySeq DEF n
    <3>2. buffer = <<>>
      BY <2>1, <3>1 DEF BufferTrue, Begun
    <3>3. 1 \in (n + 1) .. (n + t) /\ 1 - n = 1 /\ 1 \in 1 .. t
      BY <1>6, <2>2
    <3>4. parts'[1].no = 1
      BY <1>6, <1>10, <3>3
    <3>5. QED
      BY <3>2, <3>4
  <2>3. CASE n # 0
    <3>1. parts # <<>> /\ 1 \in 1 .. n
      BY <1>1, <2>3, EmptySeq DEF n
    <3>2. /\ parts'[1] = parts[1]
          /\ \A o : Pieces(parts, 1, o) => Pieces(parts', 1, o)
      BY <1>11, <3>1
    <3>3. parts' # <<>>
      BY <1>1, <1>6, <1>10
    <3>4. CASE buffer = <<>> /\ parts[1].no = 1
      BY <3>2, <3>4
    <3>5. CASE Begun
      <4>1. /\ parts[1].no # 1 /\ buffer # <<>>
            /\ ~parts[1].torn => \E o \in Distinct :
                 /\ Pieces(parts, 1, o)
                 /\ buffer = SubSeq(ListingOf(o), 1, (parts[1].no - 1) * PartLen)
        BY <3>5 DEF Begun
      <4>2. /\ parts'[1].no # 1 /\ buffer' # <<>>
            /\ ~parts'[1].torn => \E o \in Distinct :
                 /\ Pieces(parts', 1, o)
                 /\ buffer' = SubSeq(ListingOf(o), 1, (parts'[1].no - 1) * PartLen)
        BY <1>2, <3>2, <4>1
      <4>3. QED
        BY <3>3, <4>2 DEF Begun, Pieces, Piece, Rest, ListingOf
    <3>6. QED
      BY <2>1, <3>1, <3>4, <3>5 DEF BufferTrue
  <2>4. QED
    BY <2>2, <2>3
<1>16. QED
  BY <1>14, <1>15

\* The runs behind the first part stay complete when it is gone.
LEMMA TailTrue ==
    ASSUME Typed, RunsComplete, parts # <<>>, parts' = Tail(parts)
    PROVE  RunsComplete'
<1>1. /\ Len(parts) \in Nat \ {0} /\ Len(parts') = Len(parts) - 1
      /\ \A j \in 1 .. Len(parts') : parts'[j] = parts[j + 1] /\ j + 1 \in 1 .. Len(parts)
  BY TailOK
<1> SUFFICES ASSUME NEW j \in 1 .. Len(parts')
             PROVE  /\ RunComplete(parts', j)
                    /\ ~parts'[j].torn => \E o \in Distinct : Pieces(parts', j, o)
  BY DEF RunsComplete, RunComplete, Pieces, Piece, Rest, ListingOf
<1>2. /\ parts'[j] = parts[j + 1] /\ j + 1 \in 1 .. Len(parts) /\ j \in Nat /\ j + 1 \in Nat
      /\ parts[j + 1].no \in Nat /\ parts[j + 1].total \in Nat
      /\ parts[j + 1].no <= parts[j + 1].total
      /\ RunComplete(parts, j + 1)
      /\ ~parts[j + 1].torn => \E o \in Distinct : Pieces(parts, j + 1, o)
  BY <1>1, PartFacts DEF RunsComplete
<1>3. (j + 1) + (parts[j + 1].total - parts[j + 1].no) <= Len(parts)
  BY <1>2 DEF RunComplete
<1>4. \A k \in Rest(parts, j + 1) : parts'[j + k] = parts[(j + 1) + k]
  <2> SUFFICES ASSUME NEW k \in Rest(parts, j + 1) PROVE parts'[j + k] = parts[(j + 1) + k]
    OBVIOUS
  <2> DEFINE d == parts[j + 1].total - parts[j + 1].no
  <2>1. d \in Nat /\ k \in 0 .. d /\ (j + 1) + d <= Len(parts)
    BY <1>2, <1>3 DEF Rest
  <2> HIDE DEF d
  <2>2. j + k \in 1 .. Len(parts') /\ (j + k) + 1 = (j + 1) + k
    BY <1>1, <1>2, <2>1
  <2>3. QED
    BY <1>1, <2>2
<1>5. j + (parts[j + 1].total - parts[j + 1].no) <= Len(parts')
  BY <1>1, <1>2, <1>3
<1>6. ASSUME parts[j + 1].no = parts[j + 1].total, j < Len(parts')
      PROVE  parts'[j + 1].no = 1
  <2>1. j + 1 < Len(parts) /\ j + 1 \in 1 .. Len(parts') /\ (j + 1) + 1 \in 1 .. Len(parts)
    BY <1>1, <1>2, <1>6
  <2>2. parts[(j + 1) + 1].no = 1
    BY <1>2, <1>6, <2>1 DEF RunComplete
  <2>3. QED
    BY <1>1, <2>1, <2>2
<1>7. RunComplete(parts', j) /\ \A o : Pieces(parts, j + 1, o) => Pieces(parts', j, o)
  BY <1>2, <1>4, <1>5, <1>6, RunMoves
<1>8. QED
  BY <1>2, <1>7

LEMMA LoseTrue ==
    ASSUME Typed, ListingsTrue, LosePart
    PROVE  ListingsTrue' /\ BufferTrue'
<1>1. parts # <<>> /\ parts' = Tail(parts) /\ patchy' = TRUE /\ UNCHANGED hubVars
  BY DEF LosePart
<1>2. RunsComplete'
  BY <1>1, TailTrue DEF ListingsTrue
<1>3. QED
  BY <1>1, <1>2 DEF ListingsTrue, BufferTrue, ReadingTrue, hubVars

-----------------------------------------------------------------------------
(* What the buffer and the part that has come make of a listing.           *)

LEMMA PieceEnds ==
    ASSUME NEW n \in Nat \ {0}, NEW no \in Nat \ {0}, NEW total \in Nat,
           total = (n + PartLen - 1) \div PartLen, no <= total
    PROVE  LET a == (no - 1) * PartLen
               b == EndOf(no, n)
           IN  /\ a \in Nat /\ b \in Nat /\ a <= b /\ b <= n
               /\ no = total => b = n
               /\ no # total => b = no * PartLen
<1>1. PartLen \in Nat /\ PartLen > 0
  BY Constants
<1>2. PartLen * total <= n + PartLen - 1 /\ n + PartLen - 1 < PartLen * total + PartLen
  BY <1>1
<1>3. /\ (no - 1) * PartLen \in Nat /\ no * PartLen \in Nat /\ total * PartLen \in Nat
      /\ (total - 1) * PartLen \in Int
      /\ no * PartLen = (no - 1) * PartLen + PartLen
      /\ total * PartLen = (total - 1) * PartLen + PartLen
      /\ PartLen * total = total * PartLen
  BY <1>1
<1>4. (no - 1) * PartLen <= (total - 1) * PartLen
  BY <1>1
<1>5. no # total => no * PartLen <= (total - 1) * PartLen
  BY <1>1
<1> DEFINE a == (no - 1) * PartLen
           e == no * PartLen
           z == (total - 1) * PartLen
           t == total * PartLen
<1>6. /\ a \in Nat /\ e \in Nat /\ t \in Nat /\ z \in Int /\ e = a + PartLen
      /\ t = z + PartLen /\ t <= n + PartLen - 1 /\ n + PartLen - 1 < t + PartLen
      /\ a <= z /\ (no # total => e <= z) /\ (no = total => e = t)
  BY <1>2, <1>3, <1>4, <1>5
<1>7. EndOf(no, n) = IF e > n THEN n ELSE e
  BY DEF EndOf
<1> HIDE DEF a, e, z, t
<1>8. /\ EndOf(no, n) \in Nat /\ a <= EndOf(no, n) /\ EndOf(no, n) <= n
      /\ (no = total => EndOf(no, n) = n) /\ (no # total => EndOf(no, n) = e)
  BY <1>1, <1>6, <1>7
<1>9. QED
  BY <1>6, <1>8 DEF a, e

\* A listing up to a piece and the piece itself make the listing up to its end.
LEMMA JoinPiece ==
    ASSUME NEW o \in Seq(Utxos), NEW part, part.no \in Nat \ {0}, part.total \in Nat,
           part.no <= part.total, Piece(part, ListingOf(o)), NEW start,
           start = SubSeq(ListingOf(o), 1, (part.no - 1) * PartLen)
    PROVE  LET l == ListingOf(o)
           IN  /\ part.no = part.total => start \o part.fields = l
               /\ part.no # part.total =>
                    start \o part.fields = SubSeq(l, 1, part.no * PartLen)
<1> DEFINE l == ListingOf(o)
           n == Len(l)
           a == (part.no - 1) * PartLen
           b == EndOf(part.no, n)
<1>1. l \in Seq(Field) /\ n \in Nat \ {0}
  <2>1. l \in Seq(Field) /\ n = 1 + 2 * Len(o) /\ Len(o) \in Nat
    BY ListingFacts
  <2>2. QED
    BY <2>1
<1>2. part.total = (n + PartLen - 1) \div PartLen /\ part.fields = SubSeq(l, a + 1, b)
  BY DEF Piece
<1> HIDE DEF l, n
<1>3. /\ a \in Nat /\ b \in Nat /\ a <= b /\ b <= n
      /\ part.no = part.total => b = n
      /\ part.no # part.total => b = part.no * PartLen
  BY <1>1, <1>2, PieceEnds
<1>4. start = SubSeq(l, 1, a)
  BY DEF l
<1> HIDE DEF a, b
<1>5. start \o part.fields = SubSeq(l, 1, b)
  <2>1. 1 \in 1 .. Len(l) + 1 /\ a \in 1 - 1 .. Len(l) /\ b \in a .. Len(l)
    BY <1>1, <1>3 DEF n
  <2>2. SubSeq(l, 1, a) \o SubSeq(l, a + 1, b) = SubSeq(l, 1, b)
    BY <1>1, <2>1, ConcatAdjacentSubSeq
  <2>3. QED
    BY <1>2, <1>4, <2>2
<1>6. SubSeq(l, 1, n) = l
  BY <1>1, SubSeqFull DEF n
<1>7. QED
  BY <1>3, <1>5, <1>6 DEF l

LEMMA WholeTrue ==
    ASSUME Typed, RunsComplete, BufferTrue, parts # <<>>,
           ~patchy \/ (buffer = <<>> /\ parts[1].no = 1), ~parts[1].torn
    PROVE  \E o \in Distinct :
             /\ Pieces(parts, 1, o)
             /\ LET l == ListingOf(o)
                    whole == buffer \o parts[1].fields
                IN  /\ parts[1].no = parts[1].total => whole = l
                    /\ parts[1].no # parts[1].total =>
                         whole = SubSeq(l, 1, parts[1].no * PartLen)
<1>1. parts \in Seq(Part)
  BY DEF Typed, UtxoTypeOK
<1>2. 1 \in 1 .. Len(parts)
  BY <1>1, EmptySeq
<1>3. /\ parts[1].no \in Nat \ {0} /\ parts[1].total \in Nat /\ parts[1].no <= parts[1].total
      /\ \E o \in Distinct : Pieces(parts, 1, o)
  BY <1>2, PartFacts DEF RunsComplete
<1>4. PICK o \in Distinct :
        /\ Pieces(parts, 1, o)
        /\ buffer = SubSeq(ListingOf(o), 1, (parts[1].no - 1) * PartLen)
  <2>1. CASE buffer = <<>> /\ parts[1].no = 1
    <3>1. PICK o \in Distinct : Pieces(parts, 1, o)
      BY <1>3
    <3>2. (parts[1].no - 1) * PartLen = 0
      BY <2>1, Constants
    <3>3. SubSeq(ListingOf(o), 1, 0) = <<>>
      BY SubSeqEmpty
    <3>4. QED
      BY <2>1, <3>1, <3>2, <3>3
  <2>2. CASE Begun
    BY <2>2 DEF Begun
  <2>3. QED
    BY <2>1, <2>2 DEF BufferTrue
<1>5. Piece(parts[1], ListingOf(o))
  <2>1. 0 \in Rest(parts, 1) /\ 1 + 0 = 1
    BY <1>3 DEF Rest
  <2>2. QED
    BY <1>4, <2>1 DEF Pieces
<1>6. o \in Seq(Utxos)
  BY DEF Distinct
<1>7. QED
  BY <1>3, <1>4, <1>5, <1>6, JoinPiece

\* A part is put behind the buffer: what is begun stays begun, and what is
\* complete and not known to be patchy, torn or shared is a listing.
LEMMA ReceiveTrue ==
    ASSUME Typed, TInv, ~overrun, ReceivePart
    PROVE  TInv'
<1> DEFINE p == parts[1]
           whole == buffer \o p.fields
           last == p.no = p.total
           patched == patchy /\ ~(buffer = <<>> /\ p.no = 1)
<1>1. /\ parts # <<>> /\ parts' = Tail(parts) /\ serial = Polling
      /\ UNCHANGED <<hubVars, ids, amounts, menu>>
      /\ AppendPart(Head(parts), <<>>)
  BY DEF ReceivePart
<1>2. /\ ListingsTrue /\ RunsComplete /\ BufferTrue /\ TableTrue
  BY DEF TInv, ListingsTrue
<1>3. ListingsTrue'
  <2>1. RunsComplete'
    BY <1>1, <1>2, TailTrue
  <2>2. QED
    BY <1>1, <1>2, <2>1 DEF ListingsTrue, ReadingTrue, hubVars
<1> SUFFICES ASSUME ~overrun' PROVE BufferTrue' /\ TableTrue'
  BY <1>3 DEF TInv
<1>4. /\ Head(parts) = p /\ Len(parts) \in Nat \ {0} /\ Len(parts') = Len(parts) - 1
      /\ \A j \in 1 .. Len(parts') : parts'[j] = parts[j + 1] /\ j + 1 \in 1 .. Len(parts)
      /\ parts' \in Seq(Part) /\ 1 \in 1 .. Len(parts)
  <2>1. /\ Head(parts) = p /\ Len(parts) \in Nat \ {0} /\ Len(parts') = Len(parts) - 1
        /\ \A j \in 1 .. Len(parts') : parts'[j] = parts[j + 1] /\ j + 1 \in 1 .. Len(parts)
        /\ parts' \in Seq(Part)
    BY <1>1, TailOK
  <2>2. 1 \in 1 .. Len(parts)
    BY <2>1
  <2>3. QED
    BY <2>1, <2>2
<1>5. /\ p.no \in Nat \ {0} /\ p.total \in Nat \ {0} /\ p.no <= p.total /\ p.torn \in BOOLEAN
      /\ RunComplete(parts, 1)
  BY <1>2, <1>4, PartFacts DEF RunsComplete
<1>6. /\ whole \in Seq(Field) /\ Len(whole) \in Nat \ {0}
  BY <1>1, WholeOK
<1>7. /\ ~(Len(whole) > BufferLen)
      /\ buffer' = IF last THEN <<>> ELSE whole
      /\ patchy' = patched
      /\ IF last THEN processReceivedUTXOs(whole, patched \/ p.torn)
         ELSE UNCHANGED <<numUTXOs, serial, spoiled>>
  BY <1>1, <1>4 DEF AppendPart
<1>8. ASSUME ~patched, ~p.torn
      PROVE  \E o \in Distinct : /\ Pieces(parts, 1, o)
                                 /\ last => whole = ListingOf(o)
                                 /\ ~last => whole = SubSeq(ListingOf(o), 1, p.no * PartLen)
  <2>1. ~patchy \/ (buffer = <<>> /\ parts[1].no = 1)
    BY <1>8
  <2>2. QED
    BY <1>1, <1>2, <1>8, <2>1, WholeTrue
<1> HIDE DEF whole, patched
<1>9. BufferTrue'
  <2> SUFFICES ASSUME ~patched
               PROVE  \/ buffer' = <<>> /\ (parts' # <<>> => parts'[1].no = 1)
                      \/ Begun'
    BY <1>7 DEF BufferTrue
  <2>1. CASE last
    <3>1. ASSUME parts' # <<>> PROVE parts'[1].no = 1
      <4>1. Len(parts') \in Nat \ {0}
        BY <1>4, <3>1, EmptySeq
      <4>2. 1 \in 1 .. Len(parts') /\ 1 < Len(parts) /\ 1 + 1 = 2
        BY <1>4, <4>1
      <4>3. parts'[1] = parts[1 + 1] /\ parts[1 + 1].no = 1
        BY <1>4, <1>5, <2>1, <4>2 DEF RunComplete
      <4>4. QED
        BY <4>3
    <3>2. QED
      BY <1>7, <2>1, <3>1
  <2>2. CASE ~last
    <3> DEFINE d == p.total - p.no
    <3>1. d \in Nat \ {0} /\ 1 + d <= Len(parts) /\ Rest(parts, 1) = 0 .. d
      BY <1>5, <2>2 DEF RunComplete, Rest
    <3>2. /\ 1 \in 0 .. d /\ 1 \in 1 .. Len(parts') /\ 1 + 1 = 2
      BY <1>4, <3>1
    <3>3. /\ parts'[1] = parts[2] /\ parts[2].no = p.no + 1 /\ parts[2].total = p.total
          /\ parts[2].torn = p.torn
      BY <1>4, <1>5, <3>1, <3>2 DEF RunComplete
    <3>4. parts' # <<>> /\ parts'[1].no # 1 /\ whole # <<>>
      BY <1>4, <1>5, <1>6, <3>2, <3>3
    <3>5. ASSUME ~parts'[1].torn
          PROVE  \E o \in Distinct :
                   /\ Pieces(parts', 1, o)
                   /\ whole = SubSeq(ListingOf(o), 1, (parts'[1].no - 1) * PartLen)
      <4>1. PICK o \in Distinct : /\ Pieces(parts, 1, o)
                                  /\ whole = SubSeq(ListingOf(o), 1, p.no * PartLen)
        BY <1>8, <2>2, <3>3, <3>5
      <4>2. ASSUME NEW k \in Rest(parts', 1)
            PROVE  Piece(parts'[1 + k], ListingOf(o))
        <5>1. k \in 0 .. (p.total - (p.no + 1))
          BY <3>3, <4>2 DEF Rest
        <5>2. 1 + k \in 1 .. Len(parts') /\ k + 1 \in 0 .. d /\ (1 + k) + 1 = 1 + (k + 1)
          BY <1>4, <1>5, <3>1, <5>1
        <5>3. parts'[1 + k] = parts[1 + (k + 1)]
          BY <1>4, <5>2
        <5>4. QED
          BY <3>1, <4>1, <5>2, <5>3 DEF Pieces
      <4>3. parts'[1].no - 1 = p.no
        BY <1>5, <3>3
      <4>4. QED
        BY <4>1, <4>2, <4>3 DEF Pieces
    <3>6. Begun'
      BY <1>7, <2>2, <3>4, <3>5 DEF Begun, Pieces, Piece, Rest, ListingOf
    <3>7. QED
      BY <3>6
  <2>3. QED
    BY <2>1, <2>2
<1>10. TableTrue'
  <2>1. CASE UNCHANGED <<numUTXOs, serial, spoiled>>
    BY <1>1, <1>2, <2>1
    DEF TableTrue, SerialTrue, PollTrue, MenuTrue, Written, Slot, ListingOf
  <2>2. CASE last /\ whole[1].f # "count" /\ ~UNCHANGED <<numUTXOs, serial, spoiled>>
    <3>1. spoiled' = TRUE
      BY <1>7, <2>2 DEF processReceivedUTXOs
    <3>2. QED
      BY <3>1 DEF TableTrue
  <2>3. CASE last /\ whole[1].f = "count"
    <3>1. /\ numUTXOs' = whole[1].v
          /\ serial' = [pc |-> "id", i |-> 0, from |-> whole]
          /\ spoiled' = ((patched \/ p.torn) \/ menu # Idle)
      BY <1>7, <2>3 DEF processReceivedUTXOs
    <3> SUFFICES ASSUME ~spoiled' PROVE SerialTrue' /\ PollTrue' /\ MenuTrue'
      BY DEF TableTrue
    <3>2. ~patched /\ ~p.torn /\ menu = Idle /\ menu' = Idle
      BY <1>1, <3>1
    <3>3. PICK o \in Distinct : whole = ListingOf(o)
      BY <1>8, <2>3, <3>2
    <3>4. /\ Len(whole) = 1 + 2 * Len(o) /\ Len(o) \in Nat
          /\ whole[1] = [f |-> "count", v |-> Len(o)]
      BY <3>3, ListingFacts DEF Distinct
    <3>5. Len(o) < MaxNumUtxos /\ numUTXOs' = Len(o)
      <4>1. Len(o) < MaxNumUtxos
        BY <1>6, <1>7, <3>4, Constants
      <4>2. QED
        BY <3>1, <3>4, <4>1
    <3>6. serial'.pc = "id" /\ serial'.i = 0 /\ serial'.from = ListingOf(o) /\ serial' # Polling
      BY <3>1, <3>3 DEF Polling
    <3>7. SerialTrue'
      <4>1. 0 <= Len(o) /\ \A s \in 0 .. (0 - 1) : FALSE
        BY <3>4
      <4>2. \A s \in 0 .. (serial'.i - 1) :
              ids'[s] = o[s + 1] /\ amounts'[s] = Amount[o[s + 1]]
        BY <3>6, <4>1
      <4>3. /\ serial'.from = ListingOf(o) /\ numUTXOs' = Len(o) /\ Len(o) < MaxNumUtxos
            /\ serial'.i <= Len(o) /\ serial'.pc # "amount"
        BY <3>5, <3>6, <4>1
      <4>4. QED
        BY <3>2, <4>2, <4>3 DEF SerialTrue, Written, ListingOf
    <3>8. PollTrue'
      BY <3>6 DEF PollTrue
    <3>9. MenuTrue'
      <4>1. menu'.pc = "idle"
        BY <3>2 DEF Idle
      <4>2. QED
        BY <4>1 DEF MenuTrue
    <3>10. QED
      BY <3>7, <3>8, <3>9
  <2>4. QED
    BY <1>7, <2>1, <2>2, <2>3
<1>11. QED
  BY <1>9, <1>10

-----------------------------------------------------------------------------
(* The table.                                                              *)

\* The listings are of the hub and of the air.
LEMMA ListingsKept ==
    ASSUME ListingsTrue, UNCHANGED <<owned, reading, parts>>
    PROVE  ListingsTrue'
<1>1. ReadingTrue'
  BY DEF ListingsTrue, ReadingTrue
<1>2. RunsComplete'
  BY DEF ListingsTrue, RunsComplete, RunComplete, Pieces, Piece, Rest, ListingOf
<1>3. QED
  BY <1>1, <1>2 DEF ListingsTrue

\* Steps that leave the air and the hub alone have only the table to keep.
LEMMA TableStep ==
    ASSUME TInv, ~overrun, UNCHANGED <<hubVars, parts, buffer, patchy>>,
           ~overrun' => TableTrue'
    PROVE  TInv'
<1>1. ListingsTrue'
  BY ListingsKept DEF TInv, hubVars
<1>2. BufferTrue'
  BY DEF TInv, BufferTrue, Begun, Pieces, Piece, Rest, ListingOf
<1>3. QED
  BY <1>1, <1>2 DEF TInv

LEMMA TableTypes ==
    ASSUME Typed
    PROVE  /\ serial \in [pc : {"poll", "id", "amount"}, i : Nat, from : Seq(Field)]
           /\ ids \in [Slots -> Ids] /\ amounts \in [Slots -> Nat] /\ numUTXOs \in Nat
           /\ MenuOK /\ spoiled \in BOOLEAN
           /\ Slots = 0 .. (MaxNumUtxos - 1) /\ MaxNumUtxos \in Nat \ {0}
           /\ Idle.pc = "idle" /\ Polling.pc = "poll"
  BY Constants DEF Typed, UtxoTypeOK, Slots, Idle, Polling

LEMMA IdTrue ==
    ASSUME Typed, TInv, ~overrun, DeserializeId
    PROVE  TInv'
<1>1. /\ serial.pc = "id" /\ serial # Polling
      /\ UNCHANGED <<hubVars, parts, buffer, patchy, numUTXOs, amounts, menu>>
  BY TableTypes DEF DeserializeId
<1> SUFFICES ASSUME ~overrun', ~spoiled' PROVE TableTrue'
  BY <1>1, TableStep DEF TableTrue
<1>2. ~spoiled
  BY DEF DeserializeId
<1>3. PICK o \in Distinct :
        /\ serial.from = ListingOf(o)
        /\ numUTXOs = Len(o) /\ Len(o) < MaxNumUtxos
        /\ serial.i <= Len(o) /\ Written(o, serial.i)
  BY <1>1, <1>2 DEF TInv, TableTrue, SerialTrue
<1>4. menu = Idle /\ menu' = Idle /\ MenuTrue'
  <2>1. menu = Idle /\ menu' = Idle
    BY <1>1, <1>2 DEF TInv, TableTrue, SerialTrue
  <2>2. menu'.pc = "idle"
    BY <2>1, TableTypes
  <2>3. QED
    BY <2>1, <2>2 DEF MenuTrue
<1>5. /\ o \in Seq(Utxos) /\ Len(o) \in Nat /\ \A i \in 1 .. Len(o) : o[i] \in Utxos
      /\ \A i, j \in 1 .. Len(o) : o[i] = o[j] => i = j
      /\ serial.i \in Nat /\ ids \in [Slots -> Ids]
      /\ Slots = 0 .. (MaxNumUtxos - 1) /\ MaxNumUtxos \in Nat
  BY LenProperties, ElementOfSeq, TableTypes DEF Distinct
<1>6. CASE serial.i >= numUTXOs
  <2>1. serial' = Polling /\ UNCHANGED ids
    BY <1>6 DEF DeserializeId
  <2>2. serial.i = Len(o) /\ numUTXOs' = Len(o) /\ numUTXOs' <= MaxNumUtxos
    BY <1>1, <1>3, <1>5, <1>6
  <2>3. ASSUME NEW s \in 0 .. (Len(o) - 1)
        PROVE  s + 1 \in 1 .. Len(o) /\ ids'[s] = o[s + 1] /\ amounts'[s] = Amount[o[s + 1]]
    <3>1. s + 1 \in 1 .. Len(o)
      BY <1>5
    <3>2. QED
      BY <1>1, <1>3, <2>1, <2>2, <3>1 DEF Written
  <2>4. \A s \in 0 .. (Len(o) - 1) : ids'[s] \in Utxos /\ amounts'[s] = Amount[ids'[s]]
    BY <1>5, <2>3
  <2>5. ASSUME NEW s \in 0 .. (Len(o) - 1), NEW t \in 0 .. (Len(o) - 1), ids'[s] = ids'[t]
        PROVE  s = t
    <3>1. s + 1 = t + 1
      BY <1>5, <2>3, <2>5
    <3>2. QED
      BY <3>1
  <2>6. PollTrue'
    BY <2>2, <2>4, <2>5 DEF PollTrue
  <2>7. QED
    BY <1>4, <2>1, <2>6 DEF TableTrue, SerialTrue
<1>7. CASE ~(serial.i >= numUTXOs)
  <2>1. ~(serial.i >= MaxNumUtxos)
    BY <1>3, <1>5, <1>7
  <2> DEFINE i == serial.i
             k == 2 * i + 2
  <2>2. /\ serial' = [serial EXCEPT !.pc = "amount"]
        /\ \E u \in Reads(k, "id") : ids' = [ids EXCEPT ![i] = u]
    BY <1>7, <2>1 DEF DeserializeId
  <2>3. i \in Nat /\ i < Len(o) /\ i + 1 \in 1 .. Len(o) /\ i \in Slots /\ k = 2 * (i + 1)
    BY <1>3, <1>5, <1>7
  <2>4. k <= Len(serial.from) /\ serial.from[k].f = "id" /\ serial.from[k].v = o[i + 1]
    <3>1. /\ 2 * (i + 1) \in 1 .. Len(ListingOf(o))
          /\ ListingOf(o)[2 * (i + 1)] = [f |-> "id", v |-> o[i + 1]]
          /\ Len(ListingOf(o)) = 1 + 2 * Len(o)
      BY <1>5, <2>3, ListingFacts
    <3>2. k <= Len(ListingOf(o))
      BY <1>5, <2>3, <3>1
    <3>3. QED
      BY <1>3, <2>3, <3>1, <3>2
  <2>5. ids' = [ids EXCEPT ![i] = o[i + 1]]
    <3>1. Reads(k, "id") = {o[i + 1]}
      BY <2>4 DEF Reads
    <3>2. QED
      BY <2>2, <3>1
  <2>6. serial'.pc = "amount" /\ serial'.i = i /\ serial'.from = ListingOf(o)
        /\ serial' # Polling
    <3>1. serial \in [pc : {"poll", "id", "amount"}, i : Nat, from : Seq(Field)]
      BY TableTypes
    <3>2. serial'.pc = "amount" /\ serial'.i = i /\ serial'.from = serial.from
      BY <2>2, <3>1
    <3>3. QED
      BY <1>3, <3>2, TableTypes
  <2> HIDE DEF i, k
  <2>7. ids'[i] = o[i + 1] /\ \A s \in 0 .. (i - 1) : ids'[s] = ids[s]
    <3>1. \A s \in 0 .. (i - 1) : s \in Slots /\ s # i
      BY <1>5, <2>3
    <3>2. QED
      BY <1>5, <2>3, <2>5, <3>1
  <2>8. \A s \in 0 .. (i - 1) : ids'[s] = o[s + 1] /\ amounts'[s] = Amount[o[s + 1]]
    BY <1>1, <1>3, <2>7 DEF Written, i
  <2>9. SerialTrue'
    <3>1. /\ numUTXOs' = Len(o) /\ Len(o) < MaxNumUtxos /\ i <= Len(o)
      BY <1>1, <1>3, <1>5, <2>3
    <3>2. QED
      BY <1>4, <2>3, <2>6, <2>7, <2>8, <3>1 DEF SerialTrue, Written, ListingOf
  <2>10. QED
    BY <1>4, <2>6, <2>9 DEF TableTrue, PollTrue
<1>8. QED
  BY <1>6, <1>7

LEMMA AmountTrue ==
    ASSUME Typed, TInv, ~overrun, DeserializeAmount
    PROVE  TInv'
<1>1. /\ serial.pc = "amount" /\ serial # Polling
      /\ UNCHANGED <<hubVars, parts, buffer, patchy, numUTXOs, ids, menu, spoiled>>
  BY TableTypes DEF DeserializeAmount
<1> SUFFICES ASSUME ~overrun', ~spoiled' PROVE TableTrue'
  BY <1>1, TableStep DEF TableTrue
<1> DEFINE i == serial.i
           k == 2 * i + 3
<1>2. PICK o \in Distinct :
        /\ serial.from = ListingOf(o)
        /\ numUTXOs = Len(o) /\ Len(o) < MaxNumUtxos
        /\ i < Len(o) /\ Written(o, i) /\ ids[i] = o[i + 1]
  BY <1>1 DEF TInv, TableTrue, SerialTrue
<1>3. menu' = Idle /\ MenuTrue'
  <2>1. menu' = Idle
    BY <1>1 DEF TInv, TableTrue, SerialTrue
  <2>2. menu'.pc = "idle"
    BY <2>1, TableTypes
  <2>3. QED
    BY <2>1, <2>2 DEF MenuTrue
<1>4. /\ o \in Seq(Utxos) /\ Len(o) \in Nat /\ i \in Nat /\ amounts \in [Slots -> Nat]
      /\ Slots = 0 .. (MaxNumUtxos - 1) /\ MaxNumUtxos \in Nat
  BY LenProperties, TableTypes DEF Distinct
<1>5. i + 1 \in 1 .. Len(o) /\ i \in Slots /\ k = 2 * (i + 1) + 1
  <2>1. i \in Nat /\ Len(o) \in Nat /\ i < Len(o) /\ Len(o) < MaxNumUtxos /\ MaxNumUtxos \in Nat
    BY <1>2, <1>4
  <2>2. k = 2 * i + 3
    OBVIOUS
  <2> HIDE DEF i, k
  <2>3. i + 1 \in 1 .. Len(o) /\ i \in 0 .. (MaxNumUtxos - 1) /\ k = 2 * (i + 1) + 1
    BY <2>1, <2>2
  <2>4. QED
    BY <1>4, <2>3
<1>6. Reads(k, "amount") = {Amount[o[i + 1]]}
  <2>1. /\ 2 * (i + 1) + 1 \in 1 .. Len(ListingOf(o))
        /\ ListingOf(o)[2 * (i + 1) + 1] = [f |-> "amount", v |-> Amount[o[i + 1]]]
        /\ Len(ListingOf(o)) = 1 + 2 * Len(o)
    BY <1>4, <1>5, ListingFacts
  <2>2. k <= Len(ListingOf(o))
    BY <1>4, <1>5, <2>1
  <2>3. /\ k <= Len(serial.from) /\ serial.from[k].f = "amount"
        /\ serial.from[k].v = Amount[o[i + 1]]
    BY <1>2, <1>5, <2>1, <2>2
  <2>4. QED
    BY <2>3 DEF Reads
<1>7. amounts' = [amounts EXCEPT ![i] = Amount[o[i + 1]]]
  BY <1>6 DEF DeserializeAmount
<1>8. serial'.pc = "id" /\ serial'.i = i + 1 /\ serial'.from = ListingOf(o) /\ serial' # Polling
  <2>1. serial \in [pc : {"poll", "id", "amount"}, i : Nat, from : Seq(Field)]
        /\ serial' = [serial EXCEPT !.pc = "id", !.i = @ + 1]
    BY TableTypes DEF DeserializeAmount
  <2>2. serial'.pc = "id" /\ serial'.i = i + 1 /\ serial'.from = serial.from
    BY <2>1
  <2>3. QED
    BY <1>2, <2>2, TableTypes
<1> HIDE DEF i, k
<1>9. ASSUME NEW s \in 0 .. (i + 1 - 1)
      PROVE  ids'[s] = o[s + 1] /\ amounts'[s] = Amount[o[s + 1]]
  <2>1. s \in 0 .. (i - 1) \/ s = i
    BY <1>4
  <2>2. CASE s = i
    BY <1>1, <1>2, <1>4, <1>5, <1>7, <2>2
  <2>3. CASE s \in 0 .. (i - 1)
    <3>1. s \in Slots /\ s # i
      BY <1>4, <1>5, <2>3
    <3>2. QED
      BY <1>1, <1>2, <1>4, <1>7, <2>3, <3>1 DEF Written
  <2>4. QED
    BY <2>1, <2>2, <2>3
<1>10. SerialTrue'
  <2>1. numUTXOs' = Len(o) /\ Len(o) < MaxNumUtxos /\ i + 1 <= Len(o)
    BY <1>1, <1>2, <1>4, <1>5
  <2>2. Written(o, serial.i)'
    <3>1. \A s \in 0 .. (serial'.i - 1) :
            ids'[s] = o[s + 1] /\ amounts'[s] = Amount[o[s + 1]]
      <4>1. 0 .. (serial'.i - 1) = 0 .. (i + 1 - 1)
        BY <1>4, <1>8
      <4>2. QED
        BY <1>9, <4>1
    <3>2. QED
      BY <3>1 DEF Written
  <2>3. /\ serial'.from = ListingOf(o)' /\ serial'.i <= Len(o) /\ serial'.pc # "amount"
    BY <1>8, <2>1 DEF ListingOf
  <2>4. QED
    BY <1>3, <2>1, <2>2, <2>3 DEF SerialTrue
<1>11. QED
  BY <1>3, <1>8, <1>10 DEF TableTrue, PollTrue

\* While the table is not spoiled, the menu finds the serial thread waiting.
LEMMA MenuAlone ==
    ASSUME Typed, TInv, ~overrun, spoiled' = (spoiled \/ serial # Polling), ~spoiled'
    PROVE  /\ ~spoiled /\ serial = Polling /\ MenuTrue
           /\ numUTXOs <= MaxNumUtxos /\ numUTXOs \in Nat
           /\ \A s \in 0 .. (numUTXOs - 1) : s \in Slots
           /\ \A s \in 0 .. (numUTXOs - 1) :
                ids[s] \in Utxos /\ amounts[s] = Amount[ids[s]]
           /\ \A s, t \in 0 .. (numUTXOs - 1) : ids[s] = ids[t] => s = t
<1>1. ~spoiled /\ serial = Polling
  OBVIOUS
<1>2. MenuTrue /\ PollTrue
  BY <1>1 DEF TInv, TableTrue
<1>3. numUTXOs <= MaxNumUtxos
  BY <1>1, <1>2 DEF PollTrue
<1>4. \A s \in 0 .. (numUTXOs - 1) : s \in Slots
  BY <1>3, TableTypes
<1>5. QED
  BY <1>1, <1>2, <1>3, <1>4, TableTypes DEF PollTrue

\* Menu steps that change nothing in the slots that count.
LEMMA MenuStepTrue ==
    ASSUME Typed, TInv, ~overrun, UNCHANGED <<hubVars, parts, buffer, patchy, serial>>,
           spoiled' = (spoiled \/ serial # Polling), numUTXOs' = numUTXOs,
           ~spoiled' => /\ \A s \in 0 .. (numUTXOs - 1) :
                             ids'[s] = ids[s] /\ amounts'[s] = amounts[s]
                        /\ MenuTrue'
    PROVE  TInv'
<1> SUFFICES ASSUME ~spoiled' PROVE TableTrue'
  BY TableStep DEF TableTrue
<1>1. /\ serial' = Polling /\ numUTXOs <= MaxNumUtxos
      /\ \A s \in 0 .. (numUTXOs - 1) : ids[s] \in Utxos /\ amounts[s] = Amount[ids[s]]
      /\ \A s, t \in 0 .. (numUTXOs - 1) : ids[s] = ids[t] => s = t
  BY MenuAlone
<1>2. PollTrue'
  BY <1>1 DEF PollTrue
<1>3. QED
  BY <1>1, <1>2 DEF TableTrue, SerialTrue

LEMMA ClearTrue ==
    ASSUME Typed, TInv, ~overrun, ClearUTXOs
    PROVE  TInv'
<1>1. /\ menu = Idle /\ numUTXOs' = 0 /\ spoiled' = (spoiled \/ serial # Polling)
      /\ UNCHANGED <<hubVars, parts, buffer, patchy, ids, amounts, serial, menu>>
  BY DEF ClearUTXOs, Touch
<1> SUFFICES ASSUME ~spoiled' PROVE TableTrue'
  BY <1>1, TableStep DEF TableTrue
<1>2. serial' = Polling
  BY <1>1
<1>3. menu'.pc = "idle"
  BY <1>1, TableTypes
<1>4. PollTrue'
  <2>1. 0 <= MaxNumUtxos /\ \A s \in 0 .. (0 - 1) : FALSE
    BY TableTypes
  <2>2. QED
    BY <1>1, <2>1 DEF PollTrue
<1>5. QED
  BY <1>2, <1>3, <1>4 DEF TableTrue, SerialTrue, MenuTrue

LEMMA AddTrue ==
    ASSUME Typed, TInv, ~overrun, manuallyAddUTXO
    PROVE  TInv'
<1>1. PICK u \in Utxos :
        /\ menu' = [pc |-> "type id", id |-> u, slot |-> numUTXOs]
        /\ spoiled' = (\/ spoiled \/ serial # Polling
                       \/ \E s \in Slots : s < numUTXOs /\ ids[s] = u)
        /\ UNCHANGED <<hubVars, parts, buffer, patchy, numUTXOs, ids, amounts, serial>>
  BY DEF manuallyAddUTXO, tableVars
<1> SUFFICES ASSUME ~spoiled' PROVE TableTrue'
  BY <1>1, TableStep DEF TableTrue
<1>2. ~spoiled /\ serial = Polling /\ serial' = Polling
  BY <1>1
<1>3. PollTrue
  BY <1>2 DEF TInv, TableTrue
<1>4. \A s \in 0 .. (numUTXOs - 1) : s \in Slots /\ s < numUTXOs
  BY <1>2, <1>3, TableTypes DEF PollTrue
<1>5. \A s \in 0 .. (numUTXOs' - 1) : ids'[s] # menu'.id
  BY <1>1, <1>4
<1>6. menu'.pc = "type id" /\ menu'.slot = numUTXOs'
  BY <1>1
<1>7. MenuTrue'
  BY <1>5, <1>6 DEF MenuTrue
<1>8. QED
  BY <1>1, <1>2, <1>3, <1>7 DEF TableTrue, SerialTrue, PollTrue

LEMMA TypeIdTrue ==
    ASSUME Typed, TInv, ~overrun, TypeId
    PROVE  TInv'
<1>1. /\ menu.pc = "type id" /\ spoiled' = (spoiled \/ serial # Polling)
      /\ UNCHANGED <<hubVars, parts, buffer, patchy, numUTXOs, amounts, serial>>
  BY DEF TypeId, Touch
<1>2. CASE menu.slot >= MaxNumUtxos
  <2>1. overrun' = TRUE
    BY <1>2 DEF TypeId
  <2>2. QED
    BY <1>1, <2>1, TableStep
<1>3. CASE ~(menu.slot >= MaxNumUtxos)
  <2>1. /\ ids' = [ids EXCEPT ![menu.slot] = menu.id]
        /\ menu' = [menu EXCEPT !.pc = "type amount"] \/ menu' = Idle
    BY <1>3 DEF TypeId
  <2>2. menu \in [pc : {"type id", "type amount"}, id : Utxos, slot : Nat]
    BY <1>1, TypesOfMenu DEF MenuShape
  <2>3. ASSUME ~spoiled'
        PROVE  /\ \A s \in 0 .. (numUTXOs - 1) : ids'[s] = ids[s] /\ amounts'[s] = amounts[s]
               /\ MenuTrue'
    <3>1. /\ menu.slot = numUTXOs /\ \A s \in 0 .. (numUTXOs - 1) : ids[s] # menu.id
          /\ \A s \in 0 .. (numUTXOs - 1) : s \in Slots
      BY <1>1, <2>3, MenuAlone DEF MenuTrue
    <3>2. menu.slot \in Slots /\ ids'[menu.slot] = menu.id
      <4>1. menu.slot \in Nat
        BY <2>2
      <4>2. menu.slot \in Slots
        BY <1>3, <4>1, Constants DEF Slots
      <4>3. QED
        BY <2>1, <4>2, TableTypes
    <3>3. \A s \in 0 .. (numUTXOs - 1) : s # menu.slot
      BY <3>1, TableTypes
    <3>4. \A s \in 0 .. (numUTXOs - 1) : ids'[s] = ids[s] /\ amounts'[s] = amounts[s]
      BY <1>1, <2>1, <3>1, <3>3, TableTypes
    <3>5. MenuTrue'
      <4>1. CASE menu' = Idle
        <5>1. menu'.pc = "idle"
          BY <4>1, TableTypes
        <5>2. QED
          BY <5>1 DEF MenuTrue
      <4>2. CASE menu' = [menu EXCEPT !.pc = "type amount"]
        <5>1. menu'.pc = "type amount" /\ menu'.slot = menu.slot /\ menu'.id = menu.id
          BY <2>2, <4>2
        <5>2. QED
          BY <1>1, <3>1, <3>2, <3>4, <5>1 DEF MenuTrue
      <4>3. QED
        BY <2>1, <4>1, <4>2
    <3>6. QED
      BY <3>4, <3>5
  <2>4. QED
    BY <1>1, <2>3, MenuStepTrue
<1>4. QED
  BY <1>2, <1>3

LEMMA TypeAmountTrue ==
    ASSUME Typed, TInv, ~overrun, TypeAmount
    PROVE  TInv'
<1>1. /\ menu.pc = "type amount" /\ spoiled' = (spoiled \/ serial # Polling)
      /\ UNCHANGED <<hubVars, parts, buffer, patchy, ids, serial>>
  BY DEF TypeAmount, Touch
<1> SUFFICES ASSUME ~overrun', ~spoiled' PROVE TableTrue'
  BY <1>1, TableStep DEF TableTrue
<1> DEFINE n == numUTXOs
<1>2. /\ ~(n >= MaxNumUtxos)
      /\ amounts' = [amounts EXCEPT ![n] = Amount[menu.id]]
      /\ numUTXOs' = n + 1 /\ menu' = Idle
  BY DEF TypeAmount
<1>3. /\ serial' = Polling /\ n \in Nat /\ n <= MaxNumUtxos
      /\ menu.slot = n /\ \A s \in 0 .. (n - 1) : ids[s] # menu.id
      /\ (menu.slot < MaxNumUtxos => ids[menu.slot] = menu.id)
      /\ \A s \in 0 .. (n - 1) : s \in Slots
      /\ \A s \in 0 .. (n - 1) : ids[s] \in Utxos /\ amounts[s] = Amount[ids[s]]
      /\ \A s, t \in 0 .. (n - 1) : ids[s] = ids[t] => s = t
  BY <1>1, MenuAlone DEF MenuTrue
<1>4. menu.id \in Utxos
  <2>1. menu \in [pc : {"type id", "type amount"}, id : Utxos, slot : Nat]
    BY <1>1, TypesOfMenu DEF MenuShape
  <2>2. QED
    BY <2>1
<1> HIDE DEF n
<1>5. n < MaxNumUtxos /\ n \in Slots /\ n + 1 <= MaxNumUtxos /\ MaxNumUtxos \in Nat
  BY <1>2, <1>3, TableTypes
<1>6. ids[n] = menu.id /\ amounts'[n] = Amount[menu.id]
  BY <1>2, <1>3, <1>5, TableTypes
<1>7. \A s \in 0 .. (n - 1) : amounts'[s] = amounts[s]
  <2>1. \A s \in 0 .. (n - 1) : s # n
    BY <1>3
  <2>2. QED
    BY <1>2, <1>3, <2>1, TableTypes
<1>8. \A s \in 0 .. (n + 1 - 1) : s \in 0 .. (n - 1) \/ s = n
  BY <1>3
<1>9. \A s \in 0 .. (n + 1 - 1) : ids'[s] \in Utxos /\ amounts'[s] = Amount[ids'[s]]
  BY <1>1, <1>3, <1>4, <1>6, <1>7, <1>8
<1>10. ASSUME NEW s \in 0 .. (n + 1 - 1), NEW t \in 0 .. (n + 1 - 1), ids'[s] = ids'[t]
       PROVE  s = t
  <2>1. ids' = ids /\ ids[n] = menu.id /\ \A r \in 0 .. (n - 1) : ids[r] # menu.id
    BY <1>1, <1>3, <1>6
  <2>2. (s \in 0 .. (n - 1) \/ s = n) /\ (t \in 0 .. (n - 1) \/ t = n)
    BY <1>8
  <2>3. QED
    BY <1>3, <1>10, <2>1, <2>2
<1>11. PollTrue'
  <2>1. numUTXOs' = n + 1 /\ numUTXOs' <= MaxNumUtxos
    BY <1>2, <1>5
  <2>2. 0 .. (numUTXOs' - 1) = 0 .. (n + 1 - 1)
    BY <1>3, <2>1
  <2>3. \A s \in 0 .. (numUTXOs' - 1) : ids'[s] \in Utxos /\ amounts'[s] = Amount[ids'[s]]
    BY <1>9, <2>2
  <2>4. \A s, t \in 0 .. (numUTXOs' - 1) : ids'[s] = ids'[t] => s = t
    BY <1>10, <2>2
  <2>5. QED
    BY <2>1, <2>3, <2>4 DEF PollTrue
<1>12. menu'.pc = "idle"
  BY <1>2, TableTypes
<1>13. QED
  BY <1>3, <1>11, <1>12 DEF TableTrue, SerialTrue, MenuTrue

LEMMA CreateTrue ==
    ASSUME Typed, TInv, ~overrun, createTransaction
    PROVE  TInv'
<1>1. PICK d \in Wanted :
        /\ menu' = [pc |-> "take id", desired |-> d, inputs |-> <<>>]
        /\ spoiled' = (spoiled \/ serial # Polling)
        /\ UNCHANGED <<hubVars, parts, buffer, patchy, numUTXOs, ids, amounts, serial>>
  BY DEF createTransaction, Touch, tableVars
<1>2. menu'.pc = "take id" /\ menu'.inputs = <<>> /\ Len(menu'.inputs) = 0
  BY <1>1
<1>3. MenuTrue'
  <2>1. 0 <= numUTXOs' /\ \A i \in 1 .. 0 : FALSE
    <3>1. numUTXOs' \in Nat
      BY <1>1, TableTypes
    <3>2. QED
      BY <3>1
  <2>2. \A i \in 1 .. Len(menu'.inputs) : menu'.inputs[i] = Slot(i - 1)'
    BY <1>2, <2>1
  <2>3. QED
    BY <1>2, <2>1, <2>2 DEF MenuTrue
<1>4. QED
  BY <1>1, <1>3, MenuStepTrue

LEMMA TakeIdTrue ==
    ASSUME Typed, TInv, ~overrun, TakeId
    PROVE  TInv'
<1>1. /\ menu.pc = "take id" /\ spoiled' = (spoiled \/ serial # Polling)
      /\ UNCHANGED <<hubVars, parts, buffer, patchy, numUTXOs, ids, amounts, serial>>
  BY DEF TakeId, Touch, tableVars
<1>2. menu \in [pc : {"take id"}, desired : Nat, inputs : Seq(Input)]
  BY <1>1, TypesOfMenu DEF MenuShape
<1>3. ASSUME ~spoiled' PROVE MenuTrue'
  <2> DEFINE k == Len(menu.inputs)
  <2>1. /\ k <= numUTXOs /\ \A i \in 1 .. k : menu.inputs[i] = Slot(i - 1)
        /\ numUTXOs <= MaxNumUtxos
    BY <1>1, <1>3, MenuAlone DEF MenuTrue
  <2>2. CASE k >= numUTXOs
    <3>1. menu' = Idle
      BY <2>2 DEF TakeId
    <3>2. menu'.pc = "idle"
      BY <3>1, TableTypes
    <3>3. QED
      BY <3>2 DEF MenuTrue
  <2>3. CASE ~(k >= numUTXOs)
    <3>1. menu' = [pc |-> "take amount", desired |-> menu.desired,
                   inputs |-> menu.inputs, id |-> TableIds(k)]
      BY <2>3 DEF TakeId
    <3>2. k \in Nat /\ k < numUTXOs /\ k < MaxNumUtxos
      <4>1. menu.inputs \in Seq(Input)
        BY <1>2
      <4>2. k \in Nat /\ numUTXOs \in Nat /\ MaxNumUtxos \in Nat
        BY <4>1, LenProperties, TableTypes
      <4> HIDE DEF k
      <4>3. QED
        BY <2>1, <2>3, <4>2
    <3>3. TableIds(k) = ids[k]
      BY <3>2 DEF TableIds
    <3>4. menu'.pc = "take amount" /\ menu'.inputs = menu.inputs /\ menu'.id = ids[k]
      BY <3>1, <3>3
    <3>5. QED
      BY <1>1, <2>1, <3>2, <3>4 DEF MenuTrue, Slot
  <2>4. QED
    BY <2>2, <2>3
<1>4. QED
  BY <1>1, <1>3, MenuStepTrue

\* The inputs with the one taken now are the first slots of the table.
LEMMA TakenAreSlots ==
    ASSUME Typed, TInv, ~overrun, TakeAmount, ~spoiled'
    PROVE  \E inputs \in Seq(Input) :
             /\ Len(inputs) <= numUTXOs
             /\ \A i \in 1 .. Len(inputs) : inputs[i] = Slot(i - 1)
             /\ \/ made' = inputs /\ menu' = Idle
                \/ /\ menu' = [pc |-> "take id", desired |-> menu.desired,
                               inputs |-> inputs]
                   /\ UNCHANGED made
<1> DEFINE k == Len(menu.inputs)
<1>1. menu.pc = "take amount" /\ spoiled' = (spoiled \/ serial # Polling)
  BY DEF TakeAmount, Touch
<1>2. PICK a \in TableAmounts(k) :
        LET inputs == Append(menu.inputs, [id |-> menu.id, amount |-> a])
        IN  IF Total(inputs) >= menu.desired
            THEN made' = inputs /\ menu' = Idle
            ELSE /\ menu' = [pc |-> "take id", desired |-> menu.desired,
                             inputs |-> inputs]
                 /\ UNCHANGED made
  BY DEF TakeAmount
<1>3. menu \in [pc : {"take amount"}, desired : Nat, inputs : Seq(Input), id : Ids]
  BY <1>1, TypesOfMenu DEF MenuShape
<1>4. /\ k < numUTXOs /\ \A i \in 1 .. k : menu.inputs[i] = Slot(i - 1)
      /\ menu.id = ids[k] /\ numUTXOs <= MaxNumUtxos /\ numUTXOs \in Nat
  BY <1>1, MenuAlone DEF MenuTrue
<1>5. k \in Nat /\ k < MaxNumUtxos /\ k \in Slots
  <2>1. menu.inputs \in Seq(Input)
    BY <1>3
  <2>2. k \in Nat /\ MaxNumUtxos \in Nat /\ Slots = 0 .. (MaxNumUtxos - 1)
    BY <2>1, LenProperties, TableTypes
  <2>3. k < numUTXOs /\ numUTXOs <= MaxNumUtxos /\ numUTXOs \in Nat
    BY <1>4
  <2> HIDE DEF k
  <2>4. QED
    BY <2>2, <2>3
<1>6. a = amounts[k]
  BY <1>2, <1>5 DEF TableAmounts
<1> DEFINE inputs == Append(menu.inputs, [id |-> menu.id, amount |-> a])
<1>7. [id |-> menu.id, amount |-> a] \in Input
  BY <1>3, <1>5, <1>6, TableTypes DEF Input
<1>8. /\ inputs \in Seq(Input) /\ Len(inputs) = k + 1
      /\ \A i \in 1 .. k : inputs[i] = menu.inputs[i]
      /\ inputs[k + 1] = [id |-> menu.id, amount |-> a]
  <2>1. menu.inputs \in Seq(Input)
    BY <1>3
  <2>2. QED
    BY <1>7, <2>1, AppendProperties
<1>9. \/ made' = inputs /\ menu' = Idle
      \/ menu' = [pc |-> "take id", desired |-> menu.desired, inputs |-> inputs]
         /\ UNCHANGED made
  BY <1>2
<1> HIDE DEF inputs, k
<1>10. k + 1 <= numUTXOs
  BY <1>4, <1>5
<1>11. inputs[k + 1] = Slot(k)
  BY <1>4, <1>6, <1>8 DEF Slot
<1>12. ASSUME NEW i \in 1 .. Len(inputs)
       PROVE  inputs[i] = Slot(i - 1)
  <2>1. i \in 1 .. k \/ (i = k + 1 /\ i - 1 = k)
    BY <1>5, <1>8
  <2>2. QED
    BY <1>4, <1>8, <1>11, <2>1
<1>13. QED
  BY <1>8, <1>9, <1>10, <1>12

LEMMA TakeAmountTrue ==
    ASSUME Typed, TInv, ~overrun, TakeAmount
    PROVE  TInv'
<1>1. /\ spoiled' = (spoiled \/ serial # Polling)
      /\ UNCHANGED <<hubVars, parts, buffer, patchy, numUTXOs, ids, amounts, serial>>
  BY DEF TakeAmount, Touch, tableVars
<1>2. ASSUME ~spoiled' PROVE MenuTrue'
  <2>1. PICK inputs \in Seq(Input) :
          /\ Len(inputs) <= numUTXOs
          /\ \A i \in 1 .. Len(inputs) : inputs[i] = Slot(i - 1)
          /\ \/ menu' = Idle
             \/ menu' = [pc |-> "take id", desired |-> menu.desired, inputs |-> inputs]
    BY <1>2, TakenAreSlots
  <2>2. CASE menu' = Idle
    <3>1. menu'.pc = "idle"
      BY <2>2, TableTypes
    <3>2. QED
      BY <3>1 DEF MenuTrue
  <2>3. CASE menu' = [pc |-> "take id", desired |-> menu.desired, inputs |-> inputs]
    <3>1. menu'.pc = "take id" /\ menu'.inputs = inputs
      BY <2>3
    <3>2. QED
      BY <1>1, <2>1, <3>1 DEF MenuTrue, Slot
  <2>4. QED
    BY <2>1, <2>2, <2>3
<1>3. QED
  BY <1>1, <1>2, MenuStepTrue

-----------------------------------------------------------------------------
(* The transactions.                                                       *)

LEMMA TInit == UtxoInit => TInv
<1> SUFFICES ASSUME UtxoInit PROVE TInv
  OBVIOUS
<1>1. /\ owned \in FirstOwned /\ reading = NoReading /\ parts = <<>> /\ buffer = <<>>
      /\ numUTXOs = 0 /\ serial = Polling /\ menu = Idle
  BY DEF UtxoInit
<1>2. owned \in Distinct
  BY <1>1, OwnedAssumption DEF Distinct
<1>3. Len(parts) = 0 /\ \A j \in 1 .. 0 : FALSE
  BY <1>1
<1>4. RunsComplete
  BY <1>3 DEF RunsComplete
<1>5. ListingsTrue /\ BufferTrue
  BY <1>1, <1>2, <1>4 DEF ListingsTrue, ReadingTrue, BufferTrue
<1>6. PollTrue
  <2>1. 0 <= MaxNumUtxos /\ \A s \in 0 .. (0 - 1) : FALSE
    BY Constants
  <2>2. QED
    BY <1>1, <2>1 DEF PollTrue
<1>7. menu.pc = "idle"
  BY <1>1 DEF Idle
<1>8. QED
  BY <1>1, <1>5, <1>6, <1>7 DEF TInv, TableTrue, SerialTrue, MenuTrue

LEMMA TStep == UInv /\ TInv /\ [UtxoNext]_utxoVars => TInv'
<1> SUFFICES ASSUME UInv, TInv, [UtxoNext]_utxoVars PROVE TInv'
  OBVIOUS
<1>1. Typed /\ ListingsTrue
  BY DEF UInv, TInv
<1>2. ASSUME UNCHANGED walletVars, ListingsTrue' PROVE TInv'
  <2>1. UNCHANGED <<parts, buffer, patchy, numUTXOs, ids, amounts, serial, menu, spoiled,
                    overrun>>
    BY <1>2 DEF walletVars, tableVars
  <2>2. BufferTrue => BufferTrue'
    BY <2>1 DEF BufferTrue, Begun, Pieces, Piece, Rest, ListingOf
  <2>3. TableTrue => TableTrue'
    BY <2>1 DEF TableTrue, SerialTrue, PollTrue, MenuTrue, Written, Slot, ListingOf
  <2>4. QED
    BY <1>2, <2>1, <2>2, <2>3 DEF TInv
<1>3. ASSUME UNCHANGED <<owned, reading, walletVars>> PROVE TInv'
  <2>1. ListingsTrue'
    BY <1>1, <1>3, ListingsKept DEF walletVars
  <2>2. QED
    BY <1>2, <1>3, <2>1
<1>4. CASE UNCHANGED utxoVars
  BY <1>3, <1>4 DEF utxoVars, hubVars
<1>5. CASE ~overrun /\ (OwnedChanges \/ ServiceUTXORequest \/ GetAllUTXOs)
  <2>1. ListingsTrue' /\ UNCHANGED walletVars
    BY <1>1, <1>5, HubTrue DEF OwnedChanges, ServiceUTXORequest, GetAllUTXOs
  <2>2. QED
    BY <1>2, <2>1
<1>6. CASE ~overrun /\ SendMultipartPacket
  <2>1. ListingsTrue' /\ (~overrun' => BufferTrue')
    BY <1>1, <1>6, SendTrue DEF TInv
  <2>2. UNCHANGED <<numUTXOs, ids, amounts, serial, menu, spoiled, overrun>>
    BY <1>6 DEF SendMultipartPacket, tableVars
  <2>3. TableTrue'
    BY <1>6, <2>2
    DEF TInv, TableTrue, SerialTrue, PollTrue, MenuTrue, Written, Slot, ListingOf
  <2>4. QED
    BY <2>1, <2>3 DEF TInv
<1>7. CASE ~overrun /\ LosePart
  <2>1. ListingsTrue' /\ BufferTrue'
    BY <1>1, <1>7, LoseTrue
  <2>2. UNCHANGED <<numUTXOs, ids, amounts, serial, menu, spoiled, overrun>>
    BY <1>7 DEF LosePart, tableVars
  <2>3. TableTrue'
    BY <1>7, <2>2
    DEF TInv, TableTrue, SerialTrue, PollTrue, MenuTrue, Written, Slot, ListingOf
  <2>4. QED
    BY <2>1, <2>3 DEF TInv
<1>8. CASE ~overrun /\ (ReceivePart \/ DeserializeId \/ DeserializeAmount)
  BY <1>1, <1>8, ReceiveTrue, IdTrue, AmountTrue
<1>9. CASE ~overrun /\ RequestUTXOs
  BY <1>3, <1>9 DEF RequestUTXOs
<1>10. CASE ~overrun /\ (ClearUTXOs \/ manuallyAddUTXO \/ TypeId \/ TypeAmount)
  BY <1>1, <1>10, ClearTrue, AddTrue, TypeIdTrue, TypeAmountTrue
<1>11. CASE ~overrun /\ (createTransaction \/ TakeId \/ TakeAmount)
  BY <1>1, <1>11, CreateTrue, TakeIdTrue, TakeAmountTrue
<1>12. QED
  BY <1>4, <1>5, <1>6, <1>7, <1>8, <1>9, <1>10, <1>11
  DEF UtxoNext, HubStep, SerialStep, MenuStep

\* A transaction is made by createTransaction and TakeAmount only.
LEMMA MadeBy ==
    ASSUME UtxoNext, made' # made
    PROVE  ~overrun /\ (createTransaction \/ TakeAmount)
  BY DEF UtxoNext, HubStep, SerialStep, MenuStep, OwnedChanges, ServiceUTXORequest,
         GetAllUTXOs, SendMultipartPacket, LosePart, ReceivePart, DeserializeId,
         DeserializeAmount, RequestUTXOs, ClearUTXOs, manuallyAddUTXO, TypeId, TypeAmount,
         TakeId, walletVars

\* createTransaction (serdog.c:822) counts and spends what exists, each output
\* once and at its amount, although a listing travels in parts through two
\* programs, is written into the table slot by slot by one thread and read slot
\* by slot by another: it takes a lost part, outputs that change while they are
\* read, the two threads at the table at once, or an output typed in twice.
THEOREM TransactionsAreSound == UtxoSpec => TransactionIsSound
<1>1. ASSUME UInv, TInv, [UtxoNext]_utxoVars, made' # made, ~spoiled'
      PROVE  /\ \A i \in DOMAIN made' : /\ made'[i].id \in Utxos
                                        /\ made'[i].amount = Amount[made'[i].id]
             /\ \A i, j \in DOMAIN made' : made'[i].id = made'[j].id => i = j
  <2>1. UtxoNext
    BY <1>1 DEF utxoVars, walletVars
  <2>2. Typed /\ ~overrun /\ (createTransaction \/ TakeAmount)
    BY <1>1, <2>1, MadeBy DEF UInv
  <2>3. CASE createTransaction
    <3>1. made' = <<>>
      BY <2>3 DEF createTransaction
    <3>2. DOMAIN made' = {}
      BY <3>1
    <3>3. QED
      BY <3>2
  <2>4. CASE TakeAmount
    <3>1. PICK inputs \in Seq(Input) :
            /\ Len(inputs) <= numUTXOs
            /\ \A i \in 1 .. Len(inputs) : inputs[i] = Slot(i - 1)
            /\ made' = inputs
      BY <1>1, <2>2, <2>4, TakenAreSlots
    <3>2. DOMAIN made' = 1 .. Len(inputs) /\ Len(inputs) \in Nat
      BY <3>1, LenProperties
    <3>3. /\ numUTXOs \in Nat
          /\ \A s \in 0 .. (numUTXOs - 1) : ids[s] \in Utxos /\ amounts[s] = Amount[ids[s]]
          /\ \A s, t \in 0 .. (numUTXOs - 1) : ids[s] = ids[t] => s = t
      <4>1. spoiled' = (spoiled \/ serial # Polling)
        BY <2>4 DEF TakeAmount, Touch
      <4>2. QED
        BY <1>1, <2>2, <4>1, MenuAlone
    <3>4. ASSUME NEW i \in 1 .. Len(inputs)
          PROVE  /\ i - 1 \in 0 .. (numUTXOs - 1)
                 /\ made'[i].id = ids[i - 1] /\ made'[i].amount = amounts[i - 1]
      <4>1. i - 1 \in 0 .. (numUTXOs - 1)
        BY <3>1, <3>2, <3>3
      <4>2. made'[i] = [id |-> ids[i - 1], amount |-> amounts[i - 1]]
        BY <3>1 DEF Slot
      <4>3. QED
        BY <4>1, <4>2
    <3>5. ASSUME NEW i \in 1 .. Len(inputs), NEW j \in 1 .. Len(inputs),
                 made'[i].id = made'[j].id
          PROVE  i = j
      <4>1. i - 1 = j - 1
        BY <3>3, <3>4, <3>5
      <4>2. QED
        BY <3>2, <4>1
    <3>6. QED
      BY <3>2, <3>3, <3>4, <3>5
  <2>5. QED
    BY <2>2, <2>3, <2>4
<1>2. UInv /\ TInv /\ [UtxoNext]_utxoVars =>
        (made' # made /\ ~spoiled' =>
           /\ \A i \in DOMAIN made' : /\ made'[i].id \in Utxos
                                      /\ made'[i].amount = Amount[made'[i].id]
           /\ \A i, j \in DOMAIN made' : made'[i].id = made'[j].id => i = j)
  BY <1>1
<1>3. QED
  BY <1>2, TInit, TStep, UInit, UStep, PTL DEF UtxoSpec, TransactionIsSound
=============================================================================
