------------------------------ MODULE PartTable ------------------------------
(***************************************************************************)
(* What the reassembly of multipart packets promises, without the array it *)
(* is kept in: a table with one collection per key (sender and data type), *)
(* at most Capacity of them open.  A part goes to its own slot of its own  *)
(* key's collection and touches no other; a collection that has as many    *)
(* parts as the packet announces is handed over and closed; a collection   *)
(* may be given up at any time.                                            *)
(***************************************************************************)
EXTENDS Naturals, FiniteSets

CONSTANTS
    Messages,    \* what senders may send: records with src, dataType, total
    Capacity     \* how many collections may be open at once

VARIABLES
    table,       \* the open collection of each key, or Closed
    delivered    \* what was handed over so far

Key(m) == <<m.src, m.dataType>>
Keys == {Key(m) : m \in Messages}

Closed == [totalParts |-> 0, parts |-> <<>>]

Open == {k \in Keys : table[k] # Closed}

(* The collection of m's key, or a new one that expects m's parts.         *)
Collection(m) ==
    IF Key(m) \in Open THEN table[Key(m)]
    ELSE [totalParts |-> m.total, parts |-> <<>>]

(* The parts of collection c and part p of message m. *)
Plus(c, m, p) == [q \in DOMAIN c.parts \cup {p} |-> IF q = p THEN m ELSE c.parts[q]]

(* What is handed over: the parts that fall within the announced total.    *)
Body(parts, total) == [p \in DOMAIN parts \cap (1 .. total) |-> parts[p]]

Init ==
    /\ table = [k \in Keys |-> Closed]
    /\ delivered = {}

Add(m, p) ==
    /\ Key(m) \in Open \/ Cardinality(Open) < Capacity
    /\ p \notin DOMAIN Collection(m).parts
    /\ LET c == Collection(m)
           parts == Plus(c, m, p)
       IN  IF Cardinality(DOMAIN parts) = m.total
           THEN /\ delivered' = delivered \cup
                       {[key |-> Key(m), body |-> Body(parts, c.totalParts)]}
                /\ table' = [table EXCEPT ![Key(m)] = Closed]
           ELSE /\ table' = [table EXCEPT ![Key(m)] =
                                [totalParts |-> c.totalParts, parts |-> parts]]
                /\ UNCHANGED delivered

GiveUp(k) ==
    /\ k \in Open
    /\ table' = [table EXCEPT ![k] = Closed]
    /\ UNCHANGED delivered

Next ==
    \/ \E m \in Messages : \E p \in 1 .. m.total : Add(m, p)
    \/ \E k \in Keys : GiveUp(k)

Spec == Init /\ [][Next]_<<table, delivered>>
=============================================================================
