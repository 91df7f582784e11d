---------------------------- MODULE MCMultipart -----------------------------
(* A small instance of MultipartReassembly with two nodes: more keys than  *)
(* the two slots, and two messages of one key with different totals, so    *)
(* that they can meet in a session.                                        *)
EXTENDS MultipartReassembly

Msg(id, src, dataType, total) ==
    [id |-> id, src |-> src, dataType |-> dataType, total |-> total]

MCMessages ==
    {Msg(1, "a", 0, 3), Msg(2, "a", 0, 2), Msg(3, "a", 1, 2),
     Msg(4, "b", 0, 2)}
=============================================================================
