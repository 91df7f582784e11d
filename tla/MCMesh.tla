------------------------------- MODULE MCMesh -------------------------------
(* A line of three nodes, a gateway at its end: "a" reaches the gateway    *)
(* through "b" only.                                                       *)
EXTENDS Mesh

MCNodes == {"a", "b", "g"}
MCLinks == {<<"a", "b">>, <<"b", "a">>, <<"b", "g">>, <<"g", "b">>}

Request(origin, to, type, size) ==
    [origin |-> origin, to |-> to, type |-> type, size |-> size]

(* ShortLen is 2 and MaxLen 6: a transaction from the far end, which needs *)
(* a relay, an announcement broadcast in range of the gateway, and a       *)
(* transaction sent to the gateway itself.                                 *)
MCRequests ==
    {Request("a", Everyone, "transaction", 4),
     Request("b", Everyone, "announcement", 5),
     Request("b", "g", "transaction", 3)}
=============================================================================
