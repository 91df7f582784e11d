---------------------------- MODULE MCTransactions ----------------------------
(* A small instance of both ways between a wallet and the hub.  They share *)
(* no state, so a behaviour goes one way: outputs to a wallet, or          *)
(* transactions to the hub.                                                *)
EXTENDS WalletUtxos, HubTransfers

VARIABLE way

mcvars == <<utxoVars, transferVars, way>>

MCAmount == [u \in Utxos |-> u]

\* Room for two outputs and three in the buffer and in the table: a listing
\* of three is too long.
MCFirstOwned == {<<1, 2>>}

\* Two wallets, and a transaction that ends before the part the hub may be
\* waiting for.
MCTransactionSet ==
    {[id |-> 1, wallet |-> "a", total |-> 3], [id |-> 2, wallet |-> "a", total |-> 2],
     [id |-> 3, wallet |-> "b", total |-> 3], [id |-> 4, wallet |-> "b", total |-> 1]}

MCInit == UtxoInit /\ TransferInit /\ way \in {"outputs", "transactions"}

MCOutputs == way = "outputs" /\ UtxoNext /\ UNCHANGED <<transferVars, way>>

MCTransfers == way = "transactions" /\ TransferNext /\ UNCHANGED <<utxoVars, way>>

MCSpec == MCInit /\ [][MCOutputs \/ MCTransfers]_mcvars
                 /\ WF_mcvars(way = "transactions" /\ Receive /\ UNCHANGED <<utxoVars, way>>)

=============================================================================
