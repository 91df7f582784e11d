-------------------------- MODULE MCAddressRegistry --------------------------
EXTENDS AddressRegistry, TLC

\* Wallets are interchangeable, and so are addresses.
Symmetry == Permutations(Wallets) \cup Permutations(Addresses)

=============================================================================
