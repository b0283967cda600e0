-------------------------- MODULE MCVersionedRows --------------------------
EXTENDS VersionedRowsProperties, TLC
Symmetry == Permutations(Clients) \cup Permutations(Vals)
=============================================================================
