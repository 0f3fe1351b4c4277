---------------------------- MODULE MCKeydUpdate ----------------------------
EXTENDS KeydUpdate, MCKeys, TLC

\* Clients are interchangeable.
ClientSymmetry == Permutations(Client)
=============================================================================
