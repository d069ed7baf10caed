----------------------------- MODULE MCDirectRooms -----------------------------
EXTENDS DirectRooms, TLC

Symmetry == Permutations(Users) \union Permutations(Requests)
=============================================================================
