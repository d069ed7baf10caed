---------------------------- MODULE MCAuthSessions ----------------------------
EXTENDS AuthSessions, TLC

Symmetry == Permutations(Requests) \union Permutations(Secrets)
================================================================================
