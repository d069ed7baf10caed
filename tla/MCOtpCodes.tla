------------------------------ MODULE MCOtpCodes ------------------------------
EXTENDS OtpCodes, TLC

Symmetry == Permutations(Requests)
================================================================================
