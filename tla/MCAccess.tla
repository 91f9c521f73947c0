------------------------------ MODULE MCAccess ------------------------------
EXTENDS Access, TLC

MCGrants == Grant
AccessSymmetry == Permutations(Requests) \union Permutations(Keys) \union Permutations(Tokens)
=============================================================================
