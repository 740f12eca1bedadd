------------------------------ MODULE MCAccess ------------------------------
EXTENDS Access

Interchangeable == Permutations(Keyholder) \cup Permutations(Submissive)
=============================================================================
