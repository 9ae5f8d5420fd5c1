------------------------------ MODULE MCSettings ------------------------------
\* Small instances of Accounts and Settings for TLC.
EXTENDS Settings, TLC

Interchangeable == Permutations(Users) \cup Permutations(Requests) \cup Permutations(Saves)
=============================================================================
