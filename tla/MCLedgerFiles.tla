------------------------------ MODULE MCLedgerFiles ------------------------------
EXTENDS LedgerFiles, TLC

\* Programs, directories and files are interchangeable.
Symmetry == Permutations(Processes) \cup Permutations(Dirs) \cup Permutations(Files)
=============================================================================
