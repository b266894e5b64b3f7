------------------------------- MODULE MCRestore -------------------------------
EXTENDS ArchiveRestore

Sorted == <<"campaign", "bulk">>
TwoChunks == [f \in Files |-> IF f = "bulk" THEN 2 ELSE 1]
=============================================================================
