------------------------------- MODULE MCArchive -------------------------------
EXTENDS ResultArchive

Growing == [v \in Versions |-> IF v = 1 THEN 1 ELSE 2]
Claims == <<"control", "results", "trials">>
=============================================================================
