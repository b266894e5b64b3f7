------------------------------- MODULE MCRunner -------------------------------
EXTENDS TrialRunner

CONSTANTS r
=============================================================================
