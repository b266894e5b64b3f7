------------------------------- MODULE MCMailbox -------------------------------
EXTENDS ContinuationMailbox

CONSTANTS first, second
=============================================================================
