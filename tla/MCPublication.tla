---------------------------- MODULE MCPublication ----------------------------
EXTENDS ResultPublication
=============================================================================
