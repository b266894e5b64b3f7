-------------------------------- MODULE MCLock --------------------------------
EXTENDS ControllerLock

CONSTANTS a, b, c
=============================================================================
