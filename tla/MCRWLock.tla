------------------------------ MODULE MCRWLock ------------------------------
EXTENDS RWLock, TLC
=============================================================================
