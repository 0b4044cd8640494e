---------------------------- MODULE MCReadQueue ----------------------------
EXTENDS ReadQueue
=============================================================================
