---------------------------- MODULE MCRingQueue ----------------------------
EXTENDS RingQueue
=============================================================================
