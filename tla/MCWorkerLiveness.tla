-------------------------- MODULE MCWorkerLiveness --------------------------
EXTENDS WorkerLiveness
=============================================================================
