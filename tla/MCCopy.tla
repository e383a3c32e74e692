------------------------------- MODULE MCCopy -------------------------------
EXTENDS CopyProps

MCNoWorkers == {}
=============================================================================
