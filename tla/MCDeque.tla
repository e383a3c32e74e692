------------------------------ MODULE MCDeque ------------------------------
EXTENDS Deque

CONSTANTS a, b

MCElem == {a, b}
MCModuli == 1 .. 4
=============================================================================
