------------------------------- MODULE MCHeap -------------------------------
EXTENDS Heap

MCElem == [pos : {<<0, 0>>, <<0, 1>>, <<1, 0>>, <<1, 1>>, <<2, 0>>, <<2, 1>>}]
=============================================================================
