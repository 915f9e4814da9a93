--------------------------- MODULE MCModelCalls ---------------------------
\* Two tasks of one lane over two instances of one slot each.
EXTENDS ModelCalls

CONSTANTS t1, t2, i1, i2

OneSlotEach == [i \in Instance |-> 1]
=============================================================================
