------------------------ MODULE MCDisplayBufferQueue ------------------------
(* Three slots, the number the code uses, and enough frames for every slot *)
(* to be used again.  A mode change and a replaced frame fit in too.       *)
EXTENDS DisplayBufferQueue, TLC

CONSTANTS f1, f2, f3

MCFds == {f1, f2, f3}

\* Descriptor numbers are interchangeable.
Symmetry == Permutations(MCFds)
=============================================================================
