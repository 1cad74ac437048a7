--------------------------- MODULE MCSharedImage ---------------------------
(* The model of SharedImage that TLC checks: the two threads that write    *)
(* images are alike.                                                       *)
EXTENDS SharedImage, TLC

WriterSymmetry == Permutations(Writers)
=============================================================================
