------------------------------ MODULE MCLivePipe ------------------------------
(* Any three of two modal windows of the page, a modal one that asks for   *)
(* its content, a modal lightbox, a lightbox that asks for its content,    *)
(* a modal image and a frame.                                              *)
EXTENDS LivePipe, TLC
Symmetry == Permutations(Modal \ (Light \cup Linked))
===============================================================================
