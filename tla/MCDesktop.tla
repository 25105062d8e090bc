------------------------------ MODULE MCDesktop ------------------------------
(* A window of a chat, two dialogs that look alike, and a panel. *)
EXTENDS Desktop
Symmetry == Permutations(Dialogs)
===============================================================================
