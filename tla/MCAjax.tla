-------------------------------- MODULE MCAjax --------------------------------
(* Three requests, of the application or of one PeriodicalUpdater. *)
EXTENDS Ajax
MCRequest == 1..3
===============================================================================
