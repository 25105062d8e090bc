------------------------------- MODULE MCWebChat -------------------------------
(* Two requests under way at one time, one message and one subscription. *)
EXTENDS WebChat
MCSlot == 1..2
MCConn == 1..3
MCSess == 1..2
MCChan == 1..5

\* Which of the two slots a request has makes no difference: for runs that
\* check invariants only.
SlotView == <<pageVars, {req[r] : r \in Slot}, connVars, dog, countVars, written, pastVars>>
===============================================================================
