------------------------------- MODULE Exchange -------------------------------
(***************************************************************************)
(* What prototype.js does for the code that makes an Ajax.Request, however *)
(* the network behaves and whatever its callbacks throw.  Each callback of *)
(* a request is called at most once; Create, a result and Complete in this *)
(* order, none before the one it follows.  Loading has no place in that    *)
(* order: a timer calls it, 10 ms after the request was opened, and with   *)
(* an answer that was faster it is called after the result or Complete.    *)
(***************************************************************************)
EXTENDS Sequences

CONSTANT Request

VARIABLE calls      \* [Request -> Seq(Callback)], the callbacks so far

Callback == {"Create", "Loading", "Result", "Complete"}

Has(c, e) == \E i \in DOMAIN c : c[i] = e

\* Callback e may follow the callbacks c.
MayFollow(c, e) ==
    CASE e = "Create"     -> c = <<>>
      [] e = "Loading"    -> Has(c, "Create") /\ ~Has(c, "Loading")     \* at any time
      [] e = "Result"     -> Has(c, "Create") /\ ~Has(c, "Result") /\ ~Has(c, "Complete")
      [] e = "Complete"   -> Has(c, "Result") /\ ~Has(c, "Complete")

Init == calls = [r \in Request |-> <<>>]

Next == \E r \in Request, e \in Callback :
            /\ MayFollow(calls[r], e)
            /\ calls' = [calls EXCEPT ![r] = Append(@, e)]

Spec == Init /\ [][Next]_calls
===============================================================================
