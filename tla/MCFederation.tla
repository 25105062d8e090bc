--------------------------- MODULE MCFederation ---------------------------
(* Instances of Federation.                                                *)
EXTENDS Federation, TLC

CONSTANTS s1, s2, j1

\* Sessions change and are reported while no entry is ever late: the list
\* loses nothing but what a failing naming server takes with it.
ReportNext ==
  \/ \E s \in Server :
       \/ UpdateNSThread(s) \/ LoadBalancer(s) \/ PauseOrResume(s)
       \/ SessionsChange(s) \/ Crash(s) \/ Restart(s)
  \/ NamingServerFails
ReportSpec == Init /\ [][ReportNext]_vars
FairReportSpec ==
  ReportSpec /\ \A s \in Server : WF_vars(UpdateNSThread(s)) /\ WF_vars(LoadBalancer(s))
============================================================================
