------------------------------- MODULE MCAdmin -------------------------------
(* Instances of Admin, small enough to check: a behaviour has the poll of   *)
(* the servers, or what the chat servers do alone, with more operations, or *)
(* that together with the requests for accounts, with fewer.  Names are     *)
(* alike and so are servers, so that one row at the start stands for either *)
(* and the first server stands for each.                                    *)
EXTENDS Admin

CONSTANT PageOps        \* bound: operations of a behaviour with both

VARIABLE watched

mcVars == <<vars, watched>>

Init ==
    /\ AdminInit /\ watched \in {"servers", "database", "accounts"}
    /\ rows[CHOOSE p \in Pair : TRUE] # <<>>
    /\ \A s \in Server \ {CHOOSE x \in Server : TRUE} :
          lb[s] /\ (users[s].there => \A r \in Server : users[r].there)
    /\ watched = "servers" => /\ \A n \in Name : pass[n] # NoPassword
                              /\ \A s \in Server : users[s] = Unread /\ lb[s]
                              /\ tab.link = "servers"
    /\ watched = "database" => online = {} /\ tab.link = "servers"
    /\ watched = "accounts" => online = {} /\ tab.link = "accounts" /\ (\A s \in Server : lb[s])
                              /\ \E s \in Server : users[s] = Unread

Poll ==
    \/ PollServers \/ OnlineChanges
    \/ \E t \in Tab : ClickTab(t)
    \/ \E i \in Slot : Serve(i) \/ Fails(i) \/ Answer(i) \/ Lose(i)

Accounting ==
    \/ OfServers
    \/ \E t \in Tab \ {"servers"} : ClickTab(t)
    \/ \E n \in Name, p \in Password, kind \in {"put", "post"} : Submit(kind, n, p)
    \/ \E n \in Name : Submit("delete", n, NoPassword)
    \/ \E i \in Slot : Serve(i) \/ Change(i) \/ Answer(i) \/ Lose(i)
    \/ \E i \in Slot : requests[i].kind # "servers" /\ Fails(i)

MCNext ==
    /\ UNCHANGED watched
    /\ \/ watched = "servers" /\ Poll
       \/ watched = "database" /\ OfServers
       \/ watched = "accounts" /\ Accounting /\ ops' <= PageOps

MCSpec ==
    /\ Init /\ [][MCNext]_mcVars
    /\ WF_mcVars(UNCHANGED watched /\ watched = "servers" /\ PollServers)
    /\ \A i \in Slot : WF_mcVars(UNCHANGED watched /\ Serve(i)) /\ WF_mcVars(UNCHANGED watched /\ Answer(i))
==============================================================================
