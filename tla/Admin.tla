-------------------------------- MODULE Admin --------------------------------
(***************************************************************************)
(* The administration page: its tabs, its tables and its requests, over    *)
(* the database and the chat servers of Accounts.  A request is answered   *)
(* by AdminServlet in one step, or two for a deletion, and its answer may  *)
(* be late, overtaken or lost.                                             *)
(***************************************************************************)
EXTENDS Accounts, FiniteSets

CONSTANTS Slot,             \* bound: requests under way
          OnlineServer      \* what the naming server may list

VARIABLES
    requests,       \* the requests under way
    tab,            \* Control.Tabs: the active link, the links marked, the containers shown
    accounts,       \* the table of accounts
    servers,        \* the table of servers, and that of clients
    online,         \* the servers listed
    latest,         \* accounts is what the last request for it read
    behind          \* the accounts changed since then without this page

adminVars == <<requests, tab, accounts, servers, online, latest, behind>>

vars == <<accountsVars, adminVars>>

Tab == {"servers", "clients", "accounts"}

NoRequest == [kind |-> "none", name |-> "none", password |-> NoPassword,
              stage |-> "none", result |-> {}, overtaken |-> FALSE]

FreeSlots == {i \in Slot : requests[i].stage = "none"}

\* $get, $post, $put and $delete of system.js
Request(kind, n, p) ==
    [NoRequest EXCEPT !.kind = kind, !.name = n, !.password = p, !.stage = "sent"]

Get(kind) == Request(kind, "none", NoPassword)

\* A request of the page; which slot it takes makes no difference.
Send(r) ==
    /\ FreeSlots # {}
    /\ requests' = [requests EXCEPT ![CHOOSE i \in FreeSlots : TRUE] = r]

Names == {n \in Name : pass[n] # NoPassword}

\* dom:loaded: the tabs are made before their observer is there, so that a
\* page opened at #accounts shows that tab without asking for the accounts.
AdminInit ==
    /\ AccountsInit
    /\ \E first \in {"servers", "accounts"} :
          tab = [link |-> first, marked |-> {first}, shown |-> {first}]
    /\ requests = [i \in Slot |-> IF i = CHOOSE j \in Slot : TRUE THEN Get("servers") ELSE NoRequest]
    /\ accounts = {} /\ servers = {} /\ online \in SUBSET OnlineServer
    /\ latest = FALSE /\ behind = FALSE
------------------------------------------------------------------------------
\* setActiveTab
Activate(link) ==
    tab' = [link |-> link, marked |-> {link}, shown |-> (tab.shown \ {tab.link}) \cup {link}]

\* A tab is clicked, the active one too: beforeChange asks for the accounts.
ClickTab(link) ==
    /\ ops < MaxOps /\ ops' = ops + 1
    /\ Activate(link)
    /\ IF link = "accounts"
       THEN Send(Get("accounts"))
       ELSE UNCHANGED requests
    /\ UNCHANGED <<pass, rows, users, lb, task, intended, spoilt, differs,
                   accounts, servers, online, latest, behind>>

\* insert_user, change_pass and delete_user, sent by the page
Submit(kind, n, p) ==
    /\ ops < MaxOps /\ ops' = ops + 1
    /\ Send(Request(kind, n, p))
    /\ UNCHANGED <<pass, rows, users, lb, task, intended, spoilt, differs,
                   tab, accounts, servers, online, latest, behind>>

\* Mutation: the table is asked for until its first answer only.
PollServersOnce ==
    /\ servers = {} /\ Send(Get("servers"))
    /\ UNCHANGED <<accountsVars, tab, accounts, servers, online, latest, behind>>

\* new PeriodicalExecuter(get_servers, 5)
PollServers ==
    /\ Send(Get("servers"))
    /\ UNCHANGED <<accountsVars, tab, accounts, servers, online, latest, behind>>

Answered(i, result) == [requests EXCEPT ![i].stage = "answered", ![i].result = result]

\* view_get_servers and view_get_accounts
Serve(i) ==
    /\ requests[i].stage = "sent" /\ requests[i].kind \in {"servers", "accounts"}
    /\ IF requests[i].kind = "servers"
       THEN requests' = Answered(i, online) /\ UNCHANGED <<latest, behind>>
       ELSE /\ requests' = [j \in Slot |-> IF j = i THEN Answered(i, Names)[i]
                                           ELSE [requests[j] EXCEPT !.overtaken =
                                                    @ \/ (requests[j].kind = "accounts" /\ requests[j].stage = "answered")]]
            /\ latest' = FALSE /\ behind' = FALSE
    /\ UNCHANGED <<accountsVars, tab, accounts, servers, online>>

\* view_put_accounts, view_post_accounts and view_delete_accounts: an
\* exception of the call is swallowed, and the answer is "ok" all the same.
Change(i) ==
    LET r == requests[i]
    IN  /\ \/ r.stage = "sent" /\ r.kind = "put" /\ DbCreateUser(r.name, r.password)
              /\ requests' = Answered(i, {})
           \/ r.stage = "sent" /\ r.kind = "post" /\ DbUpdateUser(r.name, r.password)
              /\ requests' = Answered(i, {})
           \/ r.stage = "sent" /\ r.kind = "delete" /\ DbDeleteFriends(r.name)
              /\ requests' = [requests EXCEPT ![i].stage = "half"]
           \/ r.stage = "half" /\ DbDeleteUser(r.name) /\ requests' = Answered(i, {})
        /\ UNCHANGED <<tab, accounts, servers, online, latest, behind>>

\* A call of LoadBalancerBean that fails answers a server of its own
\* invention, no accounts, or nothing.
Fails(i) ==
    /\ ops < MaxOps /\ ops' = ops + 1
    /\ requests[i].stage \in {"sent", "half"}
    /\ requests' = Answered(i, IF requests[i].kind = "servers" THEN {"localhost"} ELSE {})
    /\ behind' = (behind \/ requests[i].kind = "accounts")
    /\ UNCHANGED <<pass, rows, users, lb, task, intended, spoilt, differs,
                   tab, accounts, servers, online, latest>>

Settled(i) == [requests EXCEPT ![i] = NoRequest]

\* Mutation: a delete does not ask for the table again.
AnswerAlone(i) ==
    /\ requests[i].stage = "answered"
    /\ requests' = IF requests[i].kind = "put" THEN [requests EXCEPT ![i] = Get("accounts")] ELSE Settled(i)
    /\ accounts' = IF requests[i].kind = "accounts" THEN requests[i].result ELSE accounts
    /\ latest' = IF requests[i].kind = "accounts" THEN ~requests[i].overtaken ELSE latest
    /\ servers' = IF requests[i].kind = "servers" THEN requests[i].result ELSE servers
    /\ UNCHANGED <<accountsVars, tab, online, behind>>

\* The callback: a table is filled again, or the accounts are asked for again.
Answer(i) ==
    /\ requests[i].stage = "answered"
    /\ requests' = IF requests[i].kind \in {"put", "delete"} THEN [requests EXCEPT ![i] = Get("accounts")]
                   ELSE Settled(i)
    /\ accounts' = IF requests[i].kind = "accounts" THEN requests[i].result ELSE accounts
    /\ latest' = IF requests[i].kind = "accounts" THEN ~requests[i].overtaken ELSE latest
    /\ servers' = IF requests[i].kind = "servers" THEN requests[i].result ELSE servers
    /\ UNCHANGED <<accountsVars, tab, online, behind>>

\* A request or an answer that is lost calls nothing: $get has no onFailure.
Lose(i) ==
    /\ ops < MaxOps /\ ops' = ops + 1
    /\ requests[i].stage \in {"sent", "answered"}
    /\ requests' = Settled(i)
    /\ behind' = (behind \/ requests[i].kind = "accounts"
                         \/ (requests[i].stage = "answered" /\ requests[i].kind \in {"put", "delete"}))
    /\ UNCHANGED <<pass, rows, users, lb, task, intended, spoilt, differs,
                   tab, accounts, servers, online, latest>>

\* Servers join and leave the list of the naming server.
OnlineChanges ==
    /\ ops < MaxOps /\ ops' = ops + 1
    /\ \E o \in SUBSET OnlineServer : online' = o
    /\ UNCHANGED <<pass, rows, users, lb, task, intended, spoilt, differs,
                   requests, tab, accounts, servers, latest, behind>>

OfServers ==
    /\ ServerStep
    /\ behind' = (behind \/ Names' # Names)
    /\ UNCHANGED <<requests, tab, accounts, servers, online, latest>>

Next ==
    \/ OfServers \/ PollServers \/ OnlineChanges
    \/ \E t \in Tab : ClickTab(t)
    \/ \E n \in Name, p \in Password, kind \in {"put", "post"} : Submit(kind, n, p)
    \/ \E n \in Name : Submit("delete", n, NoPassword)
    \/ \E i \in Slot : Serve(i) \/ Change(i) \/ Fails(i) \/ Answer(i) \/ Lose(i)

\* The servlet answers, the browser calls back, and the timer of the page
\* does not stop.
Fairness ==
    /\ WF_vars(PollServers)
    /\ \A i \in Slot : WF_vars(Serve(i)) /\ WF_vars(Change(i)) /\ WF_vars(Answer(i))

Spec == AdminInit /\ [][Next]_vars /\ Fairness
------------------------------------------------------------------------------
(* When the requests that concern them are settled the table shows the     *)
(* accounts of the database, after any overlap of deletions, insertions    *)
(* and visits to the tab. The exceptions are all that there are: an older  *)
(* answer came after the newest one, an account was made by a chat server  *)
(* since, an answer was lost, or the servlet could not ask. The tab that   *)
(* is shown is the one that is marked, and no other.                       *)
TableCurrent ==
    /\ (\A i \in Slot : requests[i].kind \notin {"accounts", "put", "delete"}) /\ latest /\ ~behind
          => accounts = Names
    /\ tab.shown = {tab.link} /\ tab.marked = tab.shown

(* The tables of servers and clients come to show the servers of the list, *)
(* when no more join or leave, whatever answers were lost or overtaken.    *)
ServersCatchUp == <>[](servers = online)
==============================================================================
