----------------------------- MODULE Federation -----------------------------
(***************************************************************************)
(* How chat servers join a naming server and learn of each other's         *)
(* sessions: UpdateNSThread.scala on every chat server, LoadBalancer.scala *)
(* and the ServerChecker thread of NamingServer.scala on the naming        *)
(* server, OnlineServer.scala, the entry it keeps of a chat server, and    *)
(* PingBack.scala, the remote object a chat server answers through.        *)
(*                                                                         *)
(* Nothing in LoadBalancer is synchronized and RMI runs every call on a    *)
(* thread of its own, so the reads and the assignments of serverList are   *)
(* separate steps here.  call[s] is the call of server s the naming server *)
(* is executing; a chat server makes one call at a time.  The order of     *)
(* serverList, which decides the order of the pushes, is left open.        *)
(***************************************************************************)
EXTENDS Integers, FiniteSets

CONSTANTS
  Server,       \* addresses of chat servers
  Jid,          \* full jids of the sessions they export
  Copies,       \* OnlineServer objects of one address that are in use at once
  Consoles,     \* servers someone halts and restarts at the console
  Unstable,     \* servers whose process may be lost
  MaxChanges,   \* changes of the sessions of one chat server
  MaxRestarts,  \* restarts of one chat server
  MaxFailures,  \* times the naming server is lost and started anew
  None

ASSUME BoundsAssumption == 
  MaxChanges \in Nat /\ MaxRestarts \in Nat /\ MaxFailures \in Nat /\ Copies \in Nat
ASSUME NoneAssumption == None \notin Nat

VARIABLES
  pc,        \* where the UpdateNSThread of a server is, "down" with its process
  inc,       \* which process of the server it is
  lb,        \* UpdateNSThread.lb: the naming server its stub belongs to
  updating,  \* UpdateNSThread.updating
  sess,      \* what SessionManager.exportSessions returns
  remote,    \* SessionManager.remoteSessions
  ns,        \* which process of the naming server is running
  list,      \* LoadBalancer.serverList
  obj,       \* the fields of an OnlineServer
  call,      \* the call of a server that the naming server executes
  checker,   \* the ServerChecker thread
  exported,  \* history: the jids a server has ever reported
  changes    \* number of changes of the sessions of a server

chat   == <<pc, inc, lb, updating>>
naming == <<ns, list, obj>>
history == <<exported, changes>>
vars   == <<pc, inc, lb, updating, sess, remote, ns, list, obj, call, checker, exported, changes>>

-----------------------------------------------------------------------------
(* The remote object of a chat server: a stub names the process it was     *)
(* exported by, and a call through it fails once that process is gone.     *)

Process == [addr : Server, inc : 0..MaxRestarts]
Route   == [jid : Jid, to : Process]
Entry   == [addr : Server, copy : 1..Copies]
OnlineServer == [inc : 0..MaxRestarts, sessions : SUBSET Jid, late : BOOLEAN]
Joined(i) == [inc |-> i, sessions |-> {}, late |-> FALSE]

Stub(e) == [addr |-> e.addr, inc |-> obj[e].inc]
Answers(pb) == pc[pb.addr] # "down" /\ inc[pb.addr] = pb.inc

AtAddress(w) == {e \in list : e.addr = w}

\* Calls in progress: what is left of the method.
Idle      == [op |-> "none"]
Joining   == [op |-> "join"]
Prepends  == [op |-> "cons"]
Assigns(new, old)    == [op |-> "assign", new |-> new, old |-> old]
Reporting(sessions)  == [op |-> "keepAlive", sessions |-> sessions]
Pushes(todo)         == [op |-> "push", todo |-> todo]
Delivers(e, table, todo) == [op |-> "deliver", e |-> e, table |-> table, todo |-> todo]
Counts    == [op |-> "count"]
Reply(v)  == [op |-> "reply", value |-> v]

Executing(s, op) == call[s].op = op
Becomes(s, c) == call' = [call EXCEPT ![s] = c]

\* The objects the naming server still refers to; any other is garbage, and is
\* as good as new.
Referred ==
  list \cup checker.todo \cup checker.keep
    \cup UNION {IF c.op = "assign" THEN c.old \cup {c.new}
                ELSE IF c.op = "push" THEN c.todo
                ELSE IF c.op = "deliver" THEN c.todo \cup {c.e}
                ELSE {} : c \in {call[s] : s \in Server}}
Collect(objects) == [e \in Entry |-> IF e \in Referred' THEN objects[e] ELSE Joined(0)]

-----------------------------------------------------------------------------
(* UpdateNSThread.run.                                                     *)

\* The outer loop: a stub of the naming server, then join.
GetLoadBalancer(s) ==
  /\ pc[s] = "lookup"
  /\ pc' = [pc EXCEPT ![s] = "call"]
  /\ lb' = [lb EXCEPT ![s] = ns]
  /\ Becomes(s, Joining)
  /\ UNCHANGED <<inc, updating, sess, remote, naming, checker, history>>

\* The inner loop, after the sleep: keepAlive with the sessions of now.
KeepAlive(s) ==
  /\ pc[s] = "sleep" /\ updating[s]
  /\ lb[s] = ns
  /\ pc' = [pc EXCEPT ![s] = "call"]
  /\ Becomes(s, Reporting(sess[s]))
  /\ exported' = [exported EXCEPT ![s] = @ \cup sess[s]]
  /\ UNCHANGED <<inc, lb, updating, sess, remote, naming, checker, changes>>

\* Mutation: lb is not reset when a call fails.
CatchRemoteKeepsStub(s) ==
  /\ pc' = [pc EXCEPT ![s] = "lookup"]
  /\ UNCHANGED <<inc, lb, updating>>

CatchRemote(s) ==
  /\ pc' = [pc EXCEPT ![s] = "lookup"]
  /\ lb' = [lb EXCEPT ![s] = None]
  /\ UNCHANGED <<inc, updating>>

\* The naming server the stub belongs to is gone.
KeepAliveFails(s) ==
  /\ pc[s] = "sleep" /\ updating[s]
  /\ lb[s] # ns
  /\ CatchRemote(s)
  /\ UNCHANGED <<sess, remote, naming, call, checker, history>>

\* keepAlive and join return: a server that is not in the list joins again.
Returns(s) ==
  /\ pc[s] = "call" /\ Executing(s, "reply")
  /\ \/ /\ call[s].value = "known"
        /\ pc' = [pc EXCEPT ![s] = "sleep"] /\ Becomes(s, Idle)
        /\ UNCHANGED <<inc, lb, updating>>
     \/ /\ call[s].value = "unknown"
        /\ Becomes(s, Joining)
        /\ UNCHANGED chat
     \/ /\ call[s].value = "exception"
        /\ CatchRemote(s) /\ Becomes(s, Idle)
  /\ UNCHANGED <<sess, remote, naming, checker, history>>

\* The halt and restart commands of the server's console.
PauseOrResume(s) ==
  /\ s \in Consoles
  /\ pc[s] \in {"lookup", "sleep"}      \* keepAlive is called with the lock held
  /\ updating' = [updating EXCEPT ![s] = ~@]
  /\ UNCHANGED <<pc, inc, lb, sess, remote, naming, call, checker, history>>

-----------------------------------------------------------------------------
(* LoadBalancer.join: a test, a read of the list and an assignment.        *)

JoinCount(s) ==
  /\ Executing(s, "join")
  /\ Becomes(s, IF AtAddress(s) = {} THEN Prepends ELSE Reply("known"))
  /\ UNCHANGED <<chat, sess, remote, naming, checker, history>>

JoinReads(s) ==
  /\ Executing(s, "cons")
  /\ \E n \in 1..Copies :
       LET e == [addr |-> s, copy |-> n]
       IN /\ e \notin Referred /\ \A k \in 1..(n - 1) : [addr |-> s, copy |-> k] \in Referred
          /\ Becomes(s, Assigns(e, list))
          /\ obj' = [obj EXCEPT ![e] = Joined(inc[s])]
  /\ UNCHANGED <<chat, sess, remote, ns, list, checker, history>>

JoinAssigns(s) ==
  /\ Executing(s, "assign")
  /\ list' = call[s].old \cup {call[s].new}
  /\ Becomes(s, Reply("known"))
  /\ UNCHANGED checker /\ obj' = Collect(obj)
  /\ UNCHANGED <<chat, sess, remote, ns, history>>

-----------------------------------------------------------------------------
(* LoadBalancer.keepAlive: the entry is updated, and when its sessions     *)
(* changed every listed server is handed a new table, one after the other. *)

\* Mutation: without the filter on the address.
UpdateAliveAll(s) ==
  /\ Executing(s, "keepAlive")
  /\ LET now == call[s].sessions
     IN /\ obj' = [e \in Entry |->
                     IF e \in list THEN [obj[e] EXCEPT !.sessions = now, !.late = FALSE]
                     ELSE obj[e]]
        /\ \/ /\ \E e \in list : obj[e].sessions # now
              /\ Becomes(s, Pushes(list))
           \/ /\ list = {} \/ \E e \in list : obj[e].sessions = now
              /\ Becomes(s, Counts)
  /\ UNCHANGED <<chat, sess, remote, ns, list, checker, history>>

\* status is that of the last entry of the address.
UpdateAlive(s) ==
  /\ Executing(s, "keepAlive")
  /\ LET now == call[s].sessions
         mine == AtAddress(s)
     IN /\ obj' = [e \in Entry |->
                     IF e \in mine THEN [obj[e] EXCEPT !.sessions = now, !.late = FALSE]
                     ELSE obj[e]]
        /\ \/ /\ \E e \in mine : obj[e].sessions # now
              /\ Becomes(s, Pushes(list))
           \/ /\ mine = {} \/ \E e \in mine : obj[e].sessions = now
              /\ Becomes(s, Counts)
  /\ UNCHANGED <<chat, sess, remote, ns, list, checker, history>>

\* updateSessions: the sessions of every other entry; a jid two of them have
\* goes to one of the two.
Routes(e) == UNION {{[jid |-> j, to |-> Stub(f)] : j \in obj[f].sessions} : f \in list \ {e}}
IsTable(R) == \A r, q \in R : r.jid = q.jid => r = q

Push(s) ==
  /\ Executing(s, "push")
  /\ \E e \in call[s].todo : \E table \in SUBSET Routes(e) :
       /\ IsTable(table)
       /\ {r.jid : r \in table} = {r.jid : r \in Routes(e)}
       /\ Becomes(s, Delivers(e, table, call[s].todo \ {e}))
  /\ UNCHANGED <<chat, sess, remote, naming, checker, history>>

\* PingBack.updateSessions on the server the entry stands for.
UpdateSessions(s) ==
  /\ Executing(s, "deliver")
  /\ Answers(Stub(call[s].e))
  /\ remote' = [remote EXCEPT ![call[s].e.addr] = call[s].table]
  /\ Becomes(s, Pushes(call[s].todo))
  /\ UNCHANGED <<list, checker>> /\ obj' = Collect(obj)
  /\ UNCHANGED <<chat, sess, ns, history>>

\* Nothing catches the exception of a stub: it goes back to the caller, and
\* the servers that were still to be told are not.
PushFails(s) ==
  /\ Executing(s, "deliver")
  /\ ~Answers(Stub(call[s].e))
  /\ Becomes(s, Reply("exception"))
  /\ UNCHANGED <<list, checker>> /\ obj' = Collect(obj)
  /\ UNCHANGED <<chat, sess, remote, ns, history>>

PushEnds(s) ==
  /\ Executing(s, "push") /\ call[s].todo = {}
  /\ Becomes(s, Counts)
  /\ UNCHANGED <<chat, sess, remote, naming, checker, history>>

\* Mutation: keepAlive answers that all is well.
CountsAlways(s) ==
  /\ Executing(s, "count")
  /\ Becomes(s, Reply("known"))
  /\ UNCHANGED <<chat, sess, remote, naming, checker, history>>

CountsListed(s) ==
  /\ Executing(s, "count")
  /\ Becomes(s, Reply(IF AtAddress(s) # {} THEN "known" ELSE "unknown"))
  /\ UNCHANGED <<chat, sess, remote, naming, checker, history>>

\* The caller of a call that has been executed is no longer there.
ReplyLost(s) ==
  /\ pc[s] = "down" /\ Executing(s, "reply")
  /\ Becomes(s, Idle)
  /\ UNCHANGED <<chat, sess, remote, naming, checker, history>>

-----------------------------------------------------------------------------
(* ServerChecker: the list is filtered, a ping at a time, and assigned.    *)

CheckStarts ==
  /\ checker.op = "sleep"
  /\ checker' = [op |-> "check", todo |-> list, keep |-> {}]
  /\ UNCHANGED <<chat, sess, remote, naming, call, history>>

\* Mutation: the exception of a ping is not caught, and ends the thread.
CheckOnePingThrows ==
  /\ checker.op = "check"
  /\ \E e \in checker.todo :
       checker' = IF obj[e].late /\ ~Answers(Stub(e))
                  THEN [op |-> "dead", todo |-> {}, keep |-> {}]
                  ELSE [checker EXCEPT !.todo = @ \ {e}, !.keep = @ \cup {e}]
  /\ UNCHANGED <<chat, sess, remote, naming, call, history>>

CheckOne ==
  /\ checker.op = "check"
  /\ \E e \in checker.todo :
       checker' = IF obj[e].late /\ ~Answers(Stub(e))
                  THEN [checker EXCEPT !.todo = @ \ {e}]
                  ELSE [checker EXCEPT !.todo = @ \ {e}, !.keep = @ \cup {e}]
  /\ UNCHANGED <<list, call>> /\ obj' = Collect(obj)
  /\ UNCHANGED <<chat, sess, remote, ns, history>>

CheckAssigns ==
  /\ checker.op = "check" /\ checker.todo = {}
  /\ list' = checker.keep
  /\ checker' = [op |-> "sleep", todo |-> {}, keep |-> {}]
  /\ UNCHANGED call /\ obj' = Collect(obj)
  /\ UNCHANGED <<chat, sess, remote, ns, history>>

\* Two checking periods have passed since the entry was updated.  The checker
\* only removes what does not answer either, so that nothing depends on when
\* an entry that answers becomes late.
GrowsLate(e) ==
  /\ e \in list /\ ~obj[e].late /\ ~Answers(Stub(e))
  /\ obj' = [obj EXCEPT ![e].late = TRUE]
  /\ UNCHANGED <<chat, sess, remote, ns, list, call, checker, history>>

-----------------------------------------------------------------------------
(* The environment: sessions come and go, processes are lost.              *)

SessionsChange(s) ==
  /\ pc[s] # "down" /\ changes[s] < MaxChanges
  /\ changes' = [changes EXCEPT ![s] = @ + 1]
  /\ \E now \in SUBSET Jid : now # sess[s] /\ sess' = [sess EXCEPT ![s] = now]
  /\ UNCHANGED <<chat, remote, naming, call, checker, exported>>

\* A restart takes longer than the calls of the process that was lost.
Crash(s) ==
  /\ s \in Unstable /\ pc[s] # "down" /\ inc[s] < MaxRestarts
  /\ pc' = [pc EXCEPT ![s] = "down"]
  /\ lb' = [lb EXCEPT ![s] = None]
  /\ sess' = [sess EXCEPT ![s] = {}]
  /\ remote' = [remote EXCEPT ![s] = {}]
  /\ UNCHANGED <<inc, updating, naming, call, checker, history>>

Restart(s) ==
  /\ pc[s] = "down" /\ Executing(s, "none") /\ inc[s] < MaxRestarts
  /\ pc' = [pc EXCEPT ![s] = "lookup"]
  /\ inc' = [inc EXCEPT ![s] = @ + 1]
  /\ updating' = [updating EXCEPT ![s] = TRUE]
  /\ UNCHANGED <<lb, sess, remote, naming, call, checker, history>>

\* Another naming server takes over with an empty list.
NamingServerFails ==
  /\ ns < MaxFailures
  /\ ns' = ns + 1
  /\ list' = {}
  /\ call' = [s \in Server |-> IF Executing(s, "none") THEN Idle ELSE Reply("exception")]
  /\ checker' = [op |-> "sleep", todo |-> {}, keep |-> {}]
  /\ obj' = Collect(obj)
  /\ UNCHANGED <<chat, sess, remote, history>>

-----------------------------------------------------------------------------
Init ==
  /\ pc = [s \in Server |-> "lookup"]
  /\ inc = [s \in Server |-> 0]
  /\ lb = [s \in Server |-> None]
  /\ updating = [s \in Server |-> TRUE]
  /\ sess = [s \in Server |-> {}]
  /\ remote = [s \in Server |-> {}]
  /\ ns = 0
  /\ list = {}
  /\ obj = [e \in Entry |-> Joined(0)]
  /\ call = [s \in Server |-> Idle]
  /\ checker = [op |-> "sleep", todo |-> {}, keep |-> {}]
  /\ exported = [s \in Server |-> {}]
  /\ changes = [s \in Server |-> 0]

UpdateNSThread(s) ==
  GetLoadBalancer(s) \/ KeepAlive(s) \/ KeepAliveFails(s) \/ Returns(s)

LoadBalancer(s) ==
  \/ JoinCount(s) \/ JoinReads(s) \/ JoinAssigns(s)
  \/ UpdateAlive(s) \/ Push(s) \/ UpdateSessions(s) \/ PushFails(s) \/ PushEnds(s)
  \/ CountsListed(s) \/ ReplyLost(s)

ServerChecker == CheckStarts \/ CheckOne \/ CheckAssigns

Next ==
  \/ \E s \in Server :
       \/ UpdateNSThread(s) \/ LoadBalancer(s)
       \/ PauseOrResume(s) \/ SessionsChange(s) \/ Crash(s) \/ Restart(s)
  \/ \E e \in Entry : GrowsLate(e)
  \/ ServerChecker \/ NamingServerFails

Spec == Init /\ [][Next]_vars

\* Sleeps end, threads run, time passes.
Fairness ==
  /\ \A s \in Server : WF_vars(UpdateNSThread(s)) /\ WF_vars(LoadBalancer(s))
  /\ WF_vars(ServerChecker)
  /\ \A e \in Entry : WF_vars(GrowsLate(e))
FairSpec == Spec /\ Fairness

-----------------------------------------------------------------------------
(* Properties.                                                             *)

Call ==
       [op : {"none", "join", "cons", "count"}]
  \cup [op : {"assign"}, new : Entry, old : SUBSET Entry]
  \cup [op : {"keepAlive"}, sessions : SUBSET Jid]
  \cup [op : {"push"}, todo : SUBSET Entry]
  \cup [op : {"deliver"}, e : Entry, table : SUBSET Route, todo : SUBSET Entry]
  \cup [op : {"reply"}, value : {"known", "unknown", "exception"}]

\* Every variable has its type, and a server that sleeps or is in a call has a
\* stub while one that looks for a naming server has none.
TypeOK ==
  /\ pc \in [Server -> {"down", "lookup", "call", "sleep"}]
  /\ inc \in [Server -> 0..MaxRestarts]
  /\ lb \in [Server -> 0..MaxFailures \cup {None}]
  /\ updating \in [Server -> BOOLEAN]
  /\ sess \in [Server -> SUBSET Jid]
  /\ remote \in [Server -> SUBSET Route]
  /\ ns \in 0..MaxFailures
  /\ list \subseteq Entry
  /\ obj \in [Entry -> OnlineServer]
  /\ call \in [Server -> Call]
  /\ checker \in [op : {"sleep", "check"}, todo : SUBSET Entry, keep : SUBSET Entry]
  /\ exported \in [Server -> SUBSET Jid]
  /\ changes \in [Server -> 0..MaxChanges]
  /\ \A s \in Server : pc[s] \in {"down", "lookup"} <=> lb[s] = None

\* A table only routes a jid to a server that has reported it: whatever calls
\* overlap, no server is handed the sessions of one under the name of another.
RoutesExported ==
  \A s \in Server : \A r \in remote[s] : r.jid \in exported[r.to.addr]

\* A server is listed: some entry has its address.
Listed(s) == AtAddress(s) # {}

\* A server that stays up gets into the list of whichever naming server is
\* running, even if another thread's assignment of the list loses its entry.
ServerJoins ==
  \A s \in Server :
    pc[s] # "down" ~> (Listed(s) \/ pc[s] = "down" \/ ~updating[s])

\* A server that is gone leaves the list: "If there is no response from the
\* Server, it is considered dead, and removed" (XMPP_Server_Project_2.pdf, E).
CrashedPruned ==
  \A s \in Server : pc[s] = "down" ~> (~Listed(s) \/ pc[s] # "down")
=============================================================================
