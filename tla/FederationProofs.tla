-------------------------- MODULE FederationProofs --------------------------
(***************************************************************************)
(* What Federation guarantees for any number of servers, jids, restarts    *)
(* and failures: the variables keep their types, and no table routes a jid *)
(* to a server that did not report it, whatever calls overlap.             *)
(*                                                                         *)
(* A route comes from the entries the naming server keeps, an entry from   *)
(* the argument of a keepAlive, and the argument from the sessions of the  *)
(* server; the invariant follows the jid along that way.                   *)
(***************************************************************************)
EXTENDS Federation, TLAPS

-----------------------------------------------------------------------------
(* The types of calls and objects.                                         *)

\* The arguments of a call, by its kind.
LEMMA CallFields ==
  ASSUME NEW c \in Call
  PROVE  /\ c.op = "assign" => c.new \in Entry /\ c.old \subseteq Entry
         /\ c.op = "keepAlive" => c.sessions \subseteq Jid
         /\ c.op = "push" => c.todo \subseteq Entry
         /\ c.op = "deliver" => c.e \in Entry /\ c.table \subseteq Route /\ c.todo \subseteq Entry
  BY DEF Call

\* What the operators that name the kinds build is a call.
LEMMA CallTypes ==
  /\ Idle \in Call /\ Joining \in Call /\ Prepends \in Call /\ Counts \in Call
  /\ \A new \in Entry, old \in SUBSET Entry : Assigns(new, old) \in Call
  /\ \A sessions \in SUBSET Jid : Reporting(sessions) \in Call
  /\ \A todo \in SUBSET Entry : Pushes(todo) \in Call
  /\ \A e \in Entry, table \in SUBSET Route, todo \in SUBSET Entry :
       Delivers(e, table, todo) \in Call
  /\ \A v \in {"known", "unknown", "exception"} : Reply(v) \in Call
  BY DEF Idle, Joining, Prepends, Counts, Assigns, Reporting, Pushes, Delivers, Reply, Call

\* Only a keepAlive and a table on its way carry jids.
LEMMA CallKinds ==
  /\ Idle.op = "none" /\ Joining.op = "join" /\ Prepends.op = "cons" /\ Counts.op = "count"
  /\ \A new, old : Assigns(new, old).op = "assign"
  /\ \A sessions : /\ Reporting(sessions).op = "keepAlive"
                   /\ Reporting(sessions).sessions = sessions
  /\ \A todo : Pushes(todo).op = "push"
  /\ \A e, table, todo : /\ Delivers(e, table, todo).op = "deliver"
                         /\ Delivers(e, table, todo).table = table
  /\ \A v : Reply(v).op = "reply"
  BY DEF Idle, Joining, Prepends, Counts, Assigns, Reporting, Pushes, Delivers, Reply

\* Garbage collection keeps the type of the objects and invents no session.
LEMMA CollectedObjects ==
  ASSUME NEW o \in [Entry -> OnlineServer], BoundsAssumption
  PROVE  /\ Collect(o) \in [Entry -> OnlineServer]
         /\ \A e \in Entry : Collect(o)[e].sessions \subseteq o[e].sessions
<1>1. Joined(0) \in OnlineServer /\ Joined(0).sessions = {}
  BY BoundsAssumption DEF Joined, OnlineServer
<1> QED  BY <1>1 DEF Collect

-----------------------------------------------------------------------------
(* Type correctness.                                                       *)

LEMMA TypeInit == Init => TypeOK
  BY BoundsAssumption, CallTypes, NoneAssumption DEF Init, TypeOK, Joined, OnlineServer

\* What an object holds, and the process its stub names.
LEMMA ObjectFields ==
  ASSUME TypeOK, NEW e \in Entry
  PROVE  obj[e].sessions \subseteq Jid /\ Stub(e) \in Process
<1>1. obj[e] \in OnlineServer  BY DEF TypeOK
<1>2. obj[e].sessions \subseteq Jid /\ obj[e].inc \in 0..MaxRestarts  BY <1>1 DEF OnlineServer
<1> QED  BY <1>2 DEF Stub, Process, Entry

LEMMA ThreadType ==
  ASSUME TypeOK, NEW s \in Server, UpdateNSThread(s)
  PROVE  TypeOK'
<1> USE DEF chat, naming, history, Becomes
<1>1. CASE GetLoadBalancer(s)
  BY <1>1, CallTypes, NoneAssumption DEF TypeOK, GetLoadBalancer
<1>2. CASE KeepAlive(s)
  <2>1. Reporting(sess[s]) \in Call  BY CallTypes DEF TypeOK
  <2> QED  BY <1>2, <2>1, NoneAssumption DEF TypeOK, KeepAlive
<1>3. CASE KeepAliveFails(s)
  BY <1>3 DEF TypeOK, KeepAliveFails, CatchRemote
<1>4. CASE Returns(s)
  BY <1>4, CallTypes DEF TypeOK, Returns, CatchRemote
<1> QED  BY <1>1, <1>2, <1>3, <1>4 DEF UpdateNSThread

LEMMA CallType ==
  ASSUME TypeOK, NEW s \in Server, LoadBalancer(s)
  PROVE  TypeOK'
<1> USE DEF chat, naming, history
<1>0. call[s] \in Call  BY DEF TypeOK
<1>a. ASSUME NEW c \in Call, Becomes(s, c) PROVE call' \in [Server -> Call]
  BY <1>a DEF Becomes, TypeOK
<1>1. CASE JoinCount(s)
  <2>1. call' \in [Server -> Call]  BY <1>1, <1>a, CallTypes DEF JoinCount
  <2> QED  BY <1>1, <2>1 DEF TypeOK, JoinCount
<1>2. CASE JoinReads(s)
  <2>1. PICK n \in 1..Copies :
          LET e == [addr |-> s, copy |-> n]
          IN Becomes(s, Assigns(e, list)) /\ obj' = [obj EXCEPT ![e] = Joined(inc[s])]
    BY <1>2 DEF JoinReads
  <2> DEFINE e == [addr |-> s, copy |-> n]
  <2>2. e \in Entry  BY DEF Entry
  <2>3. Assigns(e, list) \in Call  BY <2>2, CallTypes DEF TypeOK
  <2>4. call' \in [Server -> Call]  BY <1>a, <2>1, <2>3
  <2>5. Joined(inc[s]) \in OnlineServer  BY DEF TypeOK, Joined, OnlineServer
  <2>6. obj' \in [Entry -> OnlineServer]  BY <2>1, <2>2, <2>5 DEF TypeOK
  <2> QED  BY <1>2, <2>4, <2>6 DEF TypeOK, JoinReads
<1>3. CASE JoinAssigns(s)
  <2>1. call' \in [Server -> Call]  BY <1>3, <1>a, CallTypes DEF JoinAssigns
  <2>2. list' \subseteq Entry
    BY <1>0, <1>3, CallFields DEF JoinAssigns, Executing, TypeOK
  <2>3. obj' \in [Entry -> OnlineServer]
    BY <1>3, CollectedObjects, BoundsAssumption DEF JoinAssigns, TypeOK
  <2> QED  BY <1>3, <2>1, <2>2, <2>3 DEF TypeOK, JoinAssigns
<1>4. CASE UpdateAlive(s)
  <2>1. call[s].sessions \subseteq Jid
    BY <1>0, <1>4, CallFields DEF UpdateAlive, Executing
  <2>2. Pushes(list) \in Call /\ Counts \in Call  BY CallTypes DEF TypeOK
  <2>3. call' \in [Server -> Call]  BY <1>4, <1>a, <2>2 DEF UpdateAlive
  <2>4. ASSUME NEW e \in Entry
        PROVE  [obj[e] EXCEPT !.sessions = call[s].sessions, !.late = FALSE] \in OnlineServer
    <3>1. obj[e] \in OnlineServer  BY DEF TypeOK
    <3> QED  BY <2>1, <3>1 DEF OnlineServer
  <2>5. obj' \in [Entry -> OnlineServer]  BY <1>4, <2>4 DEF UpdateAlive, TypeOK
  <2> QED  BY <1>4, <2>3, <2>5 DEF TypeOK, UpdateAlive
<1>5. CASE Push(s)
  <2>1. PICK e \in call[s].todo : \E table \in SUBSET Routes(e) :
          Becomes(s, Delivers(e, table, call[s].todo \ {e}))
    BY <1>5 DEF Push
  <2>2. PICK table \in SUBSET Routes(e) : Becomes(s, Delivers(e, table, call[s].todo \ {e}))
    BY <2>1
  <2>3. call[s].todo \subseteq Entry  BY <1>0, <1>5, CallFields DEF Push, Executing
  <2>4. Routes(e) \subseteq Route
    <3>1. \A f \in Entry : obj[f].sessions \subseteq Jid /\ Stub(f) \in Process
      BY ObjectFields
    <3> QED  BY <3>1 DEF Routes, Route, TypeOK
  <2>5. Delivers(e, table, call[s].todo \ {e}) \in Call
    BY <2>1, <2>2, <2>3, <2>4, CallTypes
  <2>6. call' \in [Server -> Call]  BY <1>a, <2>2, <2>5
  <2> QED  BY <1>5, <2>6 DEF TypeOK, Push
<1>6. CASE UpdateSessions(s)
  <2>1. /\ call[s].e \in Entry /\ call[s].table \subseteq Route /\ call[s].todo \subseteq Entry
    BY <1>0, <1>6, CallFields DEF UpdateSessions, Executing
  <2>2. Pushes(call[s].todo) \in Call  BY <2>1, CallTypes
  <2>3. call' \in [Server -> Call]  BY <1>6, <1>a, <2>2 DEF UpdateSessions
  <2>4. remote' \in [Server -> SUBSET Route]
    BY <1>6, <2>1 DEF UpdateSessions, TypeOK, Entry
  <2>5. obj' \in [Entry -> OnlineServer]
    BY <1>6, CollectedObjects, BoundsAssumption DEF UpdateSessions, TypeOK
  <2> QED  BY <1>6, <2>3, <2>4, <2>5 DEF TypeOK, UpdateSessions
<1>7. CASE PushFails(s)
  <2>1. call' \in [Server -> Call]  BY <1>7, <1>a, CallTypes DEF PushFails
  <2>2. obj' \in [Entry -> OnlineServer]
    BY <1>7, CollectedObjects, BoundsAssumption DEF PushFails, TypeOK
  <2> QED  BY <1>7, <2>1, <2>2 DEF TypeOK, PushFails
<1>8. CASE PushEnds(s)
  <2>1. call' \in [Server -> Call]  BY <1>8, <1>a, CallTypes DEF PushEnds
  <2> QED  BY <1>8, <2>1 DEF TypeOK, PushEnds
<1>9. CASE CountsListed(s)
  <2>1. call' \in [Server -> Call]  BY <1>9, <1>a, CallTypes DEF CountsListed
  <2> QED  BY <1>9, <2>1 DEF TypeOK, CountsListed
<1>10. CASE ReplyLost(s)
  <2>1. call' \in [Server -> Call]  BY <1>10, <1>a, CallTypes DEF ReplyLost
  <2> QED  BY <1>10, <2>1 DEF TypeOK, ReplyLost
<1> QED
  BY <1>1, <1>2, <1>3, <1>4, <1>5, <1>6, <1>7, <1>8, <1>9, <1>10 DEF LoadBalancer

LEMMA CheckerType ==
  ASSUME TypeOK, ServerChecker
  PROVE  TypeOK'
<1> USE DEF chat, naming, history
<1>1. CASE CheckStarts  BY <1>1 DEF TypeOK, CheckStarts
<1>2. CASE CheckOne
  <2>1. obj' \in [Entry -> OnlineServer]
    BY <1>2, CollectedObjects, BoundsAssumption DEF CheckOne, TypeOK
  <2>2. PICK e \in checker.todo :
          \/ checker' = [checker EXCEPT !.todo = @ \ {e}]
          \/ checker' = [checker EXCEPT !.todo = @ \ {e}, !.keep = @ \cup {e}]
    BY <1>2 DEF CheckOne
  <2>3. checker' \in [op : {"sleep", "check"}, todo : SUBSET Entry, keep : SUBSET Entry]
    <3> DEFINE Checker == [op : {"sleep", "check"}, todo : SUBSET Entry, keep : SUBSET Entry]
    <3>1. checker \in Checker /\ e \in Entry  BY DEF TypeOK
    <3>2. /\ checker.op \in {"sleep", "check"}
          /\ checker.todo \ {e} \in SUBSET Entry /\ checker.keep \in SUBSET Entry
          /\ checker.keep \cup {e} \in SUBSET Entry
      BY <3>1
    <3>3. [checker EXCEPT !.todo = checker.todo \ {e}] \in Checker  BY <3>1, <3>2
    <3>4. [checker EXCEPT !.todo = checker.todo \ {e}, !.keep = checker.keep \cup {e}] \in Checker
      BY <3>1, <3>2
    <3> QED  BY <2>2, <3>3, <3>4
  <2> QED  BY <1>2, <2>1, <2>3 DEF TypeOK, CheckOne
<1>3. CASE CheckAssigns
  <2>1. obj' \in [Entry -> OnlineServer]
    BY <1>3, CollectedObjects, BoundsAssumption DEF CheckAssigns, TypeOK
  <2> QED  BY <1>3, <2>1 DEF TypeOK, CheckAssigns
<1> QED  BY <1>1, <1>2, <1>3 DEF ServerChecker

LEMMA EnvironmentType ==
  ASSUME TypeOK, NEW s \in Server,
         PauseOrResume(s) \/ SessionsChange(s) \/ Crash(s) \/ Restart(s)
  PROVE  TypeOK'
<1> USE DEF chat, naming, history
<1>1. CASE PauseOrResume(s)  BY <1>1 DEF TypeOK, PauseOrResume
<1>2. CASE SessionsChange(s)
  BY <1>2, BoundsAssumption DEF TypeOK, SessionsChange
<1>3. CASE Crash(s)  BY <1>3 DEF TypeOK, Crash
<1>4. CASE Restart(s)  BY <1>4, BoundsAssumption DEF TypeOK, Restart
<1> QED  BY <1>1, <1>2, <1>3, <1>4

LEMMA TypeStep == TypeOK /\ [Next]_vars => TypeOK'
<1> SUFFICES ASSUME TypeOK, [Next]_vars PROVE TypeOK'
  OBVIOUS
<1>1. ASSUME NEW e \in Entry, GrowsLate(e) PROVE TypeOK'
  <2>1. obj' \in [Entry -> OnlineServer]
    BY <1>1 DEF GrowsLate, TypeOK, OnlineServer
  <2> QED  BY <1>1, <2>1 DEF GrowsLate, TypeOK, chat, history
<1>2. ASSUME NamingServerFails PROVE TypeOK'
  <2>1. obj' \in [Entry -> OnlineServer]
    BY <1>2, CollectedObjects, BoundsAssumption DEF NamingServerFails, TypeOK
  <2>2. call' \in [Server -> Call]  BY <1>2, CallTypes DEF NamingServerFails
  <2> QED  BY <1>2, <2>1, <2>2, BoundsAssumption DEF NamingServerFails, TypeOK, chat, history
<1>3. CASE UNCHANGED vars  BY <1>3 DEF vars, TypeOK
<1> QED
  BY <1>1, <1>2, <1>3, ThreadType, CallType, CheckerType, EnvironmentType DEF Next

\* Every variable of Federation keeps its type: RMI calls hold arguments their
\* methods accept and a server has a stub exactly while it uses one.
THEOREM TypeCorrect == Spec => []TypeOK
  BY TypeInit, TypeStep, PTL DEF Spec

-----------------------------------------------------------------------------
(* Soundness of the tables.                                                *)

EntriesReported == \A e \in Entry : obj[e].sessions \subseteq exported[e.addr]

CallReported(s) ==
  /\ Executing(s, "keepAlive") => call[s].sessions \subseteq exported[s]
  /\ Executing(s, "deliver") => \A r \in call[s].table : r.jid \in exported[r.to.addr]

RInv == TypeOK /\ EntriesReported /\ (\A s \in Server : CallReported(s)) /\ RoutesExported

LEMMA ReportedInit == Init => RInv
<1> SUFFICES ASSUME Init PROVE RInv
  OBVIOUS
<1>1. TypeOK  BY TypeInit
<1>2. \A e \in Entry : obj[e].sessions = {}  BY DEF Init, Joined
<1>3. \A s \in Server : call[s].op = "none"  BY CallKinds DEF Init
<1> QED  BY <1>1, <1>2, <1>3 DEF RInv, EntriesReported, CallReported, Executing, RoutesExported, Init

\* What has been reported stays reported, so that a step that brings in no jid
\* keeps what it leaves alone.
LEMMA NothingNew ==
  ASSUME RInv, TypeOK',
         \A w \in Server : exported[w] \subseteq exported'[w],
         \A e \in Entry : obj'[e].sessions \subseteq exported'[e.addr],
         \A s \in Server : call'[s] = call[s] \/ call'[s].op \notin {"keepAlive", "deliver"}
                           \/ CallReported(s)',
         \A s \in Server : remote'[s] = remote[s] \/ remote'[s] = {}
                           \/ \A r \in remote'[s] : r.jid \in exported'[r.to.addr]
  PROVE  RInv'
<1>0. \A R \in SUBSET Route : \A r \in R : r.to.addr \in Server
  BY DEF Route, Process
<1>1. \A s \in Server : CallReported(s)'
  <2> SUFFICES ASSUME NEW s \in Server, call'[s] = call[s] PROVE CallReported(s)'
    BY DEF CallReported, Executing
  <2>1. CallReported(s) /\ call[s] \in Call  BY DEF RInv, TypeOK
  <2>2. Executing(s, "deliver") => call[s].table \subseteq Route
    BY <2>1, CallFields DEF Executing
  <2> QED  BY <1>0, <2>1, <2>2 DEF CallReported, Executing
<1>2. RoutesExported'
  BY <1>0 DEF RInv, RoutesExported, TypeOK
<1> QED  BY <1>1, <1>2 DEF RInv, EntriesReported

\* Objects that are only collected, or left alone, bring in no jid.
LEMMA ObjectsKept ==
  ASSUME RInv, obj' = obj \/ obj' = Collect(obj), exported' = exported
  PROVE  \A e \in Entry : obj'[e].sessions \subseteq exported'[e.addr]
  BY CollectedObjects, BoundsAssumption DEF RInv, EntriesReported, TypeOK

LEMMA ReportedStep == RInv /\ [Next]_vars => RInv'
<1> SUFFICES ASSUME RInv, [Next]_vars PROVE RInv'
  OBVIOUS
<1> USE DEF chat, naming, history
<1>0. TypeOK /\ TypeOK'  BY TypeStep DEF RInv
<1>a. \A e \in Entry : e.addr \in Server /\ obj[e].sessions \subseteq exported[e.addr]
  BY DEF RInv, EntriesReported, Entry
\* Steps of a call that carry no jid.
<1>b. ASSUME NEW s \in Server, NEW c, Becomes(s, c), c.op \notin {"keepAlive", "deliver"},
             obj' = obj \/ obj' = Collect(obj), exported' = exported, remote' = remote
      PROVE  RInv'
  <2>1. \A u \in Server : call'[u] = call[u] \/ call'[u].op \notin {"keepAlive", "deliver"}
    BY <1>0, <1>b DEF Becomes, TypeOK
  <2> QED  BY <1>0, <1>b, <2>1, NothingNew, ObjectsKept
<1>1. ASSUME NEW s \in Server, UpdateNSThread(s) PROVE RInv'
  <2>1. CASE GetLoadBalancer(s)
    BY <1>b, <2>1, CallKinds DEF GetLoadBalancer
  <2>2. CASE KeepAlive(s)
    <3>1. \A w \in Server : exported[w] \subseteq exported'[w]  BY <1>0, <2>2 DEF KeepAlive, TypeOK
    <3>2. \A e \in Entry : obj'[e].sessions \subseteq exported'[e.addr]
      BY <1>a, <2>2, <3>1 DEF KeepAlive
    <3>3. CallReported(s)'
      BY <1>0, <2>2, CallKinds DEF KeepAlive, Becomes, CallReported, Executing, TypeOK
    <3>4. \A u \in Server : u = s \/ call'[u] = call[u]
      BY <1>0, <2>2 DEF KeepAlive, Becomes, TypeOK
    <3> QED  BY <1>0, <2>2, <3>1, <3>2, <3>3, <3>4, NothingNew DEF KeepAlive
  <2>3. CASE KeepAliveFails(s)
    BY <1>0, <2>3, NothingNew, ObjectsKept DEF KeepAliveFails, CatchRemote
  <2>4. CASE Returns(s)
    BY <1>b, <2>4, CallKinds DEF Returns
  <2> QED  BY <1>1, <2>1, <2>2, <2>3, <2>4 DEF UpdateNSThread
<1>2. ASSUME NEW s \in Server, LoadBalancer(s) PROVE RInv'
  <2>0. call[s] \in Call /\ CallReported(s)  BY <1>0 DEF RInv, TypeOK
  <2>1. CASE JoinCount(s)  BY <1>b, <2>1, CallKinds DEF JoinCount
  <2>2. CASE JoinReads(s)
    <3>1. PICK n \in 1..Copies :
            LET e == [addr |-> s, copy |-> n]
            IN Becomes(s, Assigns(e, list)) /\ obj' = [obj EXCEPT ![e] = Joined(inc[s])]
      BY <2>2 DEF JoinReads
    <3>2. \A e \in Entry : obj'[e].sessions \subseteq exported'[e.addr]
      BY <1>0, <1>a, <2>2, <3>1 DEF JoinReads, Joined, TypeOK
    <3>3. \A u \in Server : call'[u] = call[u] \/ call'[u].op \notin {"keepAlive", "deliver"}
      BY <1>0, <3>1, CallKinds DEF Becomes, TypeOK
    <3> QED  BY <1>0, <2>2, <3>2, <3>3, NothingNew DEF JoinReads
  <2>3. CASE JoinAssigns(s)  BY <1>b, <2>3, CallKinds DEF JoinAssigns
  <2>4. CASE UpdateAlive(s)
    <3>1. call[s].sessions \subseteq exported[s]
      BY <2>0, <2>4 DEF UpdateAlive, CallReported
    <3>2. \A e \in Entry : obj'[e].sessions \subseteq exported'[e.addr]
      <4> SUFFICES ASSUME NEW e \in Entry PROVE obj'[e].sessions \subseteq exported'[e.addr]
        OBVIOUS
      <4>1. CASE e \in AtAddress(s)
        <5>1. obj'[e].sessions = call[s].sessions
          <6>1. obj[e] \in OnlineServer  BY <1>0 DEF TypeOK
          <6> QED  BY <2>4, <4>1, <6>1 DEF UpdateAlive, OnlineServer
        <5> QED  BY <2>4, <3>1, <4>1, <5>1 DEF UpdateAlive, AtAddress
      <4>2. CASE e \notin AtAddress(s)  BY <1>a, <2>4, <4>2 DEF UpdateAlive
      <4> QED  BY <4>1, <4>2
    <3>3. \A u \in Server : call'[u] = call[u] \/ call'[u].op \notin {"keepAlive", "deliver"}
      <4>1. Becomes(s, Pushes(list)) \/ Becomes(s, Counts)  BY <2>4 DEF UpdateAlive
      <4>2. call'[s] = Pushes(list) \/ call'[s] = Counts  BY <1>0, <4>1 DEF Becomes, TypeOK
      <4>3. \A u \in Server : u = s \/ call'[u] = call[u]  BY <1>0, <4>1 DEF Becomes, TypeOK
      <4> QED  BY <4>2, <4>3, CallKinds
    <3> QED  BY <1>0, <2>4, <3>2, <3>3, NothingNew DEF UpdateAlive
  <2>5. CASE Push(s)
    <3>1. PICK e \in call[s].todo : \E table \in SUBSET Routes(e) :
            Becomes(s, Delivers(e, table, call[s].todo \ {e}))
      BY <2>5 DEF Push
    <3>2. PICK table \in SUBSET Routes(e) : Becomes(s, Delivers(e, table, call[s].todo \ {e}))
      BY <3>1
    <3>3. \A r \in Routes(e) : r.jid \in exported[r.to.addr]
      BY <1>0, <1>a DEF Routes, Stub, TypeOK
    <3>4. call'[s] = Delivers(e, table, call[s].todo \ {e})
      BY <1>0, <3>2 DEF Becomes, TypeOK
    <3>5. CallReported(s)'
      BY <2>5, <3>3, <3>4, CallKinds DEF Push, CallReported, Executing
    <3>6. \A u \in Server : u = s \/ call'[u] = call[u]
      BY <1>0, <3>2 DEF Becomes, TypeOK
    <3> QED  BY <1>0, <2>5, <3>5, <3>6, NothingNew, ObjectsKept DEF Push
  <2>6. CASE UpdateSessions(s)
    <3>1. \A r \in call[s].table : r.jid \in exported[r.to.addr]
      BY <2>0, <2>6 DEF UpdateSessions, CallReported
    <3>2. \A u \in Server : remote'[u] = remote[u] \/ \A r \in remote'[u] : r.jid \in exported'[r.to.addr]
      BY <1>0, <2>6, <3>1 DEF UpdateSessions, TypeOK
    <3>3. \A u \in Server : call'[u] = call[u] \/ call'[u].op \notin {"keepAlive", "deliver"}
      BY <1>0, <2>6, CallKinds DEF UpdateSessions, Becomes, TypeOK
    <3>4. obj' = Collect(obj) /\ exported' = exported  BY <2>6 DEF UpdateSessions
    <3> QED  BY <1>0, <3>2, <3>3, <3>4, NothingNew, ObjectsKept
  <2>7. CASE PushFails(s)  BY <1>b, <2>7, CallKinds DEF PushFails
  <2>8. CASE PushEnds(s)  BY <1>b, <2>8, CallKinds DEF PushEnds
  <2>9. CASE CountsListed(s)  BY <1>b, <2>9, CallKinds DEF CountsListed
  <2>10. CASE ReplyLost(s)  BY <1>b, <2>10, CallKinds DEF ReplyLost
  <2> QED
    BY <1>2, <2>1, <2>2, <2>3, <2>4, <2>5, <2>6, <2>7, <2>8, <2>9, <2>10 DEF LoadBalancer
<1>3. ASSUME NEW s \in Server, PauseOrResume(s) \/ SessionsChange(s) \/ Crash(s) \/ Restart(s)
      PROVE  RInv'
  <2>1. \A u \in Server : remote'[u] = remote[u] \/ remote'[u] = {}
    BY <1>0, <1>3 DEF PauseOrResume, SessionsChange, Crash, Restart, TypeOK
  <2>2. call' = call /\ obj' = obj /\ exported' = exported
    BY <1>3 DEF PauseOrResume, SessionsChange, Crash, Restart
  <2> QED  BY <1>0, <2>1, <2>2, NothingNew, ObjectsKept
<1>4. ASSUME NEW e \in Entry, GrowsLate(e) PROVE RInv'
  <2>1. \A f \in Entry : obj'[f].sessions = obj[f].sessions
    BY <1>0, <1>4 DEF GrowsLate, TypeOK, OnlineServer
  <2> QED  BY <1>0, <1>a, <1>4, <2>1, NothingNew DEF GrowsLate
<1>5. ASSUME ServerChecker PROVE RInv'
  BY <1>0, <1>5, NothingNew, ObjectsKept DEF ServerChecker, CheckStarts, CheckOne, CheckAssigns
<1>6. ASSUME NamingServerFails PROVE RInv'
  <2>1. \A u \in Server : call'[u].op \notin {"keepAlive", "deliver"}
    BY <1>6, CallKinds DEF NamingServerFails
  <2> QED  BY <1>0, <1>6, <2>1, NothingNew, ObjectsKept DEF NamingServerFails
<1>7. CASE UNCHANGED vars  BY <1>0, <1>7, NothingNew, ObjectsKept DEF vars
<1> QED  BY <1>1, <1>2, <1>3, <1>4, <1>5, <1>6, <1>7 DEF Next

\* No table routes a jid to a server that never reported it, for any number of
\* servers and calls: what overlapping calls do to serverList (LoadBalancer)
\* can lose a route or keep an old one, but never crosses two servers.
THEOREM RoutesSound == Spec => []RoutesExported
<1>1. RInv => RoutesExported  BY DEF RInv
<1> QED  BY <1>1, ReportedInit, ReportedStep, PTL DEF Spec
=============================================================================
