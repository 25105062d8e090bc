--------------------------- MODULE SessionManager ---------------------------
(***************************************************************************)
(* The session table of a chat server and the delivery of stanzas through  *)
(* it: SessionManager.scala, the stanza handlers of XMPPServerParser.scala *)
(* that call it, the selector loop of NioServer.scala and the remote       *)
(* object PingBack.scala through which another server's SessionManager     *)
(* calls in.                                                               *)
(*                                                                         *)
(* Every method of SessionManager is `synchronized`: lock[s] is the owner  *)
(* of the monitor of the object on server s.  The methods call each other  *)
(* recursively (a failed write closes a session, which sends presences,    *)
(* whose writes may fail) and, through RMI, call other servers while the   *)
(* monitor is held.  stack[t] is the call stack of thread t, the frame     *)
(* being executed first; a frame names the server it runs `at`, so one     *)
(* stack is the whole chain of calls, the remote ones included.            *)
(*                                                                         *)
(* A definition under "Mutation" is no part of the model: it is what a     *)
(* plausible bug would make of the definition below it, to see that a      *)
(* property tells the two apart.                                           *)
(***************************************************************************)
EXTENDS Integers, Sequences, FiniteSets

CONSTANTS
  Server,      \* chat servers, one JVM each
  Thread,      \* threads that run stanza handlers (one selector per server)
  Conn,        \* client connections; a reconnection is another one
  User, Resource, Msg,
  Extends,     \* Extends[r]: the resources whose name begins with r, and r
  Client,      \* Client[c]: where connection c goes and who it logs in as
  Roster,      \* Roster[u][f]: the subscription of f in u's friends
  Senders,     \* connections whose client sends messages
  Targets,     \* jids, with a resource or without, they send them to
  Faulty,      \* servers whose remote object may fail to answer
  None

ASSUME ClientAssumption ==
  /\ Client \in [Conn -> [at : Server, thread : Thread, user : User, res : Resource]]
  /\ \A c, d \in Conn : Client[c].thread = Client[d].thread => Client[c].at = Client[d].at
  /\ None \notin User \cup Resource \cup Msg \cup Thread \cup Conn
ASSUME ExtendsAssumption ==
  Extends \in [Resource -> SUBSET Resource] /\ \A r \in Resource : r \in Extends[r]
ASSUME RosterAssumption ==
  Roster \in [User -> [User -> {"absent", "none", "to", "from", "both"}]]

VARIABLES
  sessions,    \* SessionManager.sessions of every server
  who,         \* session.user once logged, None before
  res,         \* session.resource once bound, None before
  sock,        \* the socket behind the OutChannel
  remote,      \* SessionManager.remoteSessions: a jid to the server it is at
  lock,        \* owner of the SessionManager monitor of a server
  stack,       \* call stack of a thread, innermost call first
  alive,       \* FALSE once an exception has ended the thread's loop
  sent,        \* the connection a chat message came from, and where to
  owed,        \* channels getOutChannels returned for the message
  missed,      \* channels whose write threw
  bounced,     \* channels the message_error stanza was written to
  written      \* number of times the message was written to a channel

table   == <<sessions, who, res, sock>>
history == <<sent, owed, missed, bounced, written>>
vars    == <<sessions, who, res, sock, remote, lock, stack, alive,
             sent, owed, missed, bounced, written>>

-----------------------------------------------------------------------------
(* Jids: user@localhost/resource, with the prefix test the code uses: a    *)
(* bare jid stands for all sessions of its user, and one with a resource   *)
(* for every session whose resource begins with it.                        *)

Jid == [user : User \cup {None}, res : Resource \cup {None}]
Bare(u) == [user |-> u, res |-> None]
StartsWith(j, prefix) ==
  j.user = prefix.user /\ (prefix.res = None \/ j.res \in Extends[prefix.res])
\* A full jid that no other one begins with.
Sole(jid) == jid.res # None /\ Extends[jid.res] = {jid.res}

ASSUME NoneAssumption == None \notin [from : Conn, to : Jid]
ASSUME TargetAssumption == Targets \subseteq [user : User, res : Resource \cup {None}]

JidOf(c) == [user |-> who[c], res |-> res[c]]
At(c) == Client[c].at
Matching(s, jid) == {c \in sessions : At(c) = s /\ StartsWith(JidOf(c), jid)}

Friends(u, subscriptions) ==
  IF u = None THEN {} ELSE {f \in User : Roster[u][f] \in subscriptions}

-----------------------------------------------------------------------------
(* Stanzas and the frames of the call stacks.                              *)

Stanza == [kind : {"chat", "error", "online", "offline"},
           from : Jid, msg : Msg \cup {None}]
Chat(m, from)  == [kind |-> "chat", from |-> from, msg |-> m]
ErrorOf(st)    == [st EXCEPT !.kind = "error"]
Online(from)   == [kind |-> "online", from |-> from, msg |-> None]
Offline(from)  == [kind |-> "offline", from |-> from, msg |-> None]

Call  == [to : Jid, what : Stanza, notify : BOOLEAN]
Route == [jid : Jid, at : Server]

\* Frames that run inside the monitor of their server.
SendFrame(s, to, what, notify) ==
  [op |-> "send", at |-> s, call |-> [to |-> to, what |-> what, notify |-> notify]]
WritesFrame(s, call, left)   == [op |-> "writes", at |-> s, call |-> call, left |-> left]
DeliversFrame(s, call, left) == [op |-> "delivers", at |-> s, call |-> call, left |-> left]
DestroyFrame(c)   == [op |-> "destroy", at |-> At(c), conn |-> c]
ShutFrame(c)      == [op |-> "shut", at |-> At(c), conn |-> c]
TellFrame(s, what, left) == [op |-> "tell", at |-> s, what |-> what, left |-> left]
UnlockFrame(s)    == [op |-> "unlock", at |-> s]
\* Frames that run outside it: a synchronized call about to be made, and the
\* loops of the presence handler, which take the monitor once per friend.
SyncFrame(body)   == [op |-> "sync", at |-> body.at, body |-> body]
BroadcastFrame(s, what, left) ==
  [op |-> "broadcast", at |-> s, what |-> what, left |-> left]
ProbeFrame(c, left) == [op |-> "probe", at |-> At(c), conn |-> c, left |-> left]

Top(t) == Head(stack[t])
Running(t, op) == stack[t] # <<>> /\ Top(t).op = op
\* The running call is replaced by the frames fs.
Return(t, fs) == stack' = [stack EXCEPT ![t] = fs \o Tail(@)]

-----------------------------------------------------------------------------
(* The monitor.  It is reentrant for the thread that holds it, but a call  *)
(* that comes back through RMI runs on a thread of its own and must wait:  *)
(* a sync frame therefore always needs the monitor to be free.             *)

\* Mutation: the monitor is reentrant for a whole chain of remote calls.
EnterMonitorAcrossRmi(t) ==
  /\ Running(t, "sync")
  /\ lock[Top(t).at] \in {None, t}
  /\ lock' = [lock EXCEPT ![Top(t).at] = t]
  /\ Return(t, <<Top(t).body, UnlockFrame(Top(t).at)>>)
  /\ UNCHANGED <<table, remote, alive, history>>

EnterMonitor(t) ==
  /\ Running(t, "sync")
  /\ lock[Top(t).at] = None
  /\ lock' = [lock EXCEPT ![Top(t).at] = t]
  /\ Return(t, <<Top(t).body, UnlockFrame(Top(t).at)>>)
  /\ UNCHANGED <<table, remote, alive, history>>

\* Mutation: a monitor that is not released on the way out.
LeaveMonitorHeld(t) ==
  /\ Running(t, "unlock")
  /\ Return(t, <<>>)
  /\ UNCHANGED <<table, remote, lock, alive, history>>

LeaveMonitor(t) ==
  /\ Running(t, "unlock")
  /\ lock' = [lock EXCEPT ![Top(t).at] = None]
  /\ Return(t, <<>>)
  /\ UNCHANGED <<table, remote, alive, history>>

-----------------------------------------------------------------------------
(* send: the channels of the matching local sessions are collected, then   *)
(* written one by one; then the matching remote sessions are called.       *)

GetOutChannels(t) ==
  /\ Running(t, "send")
  /\ LET f == Top(t)
         channels == Matching(f.at, f.call.to)
     IN /\ Return(t, <<WritesFrame(f.at, f.call, channels)>>)
        /\ owed' = IF f.call.what.kind = "chat"
                   THEN [owed EXCEPT ![f.call.what.msg] = @ \cup channels] ELSE owed
  /\ UNCHANGED <<table, remote, lock, alive, sent, missed, bounced, written>>

\* A write to a socket whose peer is gone may still succeed.
Write(t) ==
  /\ Running(t, "writes")
  /\ \E c \in Top(t).left :
       /\ sock[c] \in {"open", "broken"}
       /\ Return(t, <<WritesFrame(Top(t).at, Top(t).call, Top(t).left \ {c})>>)
       /\ LET what == Top(t).call.what
          IN /\ written' = IF what.kind = "chat"
                           THEN [written EXCEPT ![c][what.msg] = @ + 1] ELSE written
             /\ bounced' = IF what.kind = "error"
                           THEN [bounced EXCEPT ![what.msg] = @ \cup {c}] ELSE bounced
  /\ UNCHANGED <<table, remote, lock, alive, sent, owed, missed>>

\* Mutation: closeSession given a new channel on the same socket.
CloseSessionNewChannel(c) == <<>>

\* closeSession(o): the session is looked up by its channel.
CloseSession(c) == IF c \in sessions THEN <<DestroyFrame(c)>> ELSE <<>>

\* Mutation: the error goes to the jid that could not be reached.
NotifyRecipient(s, call) ==
  IF call.notify THEN <<SendFrame(s, call.to, ErrorOf(call.what), FALSE)>> ELSE <<>>

\* The message_error stanza of a call that asks for it goes to the sender's jid.
Notify(s, call) ==
  IF call.notify
  THEN <<SendFrame(s, call.what.from, ErrorOf(call.what), FALSE)>>
  ELSE <<>>

WriteFails(t) ==
  /\ Running(t, "writes")
  /\ \E c \in Top(t).left :
       /\ sock[c] \in {"broken", "closed"}
       /\ LET f == Top(t)
          IN /\ Return(t, CloseSession(c) \o Notify(f.at, f.call)
                            \o <<WritesFrame(f.at, f.call, f.left \ {c})>>)
             /\ missed' = IF f.call.what.kind = "chat"
                          THEN [missed EXCEPT ![f.call.what.msg] = @ \cup {c}] ELSE missed
  /\ UNCHANGED <<table, remote, lock, alive, sent, owed, bounced, written>>

\* filterKeys(..).values: one entry for every matching jid, not for every server.
GetForeignChannels(t) ==
  /\ Running(t, "writes")
  /\ Top(t).left = {}
  /\ Return(t, <<DeliversFrame(Top(t).at, Top(t).call,
                    {r \in remote[Top(t).at] : StartsWith(r.jid, Top(t).call.to)})>>)
  /\ UNCHANGED <<table, remote, lock, alive, history>>

\* pb.deliver: the whole of send runs on the other server before this returns.
Deliver(t) ==
  /\ Running(t, "delivers")
  /\ \E r \in Top(t).left :
       Return(t, <<SyncFrame(SendFrame(r.at, Top(t).call.to, Top(t).call.what, FALSE)),
                   DeliversFrame(Top(t).at, Top(t).call, Top(t).left \ {r})>>)
  /\ UNCHANGED <<table, remote, lock, alive, history>>

DeliverFails(t) ==
  /\ Running(t, "delivers")
  /\ \E r \in Top(t).left :
       /\ r.at \in Faulty
       /\ Return(t, Notify(Top(t).at, Top(t).call)
                      \o <<DeliversFrame(Top(t).at, Top(t).call, Top(t).left \ {r})>>)
  /\ UNCHANGED <<table, remote, lock, alive, history>>

SendReturns(t) ==
  /\ Running(t, "delivers")
  /\ Top(t).left = {}
  /\ Return(t, <<>>)
  /\ UNCHANGED <<table, remote, lock, alive, history>>

-----------------------------------------------------------------------------
(* destroySession: the session leaves the table, its friends are told when *)
(* exactly one session of the user is left, and the channel is closed.     *)

OthersLeft(c) == Matching(At(c), Bare(who[c])) \ {c}

\* Mutation: remove returns the shorter list, and it is not assigned.
DestroySessionKeepsList(t) ==
  /\ Running(t, "destroy")
  /\ LET c == Top(t).conn
     IN Return(t, <<TellFrame(At(c), Offline(JidOf(c)),
                      IF Cardinality(Matching(At(c), Bare(who[c]))) = 1
                      THEN Friends(who[c], {"none", "to", "from", "both"}) ELSE {}),
                    ShutFrame(c)>>)
  /\ UNCHANGED <<table, remote, lock, alive, history>>

DestroySession(t) ==
  /\ Running(t, "destroy")
  /\ LET c == Top(t).conn
     IN /\ sessions' = sessions \ {c}
        /\ Return(t, <<TellFrame(At(c), Offline(JidOf(c)),
                         IF Cardinality(OthersLeft(c)) = 1
                         THEN Friends(who[c], {"none", "to", "from", "both"}) ELSE {}),
                       ShutFrame(c)>>)
  /\ UNCHANGED <<who, res, sock, remote, lock, alive, history>>

TellFriend(t) ==
  /\ Running(t, "tell")
  /\ \E f \in Top(t).left :
       Return(t, <<SendFrame(Top(t).at, Bare(f), Top(t).what, FALSE),
                   TellFrame(Top(t).at, Top(t).what, Top(t).left \ {f})>>)
  /\ UNCHANGED <<table, remote, lock, alive, history>>

AllTold(t) ==
  /\ Running(t, "tell")
  /\ Top(t).left = {}
  /\ Return(t, <<>>)
  /\ UNCHANGED <<table, remote, lock, alive, history>>

\* Mutation: the session leaves the table, and its channel stays open.
CloseChannelForgotten(t) ==
  /\ Running(t, "shut")
  /\ Return(t, <<>>)
  /\ UNCHANGED <<table, remote, lock, alive, history>>

CloseChannel(t) ==
  /\ Running(t, "shut")
  /\ sock' = [sock EXCEPT ![Top(t).conn] = "closed"]
  /\ Return(t, <<>>)
  /\ UNCHANGED <<sessions, who, res, remote, lock, alive, history>>

-----------------------------------------------------------------------------
(* The loops of the presence handler.  count and sendPresence each take    *)
(* the monitor; between two of them any other thread may.                  *)

Probe(t) ==
  /\ Running(t, "probe")
  /\ Top(t).left # {}
  /\ lock[Top(t).at] = None
  /\ \E f \in Top(t).left :
       LET c == Top(t).conn
           answer == IF Matching(At(c), Bare(f)) # {}
                     THEN <<SyncFrame(SendFrame(At(c), JidOf(c), Online(Bare(f)), FALSE))>>
                     ELSE <<>>
       IN Return(t, answer \o <<ProbeFrame(c, Top(t).left \ {f})>>)
  /\ UNCHANGED <<table, remote, lock, alive, history>>

Broadcast(t) ==
  /\ Running(t, "broadcast")
  /\ \E f \in Top(t).left :
       Return(t, <<SyncFrame(SendFrame(Top(t).at, Bare(f), Top(t).what, FALSE)),
                   BroadcastFrame(Top(t).at, Top(t).what, Top(t).left \ {f})>>)
  /\ UNCHANGED <<table, remote, lock, alive, history>>

LoopEnds(t) ==
  /\ Running(t, "probe") \/ Running(t, "broadcast")
  /\ Top(t).left = {}
  /\ Return(t, <<>>)
  /\ UNCHANGED <<table, remote, lock, alive, history>>

Step(t) ==
  \/ EnterMonitor(t) \/ LeaveMonitor(t)
  \/ GetOutChannels(t) \/ Write(t) \/ WriteFails(t)
  \/ GetForeignChannels(t) \/ Deliver(t) \/ DeliverFails(t) \/ SendReturns(t)
  \/ DestroySession(t) \/ TellFriend(t) \/ AllTold(t) \/ CloseChannel(t)
  \/ Probe(t) \/ Broadcast(t) \/ LoopEnds(t)

-----------------------------------------------------------------------------
(* The stanza handlers, started by the loop of the connection's thread.    *)

Ready(c) ==
  LET t == Client[c].thread
  IN alive[t] /\ stack[t] = <<>> /\ sock[c] \in {"open", "broken"}
Start(c, fs) == stack' = [stack EXCEPT ![Client[c].thread] = fs]

\* A reply is written by the handler itself; when the peer is gone the write
\* may throw, and nothing catches it on its way out of the thread's loop.
ReplyThrows(c) ==
  /\ sock[c] = "broken"
  /\ alive' = [alive EXCEPT ![Client[c].thread] = FALSE]
ReplySent == UNCHANGED alive

Accept(c) ==
  /\ alive[Client[c].thread] /\ stack[Client[c].thread] = <<>>
  /\ sock[c] = "new"
  /\ lock[At(c)] = None                                     \* createSession
  /\ sock' = [sock EXCEPT ![c] = "open"]
  /\ sessions' = sessions \cup {c}
  /\ UNCHANGED <<who, res, remote, lock, stack, alive, history>>

\* Mutation: the fields of the decoded credentials are taken one too far.
LoginNextField(c) ==
  /\ Ready(c) /\ who[c] = None
  /\ ReplySent /\ who' = [who EXCEPT ![c] = Client[c].res]
  /\ UNCHANGED <<sessions, res, sock, remote, lock, stack, history>>

Login(c) ==
  /\ Ready(c) /\ who[c] = None
  /\ \/ ReplySent /\ who' = [who EXCEPT ![c] = Client[c].user]
     \/ ReplyThrows(c) /\ UNCHANGED who
  /\ UNCHANGED <<sessions, res, sock, remote, lock, stack, history>>

Bind(c) ==
  /\ Ready(c) /\ who[c] # None
  /\ res[c] = None                              \* the client binds once
  /\ res' = [res EXCEPT ![c] = Client[c].res]
  /\ ReplySent \/ ReplyThrows(c)
  /\ UNCHANGED <<sessions, who, sock, remote, lock, stack, history>>

Message(c, m, to) ==
  /\ Ready(c) /\ who[c] # None
  /\ c \in Senders /\ sent[m] = None
  /\ sent' = [sent EXCEPT ![m] = [from |-> c, to |-> to]]
  /\ Start(c, <<SyncFrame(SendFrame(At(c), to, Chat(m, JidOf(c)), TRUE))>>)
  /\ UNCHANGED <<table, remote, lock, alive, owed, missed, bounced, written>>

Presence(c) ==
  /\ Ready(c) /\ who[c] # None
  /\ Start(c, <<ProbeFrame(c, Friends(who[c], {"to", "both"})),
                BroadcastFrame(At(c), Online(JidOf(c)), Friends(who[c], {"from", "both"}))>>)
  /\ UNCHANGED <<table, remote, lock, alive, history>>

\* presence type=unavailable; the client sends </stream:stream> right behind
\* it, and when both are in one buffer the session is destroyed twice.
Unavailable(c) ==
  /\ Ready(c) /\ who[c] # None
  /\ \E again \in {<<>>, <<SyncFrame(DestroyFrame(c))>>} :
       Start(c, <<BroadcastFrame(At(c), Offline(JidOf(c)), Friends(who[c], {"from", "both"})),
                  SyncFrame(DestroyFrame(c))>> \o again)
  /\ UNCHANGED <<table, remote, lock, alive, history>>

StreamEnd(c) ==
  /\ Ready(c)
  /\ Start(c, <<SyncFrame(DestroyFrame(c))>>)
  /\ UNCHANGED <<table, remote, lock, alive, history>>

\* read returned -1: closeSession is called with a new NioOutChannel, which is
\* the channel of no session, and the socket is closed.
EndOfFile(c) ==
  /\ Ready(c) /\ sock[c] = "broken"
  /\ lock[At(c)] = None
  /\ sock' = [sock EXCEPT ![c] = "closed"]
  /\ UNCHANGED <<sessions, who, res, remote, lock, stack, alive, history>>

-----------------------------------------------------------------------------
(* The environment: peers vanish, and the load balancer hands out tables.  *)

PeerVanishes(c) ==
  /\ sock[c] = "open"
  /\ sock' = [sock EXCEPT ![c] = "broken"]
  /\ UNCHANGED <<sessions, who, res, remote, lock, stack, alive, history>>

\* exportSessions of the other servers, as the load balancer merges them: a
\* jid that two of them export is kept for one of the two.
Exports(s) == {[jid |-> JidOf(c), at |-> At(c)] : c \in {d \in sessions : At(d) # s /\ who[d] # None}}
IsTable(R) == \A r, q \in R : r.jid = q.jid => r = q

\* PingBack.updateSessions assigns remoteSessions without the monitor.
UpdateSessions(s) ==
  /\ \E R \in SUBSET Exports(s) :
       /\ IsTable(R)
       /\ {r.jid : r \in R} = {r.jid : r \in Exports(s)}
       /\ remote' = [remote EXCEPT ![s] = R]
  /\ UNCHANGED <<table, lock, stack, alive, history>>

-----------------------------------------------------------------------------
Init ==
  /\ sessions = {}
  /\ who = [c \in Conn |-> None]
  /\ res = [c \in Conn |-> None]
  /\ sock = [c \in Conn |-> "new"]
  /\ remote = [s \in Server |-> {}]
  /\ lock = [s \in Server |-> None]
  /\ stack = [t \in Thread |-> <<>>]
  /\ alive = [t \in Thread |-> TRUE]
  /\ sent = [m \in Msg |-> None]
  /\ owed = [m \in Msg |-> {}]
  /\ missed = [m \in Msg |-> {}]
  /\ bounced = [m \in Msg |-> {}]
  /\ written = [c \in Conn |-> [m \in Msg |-> 0]]

Stanzas(c) ==
  \/ Accept(c) \/ Login(c) \/ Bind(c) \/ Presence(c)
  \/ Unavailable(c) \/ StreamEnd(c) \/ EndOfFile(c)
  \/ \E m \in Msg, to \in Targets : Message(c, m, to)

Next ==
  \/ \E t \in Thread : Step(t)
  \/ \E c \in Conn : Stanzas(c) \/ PeerVanishes(c)
  \/ \E s \in Server : UpdateSessions(s)

Spec == Init /\ [][Next]_vars
\* A thread that is in a call goes on with it.
FairSpec == Spec /\ \A t \in Thread : WF_vars(Step(t))

-----------------------------------------------------------------------------
(* Properties.                                                             *)

Inside ==  \* frames that run holding the monitor of their server
       [op : {"send"}, at : Server, call : Call]
  \cup [op : {"writes"}, at : Server, call : Call, left : SUBSET Conn]
  \cup [op : {"delivers"}, at : Server, call : Call, left : SUBSET Route]
  \cup [op : {"destroy", "shut"}, at : Server, conn : Conn]
  \cup [op : {"tell"}, at : Server, what : Stanza, left : SUBSET User]
  \cup [op : {"unlock"}, at : Server]
Outside ==
       [op : {"sync"}, at : Server, body : Inside]
  \cup [op : {"broadcast"}, at : Server, what : Stanza, left : SUBSET User]
  \cup [op : {"probe"}, at : Server, conn : Conn, left : SUBSET User]
Frame == Inside \cup Outside

\* Every variable has its type; in particular a running call holds arguments
\* its callee accepts.
TypeOK ==
  /\ sessions \subseteq Conn
  /\ who \in [Conn -> User \cup {None}]
  /\ res \in [Conn -> Resource \cup {None}]
  /\ sock \in [Conn -> {"new", "open", "broken", "closed"}]
  /\ remote \in [Server -> SUBSET Route]
  /\ lock \in [Server -> Thread \cup {None}]
  /\ stack \in [Thread -> Seq(Frame)]
  /\ alive \in [Thread -> BOOLEAN]
  /\ sent \in [Msg -> [from : Conn, to : Jid] \cup {None}]
  /\ owed \in [Msg -> SUBSET Conn]
  /\ missed \in [Msg -> SUBSET Conn]
  /\ bounced \in [Msg -> SUBSET Conn]
  /\ written \in [Conn -> [Msg -> Nat]]

\* The handler that sent m has returned.
Sent(m) == sent[m] # None /\ stack[Client[sent[m].from].thread] = <<>>

\* Once a message has been sent, every session it was for has had it written
\* to its channel, or is no longer in the table: no session that is still
\* listed has silently missed it (send, closeSession).
ServedOrPurged ==
  \A m \in Msg : Sent(m) =>
    \A c \in owed[m] : written[c][m] > 0 \/ c \notin sessions

\* When the write of a message fails on the sender's own server, the sender
\* has been written an error by the time the message is sent, unless it is
\* itself no longer in the table (errorNotification in send).
FailureReported ==
  \A m \in Msg : Sent(m) =>
    \A c \in missed[m] :
      LET from == sent[m].from
      IN At(c) = At(from) => from \in bounced[m] \/ from \notin sessions

\* A send works on the list of channels it took before the first write, while
\* the calls it makes remove sessions from the table.  No message is written
\* to the channel of a session that was removed meanwhile: the destruction of
\* a session closes its channel before the send goes on.
NoWriteAfterRemoval ==
  [][\A c \in Conn : written'[c] # written[c] => c \in sessions]_vars

\* A failed write destroys a session in the middle of a send, which sends and
\* may fail again.  A session is never destroyed inside its own destruction,
\* so the recursion is at most as deep as the table is long.
CascadeBounded ==
  \A t \in Thread : \A i, j \in DOMAIN stack[t] :
    i # j /\ stack[t][i].op = "shut" /\ stack[t][j].op = "shut"
      => stack[t][i].conn # stack[t][j].conn

\* A message for a full jid is written at most once to a channel, whatever
\* servers it is relayed through and however old their tables are, unless the
\* jid is the beginning of another one: getForeignChannels then has an entry for
\* each, and a server that has both in it is delivered to twice.
FullJidOnce ==
  \A m \in Msg : sent[m] # None /\ Sole(sent[m].to) =>
    \A c \in Conn : written[c][m] <= 1

\* The frame f is a send, about to take the monitor or inside it.
Sends(f) == f.op \in {"send", "writes", "delivers"} \/ (f.op = "sync" /\ f.body.op = "send")
CallOf(f) == IF f.op = "sync" THEN f.body.call ELSE f.call
\* It is part of the delivery of the message m.
Carries(f, m) == Sends(f) /\ CallOf(f).what.kind = "chat" /\ CallOf(f).what.msg = m

PhaseOf(c) == IF c \in sessions THEN "listed" ELSE IF sock[c] = "new" THEN "new" ELSE "gone"
Underway == {m \in Msg : \E t \in Thread : \E i \in DOMAIN stack[t] : Carries(stack[t][i], m)}

\* Whatever calls what, on whatever server and thread: together the servers do
\* for each message what Delivery promises, and no more (send, closeSession).
Promised == INSTANCE Delivery WITH
  phase <- [c \in Conn |-> PhaseOf(c)], jid <- [c \in Conn |-> JidOf(c)], underway <- Underway,
  Place <- [c \in Conn |-> At(c)], Reliable <- Faulty = {}
Delivered == Promised!Spec

\* Every handler returns: each thread gets back to its loop.
HandlersReturn == \A t \in Thread : stack[t] # <<>> ~> stack[t] = <<>>
=============================================================================
