------------------------ MODULE SessionManagerProofs ------------------------
(***************************************************************************)
(* Proofs about SessionManager, for any servers, threads, clients, rosters *)
(* and messages: its type invariant, and that no message is written to the *)
(* channel of a session that has left the table.                           *)
(***************************************************************************)
EXTENDS SessionManager, SequenceTheorems, TLAPS

-----------------------------------------------------------------------------
(* Replacing the first element of a sequence by several.                   *)

LEMMA ReplaceHead ==
  ASSUME NEW S, NEW st \in Seq(S), st # <<>>, NEW fs \in Seq(S)
  PROVE  /\ fs \o Tail(st) \in Seq(S)
         /\ Len(fs \o Tail(st)) = Len(fs) + Len(st) - 1
         /\ \A i \in 1..Len(fs \o Tail(st)) :
              /\ i <= Len(fs) => (fs \o Tail(st))[i] = fs[i]
              /\ i > Len(fs) => /\ i - Len(fs) + 1 \in 2..Len(st)
                                /\ (fs \o Tail(st))[i] = st[i - Len(fs) + 1]
         /\ Head(st) = st[1] /\ Head(st) \in S /\ Len(st) \in Nat /\ Len(st) >= 1
  OBVIOUS

LEMMA ShortSequences ==
  ASSUME NEW S
  PROVE  /\ <<>> \in Seq(S)
         /\ \A a \in S : <<a>> \in Seq(S)
         /\ \A a, b \in S : <<a, b>> \in Seq(S)
         /\ \A p, q \in Seq(S) : p \o q \in Seq(S)
  OBVIOUS

LEMMA CountType ==
  ASSUME NEW S, NEW g \in [S -> Nat], NEW x
  PROVE  [g EXCEPT ![x] = @ + 1] \in [S -> Nat]
<1>1. \A y \in S : [g EXCEPT ![x] = @ + 1][y] = IF y = x THEN g[y] + 1 ELSE g[y]
  OBVIOUS
<1>2. \A y \in S : g[y] \in Nat /\ g[y] + 1 \in Nat  OBVIOUS
<1> QED  BY <1>1, <1>2

LEMMA PairConcat ==
  ASSUME NEW S, NEW a \in S, NEW b \in S
  PROVE  <<a>> \o <<b>> = <<a, b>>
<1>1. <<a>> \in Seq(S) /\ <<b>> \in Seq(S) /\ <<a, b>> \in Seq(S)  BY ShortSequences
<1>2. <<a>> \o <<b>> \in Seq(S)  BY <1>1
<1>3. Len(<<a>> \o <<b>>) = 2 /\ Len(<<a, b>>) = 2  BY <1>1
<1>4. \A i \in 1..2 : (<<a>> \o <<b>>)[i] = <<a, b>>[i]  BY <1>1
<1> QED  BY <1>1, <1>2, <1>3, <1>4, SeqEqual

-----------------------------------------------------------------------------
(* The frames the model builds are frames.                                 *)

LEMMA FrameTypes ==
  ASSUME NEW s \in Server, NEW call \in Call, NEW what \in Stanza
  PROVE  /\ \A to \in Jid, n \in BOOLEAN : SendFrame(s, to, what, n) \in Inside
         /\ \A left \in SUBSET Conn : WritesFrame(s, call, left) \in Inside
         /\ \A left \in SUBSET Route : DeliversFrame(s, call, left) \in Inside
         /\ \A left \in SUBSET User : TellFrame(s, what, left) \in Inside
         /\ \A left \in SUBSET User : BroadcastFrame(s, what, left) \in Outside
         /\ UnlockFrame(s) \in Inside
  BY DEF SendFrame, WritesFrame, DeliversFrame, TellFrame, BroadcastFrame, UnlockFrame,
         Inside, Outside, Call

LEMMA ConnTypes ==
  ASSUME NEW c \in Conn
  PROVE  /\ At(c) \in Server /\ Client[c].thread \in Thread
         /\ Client[c].user \in User /\ Client[c].res \in Resource
         /\ DestroyFrame(c) \in Inside
         /\ ShutFrame(c) \in Inside
         /\ \A left \in SUBSET User : ProbeFrame(c, left) \in Outside
  BY ClientAssumption DEF At, DestroyFrame, ShutFrame, ProbeFrame, Inside, Outside

LEMMA SyncType ==
  ASSUME NEW f \in Inside
  PROVE  SyncFrame(f) \in Outside /\ f.at \in Server
  BY DEF SyncFrame, Inside, Outside

\* What a frame holds, by the call it stands for.
LEMMA FrameFields ==
  ASSUME NEW f \in Frame
  PROVE  /\ f.at \in Server
         /\ f.op = "send" => f.call \in Call
         /\ f.op = "writes" => f.call \in Call /\ f.left \in SUBSET Conn
         /\ f.op = "delivers" => f.call \in Call /\ f.left \in SUBSET Route
         /\ f.op \in {"destroy", "shut"} => f.conn \in Conn
         /\ f.op \in {"tell", "broadcast"} => f.what \in Stanza /\ f.left \in SUBSET User
         /\ f.op = "probe" => f.conn \in Conn /\ f.left \in SUBSET User
         /\ f.op = "sync" => f.body \in Inside
  BY DEF Frame, Inside, Outside

LEMMA JidTypes ==
  ASSUME TypeOK
  PROVE  /\ \A c \in Conn : JidOf(c) \in Jid
         /\ \A u \in User : Bare(u) \in Jid
         /\ \A s, jid : Matching(s, jid) \in SUBSET Conn
  BY DEF TypeOK, JidOf, Bare, Jid, Matching

LEMMA StanzaTypes ==
  ASSUME NEW jid \in Jid
  PROVE  /\ Online(jid) \in Stanza /\ Offline(jid) \in Stanza
         /\ \A m \in Msg : Chat(m, jid) \in Stanza
         /\ \A st \in Stanza : ErrorOf(st) \in Stanza
  BY DEF Online, Offline, Chat, ErrorOf, Stanza

-----------------------------------------------------------------------------
(* Type correctness.                                                       *)

LEMMA ReturnType ==
  ASSUME TypeOK, NEW t \in Thread, stack[t] # <<>>,
         NEW fs \in Seq(Frame), Return(t, fs)
  PROVE  stack' \in [Thread -> Seq(Frame)]
<1>1. stack[t] \in Seq(Frame)  BY DEF TypeOK
<1>2. fs \o Tail(stack[t]) \in Seq(Frame)  BY <1>1, ReplaceHead
<1> QED  BY <1>2 DEF TypeOK, Return

LEMMA TopType ==
  ASSUME TypeOK, NEW t \in Thread, stack[t] # <<>>
  PROVE  Top(t) \in Frame /\ Top(t) = stack[t][1] /\ Len(stack[t]) >= 1
BY DEF TypeOK, Top

LEMMA CloseSessionType ==
  ASSUME NEW c \in Conn
  PROVE  CloseSession(c) \in Seq(Frame)
BY ConnTypes, ShortSequences DEF CloseSession, Frame

LEMMA NotifyType ==
  ASSUME NEW s \in Server, NEW call \in Call
  PROVE  Notify(s, call) \in Seq(Frame)
<1>1. call.what \in Stanza /\ call.what.from \in Jid  BY DEF Call, Stanza
<1>2. ErrorOf(call.what) \in Stanza  BY <1>1, StanzaTypes
<1>3. SendFrame(s, call.what.from, ErrorOf(call.what), FALSE) \in Frame
  BY <1>1, <1>2, FrameTypes DEF Frame
<1> QED  BY <1>3, ShortSequences DEF Notify

-----------------------------------------------------------------------------
(* What a running call is replaced by.                                     *)

IsInside(f) == f.op \notin {"sync", "broadcast", "probe"}

\* A frame runs on the server of the connections it is about.
InPlace(f) ==
  /\ f.op = "writes" => \A c \in f.left : At(c) = f.at
  /\ f.op \in {"destroy", "shut"} => At(f.conn) = f.at
  /\ f.op = "sync" => /\ f.body.op \in {"send", "destroy"}
                      /\ f.body.at = f.at
                      /\ f.body.op = "destroy" => At(f.body.conn) = f.at

\* The call f goes on as the call g: on the same server, in the same monitor,
\* and, if it writes, to channels of listed sessions or to those f had left.
Continues(f, g) ==
  /\ g.op # "unlock"
  /\ InPlace(f) => InPlace(g) /\ (IsInside(g) => IsInside(f) /\ g.at = f.at)
  /\ g.op = "writes" => \/ g.left \subseteq sessions
                        \/ f.op = "writes" /\ g.left \subseteq f.left
AllContinue(f, fs) == \A k \in 1..Len(fs) : Continues(f, fs[k])

LEMMA ShortContinue ==
  ASSUME NEW f
  PROVE  /\ AllContinue(f, <<>>)
         /\ \A a \in Frame : Continues(f, a) => AllContinue(f, <<a>>)
         /\ \A a, b \in Frame : Continues(f, a) /\ Continues(f, b) => AllContinue(f, <<a, b>>)
BY DEF AllContinue

LEMMA ConcatContinue ==
  ASSUME NEW f, NEW p \in Seq(Frame), NEW q \in Seq(Frame),
         AllContinue(f, p), AllContinue(f, q)
  PROVE  AllContinue(f, p \o q)
BY DEF AllContinue

LEMMA CloseSessionContinues ==
  ASSUME NEW c \in Conn, NEW f \in Frame, f.op = "writes", c \in f.left
  PROVE  AllContinue(f, CloseSession(c))
<1>1. Continues(f, DestroyFrame(c))  BY DEF Continues, InPlace, IsInside, DestroyFrame
<1>2. DestroyFrame(c) \in Frame  BY ConnTypes DEF Frame
<1> QED  BY <1>1, <1>2, ShortContinue DEF CloseSession

LEMMA NotifyContinues ==
  ASSUME NEW f \in Frame, f.op \in {"writes", "delivers"}
  PROVE  AllContinue(f, Notify(f.at, f.call))
<1> DEFINE g == SendFrame(f.at, f.call.what.from, ErrorOf(f.call.what), FALSE)
<1>1. Continues(f, g)  BY DEF Continues, InPlace, IsInside, SendFrame
<1>2. f.at \in Server /\ f.call \in Call  BY FrameFields
<1>3. g \in Frame
  <2>1. f.call.what \in Stanza /\ f.call.what.from \in Jid  BY <1>2 DEF Call, Stanza
  <2> QED  BY <1>2, <2>1, StanzaTypes, FrameTypes DEF Frame
<1> QED  BY <1>1, <1>3, ShortContinue DEF Notify

\* The frames a running call is replaced by, for every call.
LEMMA StepFrames ==
  ASSUME TypeOK, NEW t \in Thread, Step(t)
  PROVE  /\ stack[t] # <<>>
         /\ \E fs \in Seq(Frame) :
              /\ Return(t, fs)
              /\ EnterMonitor(t) \/ AllContinue(Top(t), fs)
<1> USE DEF Running
<1>0. stack[t] # <<>>
  BY DEF Step, EnterMonitor, LeaveMonitor, GetOutChannels, Write, WriteFails,
     GetForeignChannels, Deliver, DeliverFails, SendReturns, DestroySession,
     TellFriend, AllTold, CloseChannel, Probe, Broadcast, LoopEnds
<1> DEFINE f == Top(t)
<1>f. f \in Frame /\ f.at \in Server  BY <1>0, TopType, FrameFields
<1>e. <<>> \in Seq(Frame)  BY ShortSequences
<1>c. AllContinue(f, <<>>)  BY ShortContinue
<1> SUFFICES \E fs \in Seq(Frame) :
                Return(t, fs) /\ (EnterMonitor(t) \/ AllContinue(f, fs))
  BY <1>0
<1> HIDE DEF f
<1>1. CASE EnterMonitor(t)
  <2>1. f.body \in Frame /\ UnlockFrame(f.at) \in Frame
    BY <1>1, <1>f, FrameFields DEF EnterMonitor, UnlockFrame, Frame, Inside, f
  <2>2. <<f.body, UnlockFrame(f.at)>> \in Seq(Frame)  BY <2>1, ShortSequences
  <2> QED  BY <1>1, <2>2 DEF EnterMonitor, f
<1>2. CASE LeaveMonitor(t)  BY <1>2, <1>e, <1>c DEF LeaveMonitor
<1>3. CASE GetOutChannels(t)
  <2>1. f.call \in Call /\ Matching(f.at, f.call.to) \in SUBSET Conn
    BY <1>3, <1>f, FrameFields, JidTypes DEF GetOutChannels, f
  <2>2. WritesFrame(f.at, f.call, Matching(f.at, f.call.to)) \in Frame
    BY <1>f, <2>1 DEF WritesFrame, Frame, Inside
  <2>3. Continues(f, WritesFrame(f.at, f.call, Matching(f.at, f.call.to)))
    BY <1>3 DEF Continues, InPlace, IsInside, WritesFrame, Matching, GetOutChannels, f
  <2>4. AllContinue(f, <<WritesFrame(f.at, f.call, Matching(f.at, f.call.to))>>)
    BY <2>2, <2>3, ShortContinue
  <2>5. <<WritesFrame(f.at, f.call, Matching(f.at, f.call.to))>> \in Seq(Frame)
    BY <2>2, ShortSequences
  <2> QED  BY <1>3, <2>4, <2>5 DEF GetOutChannels, f
<1>4. CASE Write(t)
  <2>1. f.call \in Call /\ f.left \in SUBSET Conn
    BY <1>4, <1>f, FrameFields DEF Write, f
  <2>2. PICK c \in f.left : Return(t, <<WritesFrame(f.at, f.call, f.left \ {c})>>)
    BY <1>4 DEF Write, f
  <2>3. WritesFrame(f.at, f.call, f.left \ {c}) \in Frame
    BY <1>f, <2>1 DEF WritesFrame, Frame, Inside
  <2>4. Continues(f, WritesFrame(f.at, f.call, f.left \ {c}))
    BY <1>4 DEF Continues, InPlace, IsInside, WritesFrame, Write, f
  <2> QED  BY <2>2, <2>3, <2>4, ShortSequences, ShortContinue
<1>5. CASE WriteFails(t)
  <2>1. f.call \in Call /\ f.left \in SUBSET Conn
    BY <1>5, <1>f, FrameFields DEF WriteFails, f
  <2>2. PICK c \in f.left :
          Return(t, CloseSession(c) \o Notify(f.at, f.call)
                      \o <<WritesFrame(f.at, f.call, f.left \ {c})>>)
    BY <1>5 DEF WriteFails, f
  <2>3. WritesFrame(f.at, f.call, f.left \ {c}) \in Frame
    BY <1>f, <2>1 DEF WritesFrame, Frame, Inside
  <2>4. CloseSession(c) \in Seq(Frame) /\ Notify(f.at, f.call) \in Seq(Frame)
    BY <1>f, <2>1, CloseSessionType, NotifyType
  <2>5. f.op = "writes" /\ c \in Conn  BY <1>5, <2>1, <2>2 DEF WriteFails, f
  <2>6. Continues(f, WritesFrame(f.at, f.call, f.left \ {c}))
    BY <2>5 DEF Continues, InPlace, IsInside, WritesFrame
  <2> DEFINE last == <<WritesFrame(f.at, f.call, f.left \ {c})>>
             both == CloseSession(c) \o Notify(f.at, f.call)
  <2>7. last \in Seq(Frame) /\ AllContinue(f, last)
    BY <2>3, <2>6, ShortSequences, ShortContinue
  <2>8. both \in Seq(Frame) /\ AllContinue(f, both)
    BY <1>f, <2>4, <2>5, CloseSessionContinues, NotifyContinues, ConcatContinue, ShortSequences
  <2> HIDE DEF both, last
  <2>9. both \o last \in Seq(Frame) /\ AllContinue(f, both \o last)
    BY <2>7, <2>8, ConcatContinue, ShortSequences
  <2> QED  BY <2>2, <2>9 DEF both, last
<1>6. CASE GetForeignChannels(t)
  <2>1. f.call \in Call /\ f.at \in Server /\ remote[f.at] \in SUBSET Route
    BY <1>6, <1>f, FrameFields DEF GetForeignChannels, TypeOK, f
  <2>2. DeliversFrame(f.at, f.call, {r \in remote[f.at] : StartsWith(r.jid, f.call.to)}) \in Frame
    BY <2>1 DEF DeliversFrame, Frame, Inside
  <2>3. Continues(f, DeliversFrame(f.at, f.call,
                        {r \in remote[f.at] : StartsWith(r.jid, f.call.to)}))
    BY <1>6 DEF Continues, InPlace, IsInside, DeliversFrame, GetForeignChannels, f
  <2> QED  BY <1>6, <2>2, <2>3, ShortSequences, ShortContinue DEF GetForeignChannels, f
<1>7. CASE Deliver(t)
  <2>1. f.call \in Call /\ f.left \in SUBSET Route
    BY <1>7, <1>f, FrameFields DEF Deliver, f
  <2>2. PICK r \in f.left :
          Return(t, <<SyncFrame(SendFrame(r.at, f.call.to, f.call.what, FALSE)),
                      DeliversFrame(f.at, f.call, f.left \ {r})>>)
    BY <1>7 DEF Deliver, f
  <2>3. DeliversFrame(f.at, f.call, f.left \ {r}) \in Frame
    BY <1>f, <2>1 DEF DeliversFrame, Frame, Inside
  <2>4. r.at \in Server /\ f.call.to \in Jid /\ f.call.what \in Stanza
    BY <2>1 DEF Call, Route
  <2>5. SyncFrame(SendFrame(r.at, f.call.to, f.call.what, FALSE)) \in Frame
    BY <2>4, <2>1, FrameTypes, SyncType DEF Frame
  <2>6. Continues(f, DeliversFrame(f.at, f.call, f.left \ {r}))
    BY <1>7 DEF Continues, InPlace, IsInside, DeliversFrame, Deliver, f
  <2>7. Continues(f, SyncFrame(SendFrame(r.at, f.call.to, f.call.what, FALSE)))
    BY DEF Continues, InPlace, IsInside, SyncFrame, SendFrame
  <2> QED  BY <2>2, <2>3, <2>5, <2>6, <2>7, ShortSequences, ShortContinue
<1>8. CASE DeliverFails(t)
  <2>1. f.call \in Call /\ f.left \in SUBSET Route
    BY <1>8, <1>f, FrameFields DEF DeliverFails, f
  <2>2. PICK r \in f.left :
          Return(t, Notify(f.at, f.call) \o <<DeliversFrame(f.at, f.call, f.left \ {r})>>)
    BY <1>8 DEF DeliverFails, f
  <2>3. DeliversFrame(f.at, f.call, f.left \ {r}) \in Frame
    BY <1>f, <2>1 DEF DeliversFrame, Frame, Inside
  <2>4. Notify(f.at, f.call) \in Seq(Frame)  BY <1>f, <2>1, NotifyType
  <2>5. f.op = "delivers"  BY <1>8 DEF DeliverFails, f
  <2>6. Continues(f, DeliversFrame(f.at, f.call, f.left \ {r}))
    BY <2>5 DEF Continues, InPlace, IsInside, DeliversFrame
  <2> DEFINE last == <<DeliversFrame(f.at, f.call, f.left \ {r})>>
  <2>7. last \in Seq(Frame) /\ AllContinue(f, last)
    BY <2>3, <2>6, ShortSequences, ShortContinue
  <2> HIDE DEF last
  <2>8. /\ Notify(f.at, f.call) \o last \in Seq(Frame)
        /\ AllContinue(f, Notify(f.at, f.call) \o last)
    BY <1>f, <2>4, <2>5, <2>7, NotifyContinues, ConcatContinue, ShortSequences
  <2> QED  BY <2>2, <2>8 DEF last
<1>9. CASE SendReturns(t)  BY <1>9, <1>e, <1>c DEF SendReturns
<1>10. CASE DestroySession(t)
  <2> DEFINE c == f.conn
             told == IF Cardinality(OthersLeft(c)) = 1
                     THEN Friends(who[c], {"none", "to", "from", "both"}) ELSE {}
  <2>1. c \in Conn  BY <1>10, <1>f, FrameFields DEF DestroySession, f
  <2>2. told \in SUBSET User  BY DEF Friends
  <2>3. Offline(JidOf(c)) \in Stanza  BY <2>1, JidTypes, StanzaTypes
  <2>4. At(c) \in Server /\ ShutFrame(c) \in Frame  BY <2>1, ConnTypes DEF Frame
  <2>5. TellFrame(At(c), Offline(JidOf(c)), told) \in Frame
    BY <2>2, <2>3, <2>4 DEF TellFrame, Frame, Inside
  <2>6. f.op = "destroy"  BY <1>10 DEF DestroySession, f
  <2>7. Continues(f, TellFrame(At(c), Offline(JidOf(c)), told))
    BY <2>6 DEF Continues, InPlace, IsInside, TellFrame
  <2>8. Continues(f, ShutFrame(c))
    BY <2>6 DEF Continues, InPlace, IsInside, ShutFrame
  <2> QED  BY <1>10, <2>4, <2>5, <2>7, <2>8, ShortSequences, ShortContinue DEF DestroySession, f
<1>11. CASE TellFriend(t)
  <2>1. f.what \in Stanza /\ f.left \in SUBSET User
    BY <1>11, <1>f, FrameFields DEF TellFriend, f
  <2>2. PICK u \in f.left : Return(t, <<SendFrame(f.at, Bare(u), f.what, FALSE),
                                        TellFrame(f.at, f.what, f.left \ {u})>>)
    BY <1>11 DEF TellFriend, f
  <2>3. TellFrame(f.at, f.what, f.left \ {u}) \in Frame
    BY <1>f, <2>1 DEF TellFrame, Frame, Inside
  <2>4. SendFrame(f.at, Bare(u), f.what, FALSE) \in Frame
    BY <1>f, <2>1, JidTypes DEF SendFrame, Call, Frame, Inside
  <2>5. Continues(f, TellFrame(f.at, f.what, f.left \ {u}))
    BY <1>11 DEF Continues, InPlace, IsInside, TellFrame, TellFriend, f
  <2>6. Continues(f, SendFrame(f.at, Bare(u), f.what, FALSE))
    BY <1>11 DEF Continues, InPlace, IsInside, SendFrame, TellFriend, f
  <2> QED  BY <2>2, <2>3, <2>4, <2>5, <2>6, ShortSequences, ShortContinue
<1>12. CASE AllTold(t)  BY <1>12, <1>e, <1>c DEF AllTold
<1>13. CASE CloseChannel(t)  BY <1>13, <1>e, <1>c DEF CloseChannel
<1>14. CASE Probe(t)
  <2> DEFINE c == f.conn
             sync(u) == SyncFrame(SendFrame(At(c), JidOf(c), Online(Bare(u)), FALSE))
  <2>1. c \in Conn /\ f.left \in SUBSET User
    BY <1>14, <1>f, FrameFields DEF Probe, f
  <2>2. PICK u \in f.left :
          Return(t, (IF Matching(At(c), Bare(u)) # {} THEN <<sync(u)>> ELSE <<>>)
                      \o <<ProbeFrame(c, f.left \ {u})>>)
    BY <1>14 DEF Probe, f
  <2>3. ProbeFrame(c, f.left \ {u}) \in Frame  BY <2>1, ConnTypes DEF Frame
  <2>4. At(c) \in Server /\ JidOf(c) \in Jid /\ Online(Bare(u)) \in Stanza
    BY <2>1, ConnTypes, JidTypes, StanzaTypes
  <2>5. SendFrame(At(c), JidOf(c), Online(Bare(u)), FALSE) \in Inside
    BY <2>4 DEF SendFrame, Inside, Call
  <2>6. sync(u) \in Frame  BY <2>5, SyncType DEF Frame
  <2>7. Continues(f, sync(u))
    BY DEF Continues, InPlace, IsInside, SyncFrame, SendFrame, sync
  <2>8. Continues(f, ProbeFrame(c, f.left \ {u}))
    BY DEF Continues, InPlace, IsInside, ProbeFrame
  <2> DEFINE first == IF Matching(At(c), Bare(u)) # {} THEN <<sync(u)>> ELSE <<>>
             last == <<ProbeFrame(c, f.left \ {u})>>
  <2>9. first \in Seq(Frame) /\ AllContinue(f, first)
    BY <2>6, <2>7, <1>c, <1>e, ShortSequences, ShortContinue
  <2>10. last \in Seq(Frame) /\ AllContinue(f, last)
    BY <2>3, <2>8, ShortSequences, ShortContinue
  <2>11. Return(t, first \o last)  BY <2>2
  <2> HIDE DEF first, last
  <2>12. first \o last \in Seq(Frame) /\ AllContinue(f, first \o last)
    BY <2>9, <2>10, ConcatContinue, ShortSequences
  <2> QED  BY <2>11, <2>12
<1>15. CASE Broadcast(t)
  <2>1. f.what \in Stanza /\ f.left \in SUBSET User
    BY <1>15, <1>f, FrameFields DEF Broadcast, f
  <2>2. PICK u \in f.left : Return(t, <<SyncFrame(SendFrame(f.at, Bare(u), f.what, FALSE)),
                                        BroadcastFrame(f.at, f.what, f.left \ {u})>>)
    BY <1>15 DEF Broadcast, f
  <2>3. BroadcastFrame(f.at, f.what, f.left \ {u}) \in Frame
    BY <1>f, <2>1 DEF BroadcastFrame, Frame, Outside
  <2>4. SendFrame(f.at, Bare(u), f.what, FALSE) \in Inside
    BY <1>f, <2>1, JidTypes DEF SendFrame, Call, Inside
  <2>5. SyncFrame(SendFrame(f.at, Bare(u), f.what, FALSE)) \in Frame
    BY <2>4, SyncType DEF Frame
  <2>6. Continues(f, BroadcastFrame(f.at, f.what, f.left \ {u}))
    BY DEF Continues, InPlace, IsInside, BroadcastFrame
  <2>7. Continues(f, SyncFrame(SendFrame(f.at, Bare(u), f.what, FALSE)))
    BY DEF Continues, InPlace, IsInside, SyncFrame, SendFrame
  <2> QED  BY <2>2, <2>3, <2>5, <2>6, <2>7, ShortSequences, ShortContinue
<1>16. CASE LoopEnds(t)  BY <1>16, <1>e, <1>c DEF LoopEnds
<1> QED
  BY <1>1, <1>2, <1>3, <1>4, <1>5, <1>6, <1>7, <1>8, <1>9, <1>10, <1>11, <1>12,
     <1>13, <1>14, <1>15, <1>16 DEF Step

LEMMA StepType ==
  ASSUME TypeOK, NEW t \in Thread, Step(t)
  PROVE  stack' \in [Thread -> Seq(Frame)]
BY StepFrames, ReturnType

\* The other variables, which few steps change.
LEMMA StepTypeRest ==
  ASSUME TypeOK, NEW t \in Thread, Step(t)
  PROVE  TypeOK'
<1> USE DEF Running, table, history
<1>0. stack' \in [Thread -> Seq(Frame)]  BY StepType
<1>a. stack[t] # <<>> => Top(t) \in Frame  BY TopType
<1>1. CASE EnterMonitor(t)  BY <1>0, <1>1 DEF EnterMonitor, TypeOK
<1>2. CASE LeaveMonitor(t)  BY <1>0, <1>2 DEF LeaveMonitor, TypeOK
<1>3. CASE GetOutChannels(t)
  <2>1. Matching(Top(t).at, Top(t).call.to) \in SUBSET Conn
    BY JidTypes
  <2>2. owed' \in [Msg -> SUBSET Conn]
    BY <1>3, <2>1 DEF GetOutChannels, TypeOK
  <2> QED  BY <1>0, <1>3, <2>2 DEF GetOutChannels, TypeOK
<1>4. CASE Write(t)
  <2> DEFINE what == Top(t).call.what
  <2>1. PICK c \in Top(t).left :
          /\ written' = IF what.kind = "chat"
                        THEN [written EXCEPT ![c][what.msg] = @ + 1] ELSE written
          /\ bounced' = IF what.kind = "error"
                        THEN [bounced EXCEPT ![what.msg] = @ \cup {c}] ELSE bounced
    BY <1>4 DEF Write
  <2>2. c \in Conn  BY <1>4, <1>a, FrameFields DEF Write
  <2> DEFINE counts == [written[c] EXCEPT ![what.msg] = @ + 1]
  <2>3. written[c] \in [Msg -> Nat]  BY <2>2 DEF TypeOK
  <2>4. counts \in [Msg -> Nat]  BY <2>3, CountType
  <2>5. [written EXCEPT ![c] = counts] \in [Conn -> [Msg -> Nat]]  BY <2>4 DEF TypeOK
  <2>6. written' \in [Conn -> [Msg -> Nat]]  BY <2>1, <2>5 DEF TypeOK
  <2>7. bounced' \in [Msg -> SUBSET Conn]  BY <2>1, <2>2 DEF TypeOK
  <2> QED  BY <1>0, <1>4, <2>6, <2>7 DEF Write, TypeOK
<1>5. CASE WriteFails(t)
  <2>1. PICK c \in Top(t).left :
          missed' = IF Top(t).call.what.kind = "chat"
                    THEN [missed EXCEPT ![Top(t).call.what.msg] = @ \cup {c}] ELSE missed
    BY <1>5 DEF WriteFails
  <2>2. c \in Conn  BY <1>5, <1>a, FrameFields DEF WriteFails
  <2>3. missed' \in [Msg -> SUBSET Conn]  BY <2>1, <2>2 DEF TypeOK
  <2> QED  BY <1>0, <1>5, <2>3 DEF WriteFails, TypeOK
<1>6. CASE GetForeignChannels(t)  BY <1>0, <1>6 DEF GetForeignChannels, TypeOK
<1>7. CASE Deliver(t)  BY <1>0, <1>7 DEF Deliver, TypeOK
<1>8. CASE DeliverFails(t)  BY <1>0, <1>8 DEF DeliverFails, TypeOK
<1>9. CASE SendReturns(t)  BY <1>0, <1>9 DEF SendReturns, TypeOK
<1>10. CASE DestroySession(t)  BY <1>0, <1>10 DEF DestroySession, TypeOK
<1>11. CASE TellFriend(t)  BY <1>0, <1>11 DEF TellFriend, TypeOK
<1>12. CASE AllTold(t)  BY <1>0, <1>12 DEF AllTold, TypeOK
<1>13. CASE CloseChannel(t)  BY <1>0, <1>13 DEF CloseChannel, TypeOK
<1>14. CASE Probe(t)  BY <1>0, <1>14 DEF Probe, TypeOK
<1>15. CASE Broadcast(t)  BY <1>0, <1>15 DEF Broadcast, TypeOK
<1>16. CASE LoopEnds(t)  BY <1>0, <1>16 DEF LoopEnds, TypeOK
<1> QED
  BY <1>1, <1>2, <1>3, <1>4, <1>5, <1>6, <1>7, <1>8, <1>9, <1>10, <1>11, <1>12,
     <1>13, <1>14, <1>15, <1>16 DEF Step

\* A handler starts with frames that take the monitor when they need it.
StartFrames(fs) ==
  /\ fs \in Seq(Frame)
  /\ \A i \in DOMAIN fs :
       /\ fs[i].op \in {"sync", "broadcast", "probe"}
       /\ fs[i].op = "sync" => /\ fs[i].body.op \in {"send", "destroy"}
                               /\ fs[i].body.at = fs[i].at
                               /\ fs[i].body.op = "destroy" => At(fs[i].body.conn) = fs[i].at

LEMMA StartSync ==
  ASSUME NEW body \in Inside, body.op \in {"send", "destroy"},
         body.op = "destroy" => At(body.conn) = body.at
  PROVE  StartFrames(<<SyncFrame(body)>>)
<1>1. SyncFrame(body) \in Frame  BY SyncType DEF Frame
<1>2. <<SyncFrame(body)>> \in Seq(Frame)  BY <1>1, ShortSequences
<1> QED  BY <1>2 DEF StartFrames, SyncFrame

LEMMA StartConcat ==
  ASSUME NEW p, NEW q, StartFrames(p), StartFrames(q)
  PROVE  StartFrames(p \o q)
BY DEF StartFrames

LEMMA StanzaStep ==
  ASSUME TypeOK, NEW c \in Conn, Stanzas(c)
  PROVE  \/ UNCHANGED stack
         \/ /\ stack[Client[c].thread] = <<>>
            /\ \E fs : StartFrames(fs) /\ Start(c, fs)
<1> DEFINE destroy == <<SyncFrame(DestroyFrame(c))>>
           broadcast(what) == BroadcastFrame(At(c), what, Friends(who[c], {"from", "both"}))
<1>0. /\ At(c) \in Server /\ JidOf(c) \in Jid
      /\ Online(JidOf(c)) \in Stanza /\ Offline(JidOf(c)) \in Stanza
      /\ \A subs : Friends(who[c], subs) \in SUBSET User
  BY ConnTypes, JidTypes, StanzaTypes DEF Friends
<1>1. StartFrames(destroy)
  BY ConnTypes, StartSync DEF DestroyFrame
<1>2. ASSUME NEW what \in Stanza PROVE StartFrames(<<broadcast(what)>>)
  <2>1. broadcast(what) \in Frame  BY <1>0, FrameTypes DEF BroadcastFrame, Frame, Outside
  <2>2. <<broadcast(what)>> \in Seq(Frame)  BY <2>1, ShortSequences
  <2> QED  BY <2>2 DEF StartFrames, BroadcastFrame
<1>3. StartFrames(<<>>)  BY ShortSequences DEF StartFrames
<1>4. CASE Accept(c)  BY <1>4 DEF Accept
<1>5. CASE Login(c)  BY <1>5 DEF Login
<1>6. CASE Bind(c)  BY <1>6 DEF Bind
<1>7. CASE Presence(c)
  <2> DEFINE probe == ProbeFrame(c, Friends(who[c], {"to", "both"}))
  <2>1. probe \in Frame  BY <1>0, ConnTypes DEF Frame
  <2>2. <<probe>> \in Seq(Frame)  BY <2>1, ShortSequences
  <2>3. StartFrames(<<probe>>)  BY <2>2 DEF StartFrames, ProbeFrame
  <2>4. StartFrames(<<probe>> \o <<broadcast(Online(JidOf(c)))>>)
    BY <1>0, <1>2, <2>3, StartConcat
  <2>5. Start(c, <<probe, broadcast(Online(JidOf(c)))>>) /\ stack[Client[c].thread] = <<>>
    BY <1>7 DEF Presence, Ready
  <2>6. <<probe>> \o <<broadcast(Online(JidOf(c)))>> = <<probe, broadcast(Online(JidOf(c)))>>
    <3>1. broadcast(Online(JidOf(c))) \in Frame
      BY <1>0, FrameTypes DEF BroadcastFrame, Frame, Outside
    <3> QED  BY <2>1, <3>1, PairConcat
  <2> QED  BY <2>4, <2>5, <2>6
<1>8. CASE Unavailable(c)
  <2> DEFINE b == broadcast(Offline(JidOf(c)))
             d == SyncFrame(DestroyFrame(c))
  <2>1. PICK again \in {<<>>, destroy} : Start(c, <<b, d>> \o again)
    BY <1>8 DEF Unavailable
  <2>2. StartFrames(<<b>> \o <<d>>)  BY <1>0, <1>1, <1>2, StartConcat
  <2>3. <<b>> \o <<d>> = <<b, d>>
    <3>1. b \in Frame  BY <1>0, FrameTypes DEF BroadcastFrame, Frame, Outside
    <3>2. d \in Frame  BY ConnTypes, SyncType DEF Frame
    <3> QED  BY <3>1, <3>2, PairConcat
  <2>4. StartFrames(<<b, d>> \o again)  BY <1>1, <1>3, <2>1, <2>2, <2>3, StartConcat
  <2>5. stack[Client[c].thread] = <<>>  BY <1>8 DEF Unavailable, Ready
  <2> QED  BY <2>1, <2>4, <2>5
<1>9. CASE StreamEnd(c)  BY <1>1, <1>9 DEF StreamEnd, Ready
<1>10. CASE EndOfFile(c)  BY <1>10 DEF EndOfFile
<1>11. ASSUME NEW m \in Msg, NEW to \in Targets, Message(c, m, to)
       PROVE  /\ stack[Client[c].thread] = <<>>
              /\ \E fs : StartFrames(fs) /\ Start(c, fs)
  <2> DEFINE send == SendFrame(At(c), to, Chat(m, JidOf(c)), TRUE)
  <2>1. to \in Jid /\ Chat(m, JidOf(c)) \in Stanza
    BY <1>0, StanzaTypes, TargetAssumption DEF Jid
  <2>2. send \in Inside  BY <1>0, <2>1 DEF SendFrame, Inside, Call
  <2>3. StartFrames(<<SyncFrame(send)>>)  BY <2>2, StartSync DEF SendFrame
  <2> QED  BY <1>11, <2>3 DEF Message, Ready
<1> QED
  BY <1>4, <1>5, <1>6, <1>7, <1>8, <1>9, <1>10, <1>11 DEF Stanzas

LEMMA TypeStep ==
  ASSUME TypeOK, [Next]_vars
  PROVE  TypeOK'
<1>1. ASSUME NEW t \in Thread, Step(t) PROVE TypeOK'
  BY <1>1, StepTypeRest
<1>2. ASSUME NEW c \in Conn, Stanzas(c) PROVE TypeOK'
  <2>1. stack' \in [Thread -> Seq(Frame)]
    BY <1>2, StanzaStep DEF TypeOK, Start, StartFrames
  <2> USE DEF table, history, ReplySent, ReplyThrows
  <2>2. CASE Accept(c)  BY <2>1, <2>2 DEF Accept, TypeOK
  <2>3. CASE Login(c)
    <3>1. who' \in [Conn -> User \cup {None}]
      BY <2>3, ConnTypes DEF Login, TypeOK
    <3> QED  BY <2>1, <2>3, <3>1 DEF Login, TypeOK
  <2>4. CASE Bind(c)
    <3>1. res' \in [Conn -> Resource \cup {None}]
      BY <2>4, ConnTypes DEF Bind, TypeOK
    <3> QED  BY <2>1, <2>4, <3>1 DEF Bind, TypeOK
  <2>5. CASE Presence(c)  BY <2>1, <2>5 DEF Presence, TypeOK
  <2>6. CASE Unavailable(c)  BY <2>1, <2>6 DEF Unavailable, TypeOK
  <2>7. CASE StreamEnd(c)  BY <2>1, <2>7 DEF StreamEnd, TypeOK
  <2>8. CASE EndOfFile(c)  BY <2>1, <2>8 DEF EndOfFile, TypeOK
  <2>9. ASSUME NEW m \in Msg, NEW to \in Targets, Message(c, m, to)
        PROVE  TypeOK'
    <3>1. [from |-> c, to |-> to] \in [from : Conn, to : Jid]
      BY TargetAssumption DEF Jid
    <3>2. sent' \in [Msg -> [from : Conn, to : Jid] \cup {None}]
      BY <2>9, <3>1 DEF Message, TypeOK
    <3> QED  BY <2>1, <2>9, <3>2 DEF Message, TypeOK
  <2> QED  BY <1>2, <2>2, <2>3, <2>4, <2>5, <2>6, <2>7, <2>8, <2>9 DEF Stanzas
<1>3. ASSUME NEW c \in Conn, PeerVanishes(c) PROVE TypeOK'
  BY <1>3 DEF PeerVanishes, TypeOK, history
<1>4. ASSUME NEW s \in Server, UpdateSessions(s) PROVE TypeOK'
  <2>1. Exports(s) \in SUBSET Route
    BY JidTypes, ConnTypes DEF Exports, Route, TypeOK
  <2>2. remote' \in [Server -> SUBSET Route]
    BY <1>4, <2>1 DEF UpdateSessions, TypeOK
  <2> QED  BY <1>4, <2>2 DEF UpdateSessions, TypeOK, table, history
<1>5. CASE UNCHANGED vars  BY <1>5 DEF vars, TypeOK
<1> QED  BY <1>1, <1>2, <1>3, <1>4, <1>5 DEF Next

\* Every variable keeps its type, and no running call ever holds an argument
\* its callee does not accept.
THEOREM TypeCorrect == Spec => []TypeOK
<1>1. Init => TypeOK  BY ShortSequences DEF Init, TypeOK
<1>2. TypeOK /\ [Next]_vars => TypeOK'  BY TypeStep
<1> QED  BY <1>1, <1>2, PTL DEF Spec

-----------------------------------------------------------------------------
(* The inductive invariant behind NoWriteAfterRemoval.                     *)
(*                                                                         *)
(* A send that was interrupted by the destruction of a session may still   *)
(* have that session's channel in its list.  It cannot go on before the    *)
(* destruction has closed the channel, because the destruction is          *)
(*   - either further up the same stack, where it finishes first,          *)
(*   - or on another thread, which would have to be in the same monitor.   *)

PlaceInv == \A t \in Thread : \A i \in 1..Len(stack[t]) : InPlace(stack[t][i])

\* A call that runs inside a monitor has it, and the call that releases it is
\* the last of those.
HeldInv ==
  \A t \in Thread : \A i \in 1..Len(stack[t]) :
    IsInside(stack[t][i]) => lock[stack[t][i].at] = t
LastInv ==
  \A t \in Thread : \A i, j \in 1..Len(stack[t]) :
    i < j /\ stack[t][i].op = "unlock" /\ IsInside(stack[t][j])
      => stack[t][j].at # stack[t][i].at

\* A channel still to be written to is that of a listed session, or closed, or
\* about to be closed by a call further up the stack.
SnapshotInv ==
  \A t \in Thread : \A i \in 1..Len(stack[t]) :
    stack[t][i].op = "writes" =>
      \A c \in stack[t][i].left :
        \/ c \in sessions
        \/ sock[c] = "closed"
        \/ \E j \in 1..(i-1) : stack[t][j].op = "shut" /\ stack[t][j].conn = c

IInv == TypeOK /\ PlaceInv /\ HeldInv /\ LastInv /\ SnapshotInv

\* Where the frames of a stack are after its first has been replaced by fs.
Shifted(t, fs) ==
  /\ \A u \in Thread : u # t => stack'[u] = stack[u]
  /\ Len(stack[t]) \in Nat /\ Len(fs) \in Nat /\ Len(stack'[t]) \in Nat
  /\ Top(t) = stack[t][1] /\ 1 \in 1..Len(stack[t])
  /\ \A i \in 1..Len(stack'[t]) :
       /\ i <= Len(fs) => stack'[t][i] = fs[i]
       /\ i > Len(fs) => /\ i - Len(fs) + 1 \in 2..Len(stack[t])
                         /\ stack'[t][i] = stack[t][i - Len(fs) + 1]

LEMMA Shift ==
  ASSUME TypeOK, NEW t \in Thread, stack[t] # <<>>, NEW fs \in Seq(Frame), Return(t, fs)
  PROVE  Shifted(t, fs)
<1>1. stack[t] \in Seq(Frame)  BY DEF TypeOK
<1>2. stack'[t] = fs \o Tail(stack[t])  BY DEF Return, TypeOK
<1>3. \A u \in Thread : u # t => stack'[u] = stack[u]  BY DEF Return, TypeOK
<1>4. Len(stack'[t]) = Len(fs) + Len(stack[t]) - 1 /\ Len(stack[t]) >= 1
  BY <1>1, <1>2, ReplaceHead
<1>5. Len(stack[t]) \in Nat /\ Len(fs) \in Nat  BY <1>1
<1> QED  BY <1>1, <1>2, <1>3, <1>4, <1>5, ReplaceHead DEF Top, Shifted

\* A step of thread t that is not at the monitor's door.
LEMMA InsideStep ==
  ASSUME TypeOK, NEW t \in Thread, Step(t), ~ EnterMonitor(t), ~ LeaveMonitor(t)
  PROVE  lock' = lock
BY DEF Step, GetOutChannels, Write, WriteFails, GetForeignChannels, Deliver, DeliverFails,
       SendReturns, DestroySession, TellFriend, AllTold, CloseChannel, Probe, Broadcast, LoopEnds

LEMMA EnterFrames ==
  ASSUME TypeOK, NEW t \in Thread, EnterMonitor(t)
  PROVE  /\ stack[t] # <<>> /\ Top(t) \in Frame /\ Top(t).op = "sync"
         /\ <<Top(t).body, UnlockFrame(Top(t).at)>> \in Seq(Frame)
         /\ Return(t, <<Top(t).body, UnlockFrame(Top(t).at)>>)
<1>1. stack[t] # <<>> /\ Top(t).op = "sync"  BY DEF EnterMonitor, Running
<1>2. Top(t) \in Frame  BY <1>1, TopType
<1>3. Top(t).body \in Frame /\ UnlockFrame(Top(t).at) \in Frame
  BY <1>1, <1>2, FrameFields DEF UnlockFrame, Frame, Inside
<1> QED  BY <1>1, <1>2, <1>3, ShortSequences DEF EnterMonitor

\* A handler starts on an empty stack.
LEMMA Started ==
  ASSUME TypeOK, NEW c \in Conn, NEW fs, Start(c, fs), StartFrames(fs)
  PROVE  /\ Client[c].thread \in Thread
         /\ stack'[Client[c].thread] = fs
         /\ \A u \in Thread : u # Client[c].thread => stack'[u] = stack[u]
         /\ \A i \in 1..Len(fs) : InPlace(fs[i]) /\ ~ IsInside(fs[i]) /\ fs[i].op \notin {"writes", "unlock"}
BY ConnTypes DEF Start, StartFrames, TypeOK, InPlace, IsInside

-----------------------------------------------------------------------------
LEMMA PlaceStep ==
  ASSUME TypeOK, PlaceInv, [Next]_vars
  PROVE  PlaceInv'
<1>1. ASSUME NEW t \in Thread, Step(t) PROVE PlaceInv'
  <2>1. CASE EnterMonitor(t)
    <3> DEFINE fs == <<Top(t).body, UnlockFrame(Top(t).at)>>
    <3>1. fs \in Seq(Frame) /\ Return(t, fs) /\ stack[t] # <<>> /\ Top(t).op = "sync"
      BY <2>1, EnterFrames
    <3>s. Shifted(t, fs)  BY <3>1, Shift
    <3>2. InPlace(Top(t))  BY <3>s DEF PlaceInv, Shifted
    <3>3. \A i \in 1..Len(fs) : InPlace(fs[i])
      BY <3>1, <3>2 DEF InPlace, UnlockFrame
    <3> HIDE DEF fs
    <3>4. ASSUME NEW u \in Thread, NEW i \in 1..Len(stack'[u]) PROVE InPlace(stack'[u][i])
      <4>1. CASE u # t  BY <3>s, <4>1 DEF PlaceInv, Shifted
      <4>2. CASE u = t /\ i <= Len(fs)
        <5>1. i \in 1..Len(fs) /\ stack'[t][i] = fs[i]  BY <3>s, <4>2 DEF Shifted
        <5> QED  BY <3>3, <4>2, <5>1
      <4>3. CASE u = t /\ i > Len(fs)
        <5>1. i - Len(fs) + 1 \in 1..Len(stack[t]) /\ stack'[t][i] = stack[t][i - Len(fs) + 1]
          BY <3>s, <4>3 DEF Shifted
        <5> QED  BY <4>3, <5>1 DEF PlaceInv
      <4> QED  BY <3>s, <4>1, <4>2, <4>3 DEF Shifted
    <3> QED  BY <3>4 DEF PlaceInv, InPlace
  <2>2. CASE ~ EnterMonitor(t)
    <3>1. PICK fs \in Seq(Frame) : Return(t, fs) /\ AllContinue(Top(t), fs)
      BY <1>1, <2>2, StepFrames
    <3>2. stack[t] # <<>>  BY <1>1, StepFrames
    <3>s. Shifted(t, fs)  BY <3>1, <3>2, Shift
    <3>3. InPlace(Top(t))  BY <3>s DEF PlaceInv, Shifted
    <3>4. \A i \in 1..Len(fs) : InPlace(fs[i])
      BY <3>1, <3>3 DEF AllContinue, Continues
    <3>5. ASSUME NEW u \in Thread, NEW i \in 1..Len(stack'[u]) PROVE InPlace(stack'[u][i])
      <4>1. CASE u # t  BY <3>s, <4>1 DEF PlaceInv, Shifted
      <4>2. CASE u = t /\ i <= Len(fs)  BY <3>s, <3>4, <4>2 DEF Shifted
      <4>3. CASE u = t /\ i > Len(fs)
        <5>1. i - Len(fs) + 1 \in 1..Len(stack[t]) /\ stack'[t][i] = stack[t][i - Len(fs) + 1]
          BY <3>s, <4>3 DEF Shifted
        <5> QED  BY <4>3, <5>1 DEF PlaceInv
      <4> QED  BY <3>s, <4>1, <4>2, <4>3 DEF Shifted
    <3> QED  BY <3>5 DEF PlaceInv, InPlace
  <2> QED  BY <2>1, <2>2
<1>2. ASSUME NEW c \in Conn, Stanzas(c) PROVE PlaceInv'
  <2>1. CASE UNCHANGED stack  BY <2>1 DEF PlaceInv
  <2>2. ASSUME NEW fs, StartFrames(fs), Start(c, fs) PROVE PlaceInv'
    BY <2>2, Started DEF PlaceInv
  <2> QED  BY <1>2, <2>1, <2>2, StanzaStep
<1>3. ASSUME UNCHANGED stack PROVE PlaceInv'
  BY <1>3 DEF PlaceInv
<1> QED
  BY <1>1, <1>2, <1>3 DEF Next, vars, PeerVanishes, UpdateSessions

-----------------------------------------------------------------------------
LEMMA HeldStep ==
  ASSUME TypeOK, PlaceInv, HeldInv, LastInv, [Next]_vars
  PROVE  HeldInv' /\ LastInv'
<1>1. ASSUME NEW t \in Thread, Step(t) PROVE HeldInv' /\ LastInv'
  <2>1. CASE EnterMonitor(t)
    <3> DEFINE body == Top(t).body
               fs == <<body, UnlockFrame(Top(t).at)>>
               s == Top(t).at
    <3>1. /\ fs \in Seq(Frame) /\ Return(t, fs) /\ stack[t] # <<>>
          /\ Top(t).op = "sync" /\ Top(t) \in Frame
      BY <2>1, EnterFrames
    <3>2. s \in Server /\ lock[s] = None /\ lock' = [lock EXCEPT ![s] = t]
      BY <2>1, <3>1, FrameFields DEF EnterMonitor
    <3>3. \A u \in Thread : \A i \in 1..Len(stack[u]) :
            IsInside(stack[u][i]) => stack[u][i].at # s
      BY <3>2, ClientAssumption DEF HeldInv
    <3>s. Shifted(t, fs)  BY <3>1, Shift
    <3>4. InPlace(Top(t))  BY <3>s DEF PlaceInv, Shifted
    <3>5. /\ Len(fs) = 2 /\ fs[1].at = s /\ fs[2].at = s
          /\ fs[1].op # "unlock" /\ fs[2].op = "unlock"
      BY <3>1, <3>4 DEF InPlace, UnlockFrame
    <3> HIDE DEF fs, s
    <3>6. \A i \in 1..Len(stack'[t]) :
            /\ i <= 2 => stack'[t][i] = fs[i]
            /\ i > 2 => i - 1 \in 2..Len(stack[t]) /\ stack'[t][i] = stack[t][i - 1]
      BY <3>5, <3>s DEF Shifted
    <3>7. \A u \in Thread : u # t => stack'[u] = stack[u]
      BY <3>s DEF Shifted
    <3>8. \A u \in Thread : \A i \in 1..Len(stack[u]) :
            IsInside(stack[u][i]) => lock'[stack[u][i].at] = u
      <4> SUFFICES ASSUME NEW u \in Thread, NEW i \in 1..Len(stack[u]), IsInside(stack[u][i])
                   PROVE  lock'[stack[u][i].at] = u
        OBVIOUS
      <4>1. stack[u][i].at # s /\ lock[stack[u][i].at] = u  BY <3>3 DEF HeldInv
      <4>2. stack[u] \in Seq(Frame)  BY DEF TypeOK
      <4>3. stack[u][i].at \in Server  BY <4>2, FrameFields
      <4> QED  BY <3>2, <4>1, <4>3 DEF TypeOK
    <3>9. lock'[s] = t  BY <3>2 DEF TypeOK
    <3>t. Len(stack[t]) \in Nat /\ Len(stack'[t]) \in Nat  BY <3>s DEF Shifted
    <3>10. HeldInv'
      <4> SUFFICES ASSUME NEW u \in Thread, NEW i \in 1..Len(stack'[u]), IsInside(stack'[u][i])
                   PROVE  lock'[stack'[u][i].at] = u
        BY DEF HeldInv, IsInside
      <4>1. CASE u # t  BY <3>7, <3>8, <4>1
      <4>2. CASE u = t /\ i <= 2
        <5>1. i \in 1..2 /\ stack'[t][i] = fs[i]  BY <3>6, <4>2
        <5>2. fs[i].at = s  BY <3>5, <5>1
        <5> QED  BY <3>9, <4>2, <5>1, <5>2
      <4>3. CASE u = t /\ i > 2
        <5>1. i - 1 \in 1..Len(stack[t]) /\ stack'[t][i] = stack[t][i - 1]
          BY <3>6, <3>t, <4>3
        <5>2. IsInside(stack[t][i - 1])  BY <4>3, <5>1
        <5> QED  BY <3>8, <4>3, <5>1, <5>2
      <4> QED  BY <3>t, <4>1, <4>2, <4>3
    <3>11. LastInv'
      <4> SUFFICES ASSUME NEW u \in Thread, NEW i \in 1..Len(stack'[u]), NEW j \in 1..Len(stack'[u]),
                          i < j, stack'[u][i].op = "unlock", IsInside(stack'[u][j])
                   PROVE  stack'[u][j].at # stack'[u][i].at
        BY DEF LastInv, IsInside
      <4>1. CASE u # t  BY <3>7, <4>1 DEF LastInv
      <4>2. CASE u = t /\ i = 1  BY <3>5, <3>6, <4>2
      <4>3. CASE u = t /\ i = 2  BY <3>3, <3>5, <3>6, <4>3
      <4>4. CASE u = t /\ i > 2
        <5>1. /\ i - 1 \in 1..Len(stack[t]) /\ stack'[t][i] = stack[t][i - 1]
              /\ j - 1 \in 1..Len(stack[t]) /\ stack'[t][j] = stack[t][j - 1]
          BY <3>6, <3>t, <4>4
        <5> QED  BY <4>4, <5>1 DEF LastInv
      <4> QED  BY <3>t, <4>1, <4>2, <4>3, <4>4
    <3> QED  BY <3>10, <3>11
  <2>2. CASE LeaveMonitor(t)
    <3> DEFINE s == Top(t).at
    <3>1. stack[t] # <<>> /\ Top(t).op = "unlock" /\ Return(t, <<>>)
          /\ lock' = [lock EXCEPT ![s] = None]
      BY <2>2 DEF LeaveMonitor, Running
    <3>2. s \in Server  BY <3>1, TopType, FrameFields
    <3>e. <<>> \in Seq(Frame)  BY ShortSequences
    <3>s. Shifted(t, <<>>)  BY <3>1, <3>e, Shift
    <3>3. /\ \A u \in Thread : u # t => stack'[u] = stack[u]
          /\ Top(t) = stack[t][1] /\ 1 \in 1..Len(stack[t])
          /\ Len(stack[t]) \in Nat /\ Len(stack'[t]) \in Nat
          /\ \A i \in 1..Len(stack'[t]) :
               i + 1 \in 2..Len(stack[t]) /\ stack'[t][i] = stack[t][i + 1]
      BY <3>s DEF Shifted
    <3> HIDE DEF s
    <3>4. lock[s] = t  BY <3>1, <3>3 DEF HeldInv, IsInside, s
    <3>5. \A i \in 2..Len(stack[t]) : IsInside(stack[t][i]) => stack[t][i].at # s
      BY <3>1, <3>3 DEF LastInv, s
    <3>6. HeldInv'
      <4> SUFFICES ASSUME NEW u \in Thread, NEW i \in 1..Len(stack'[u]), IsInside(stack'[u][i])
                   PROVE  lock'[stack'[u][i].at] = u
        BY DEF HeldInv, IsInside
      <4>1. PICK k \in 1..Len(stack[u]) : stack'[u][i] = stack[u][k] /\ (u = t => k \in 2..Len(stack[t]))
        BY <3>3
      <4>2. lock[stack[u][k].at] = u  BY <4>1 DEF HeldInv
      <4>3. stack[u][k].at # s  BY <3>4, <3>5, <4>1, <4>2
      <4>4. stack[u] \in Seq(Frame)  BY DEF TypeOK
      <4>5. stack[u][k].at \in Server  BY <4>1, <4>4, FrameFields
      <4> QED  BY <3>1, <4>1, <4>2, <4>3, <4>5 DEF TypeOK
    <3>7. LastInv'
      <4> SUFFICES ASSUME NEW u \in Thread, NEW i \in 1..Len(stack'[u]), NEW j \in 1..Len(stack'[u]),
                          i < j, stack'[u][i].op = "unlock", IsInside(stack'[u][j])
                   PROVE  stack'[u][j].at # stack'[u][i].at
        BY DEF LastInv, IsInside
      <4>1. CASE u # t  BY <3>3, <4>1 DEF LastInv
      <4>2. CASE u = t
        <5>1. /\ i + 1 \in 1..Len(stack[t]) /\ stack'[t][i] = stack[t][i + 1]
              /\ j + 1 \in 1..Len(stack[t]) /\ stack'[t][j] = stack[t][j + 1]
          BY <3>3, <4>2
        <5>2. i + 1 < j + 1  BY <3>3, <4>2
        <5> QED  BY <4>2, <5>1, <5>2 DEF LastInv
      <4> QED  BY <4>1, <4>2
    <3> QED  BY <3>6, <3>7
  <2>3. CASE ~ EnterMonitor(t) /\ ~ LeaveMonitor(t)
    <3>1. PICK fs \in Seq(Frame) : Return(t, fs) /\ AllContinue(Top(t), fs)
      BY <1>1, <2>3, StepFrames
    <3>2. stack[t] # <<>>  BY <1>1, StepFrames
    <3>3. lock' = lock  BY <1>1, <2>3, InsideStep
    <3>s. Shifted(t, fs)  BY <3>1, <3>2, Shift
    <3>4. InPlace(Top(t))  BY <3>s DEF PlaceInv, Shifted
    <3>5. \A k \in 1..Len(fs) : fs[k].op # "unlock"
      BY <3>1 DEF AllContinue, Continues
    <3>9. \A k \in 1..Len(fs) : IsInside(fs[k]) => IsInside(Top(t)) /\ fs[k].at = Top(t).at
      BY <3>1, <3>4 DEF AllContinue, Continues
    <3>6. IsInside(Top(t)) => lock[Top(t).at] = t
      BY <3>s DEF HeldInv, Shifted
    <3>t. Len(stack[t]) \in Nat /\ Len(stack'[t]) \in Nat /\ Len(fs) \in Nat
      BY <3>s DEF Shifted
    <3>7. HeldInv'
      <4> SUFFICES ASSUME NEW u \in Thread, NEW i \in 1..Len(stack'[u]), IsInside(stack'[u][i])
                   PROVE  lock'[stack'[u][i].at] = u
        BY DEF HeldInv, IsInside
      <4>1. CASE u # t  BY <3>s, <3>3, <4>1 DEF HeldInv, Shifted
      <4>2. CASE u = t /\ i <= Len(fs)
        <5>1. i \in 1..Len(fs) /\ stack'[t][i] = fs[i]  BY <3>s, <3>t, <4>2 DEF Shifted
        <5>2. IsInside(fs[i])  BY <4>2, <5>1
        <5>3. IsInside(Top(t)) /\ fs[i].at = Top(t).at  BY <3>9, <5>1, <5>2
        <5> QED  BY <3>3, <3>6, <4>2, <5>1, <5>3
      <4>3. CASE u = t /\ i > Len(fs)
        <5>1. i - Len(fs) + 1 \in 1..Len(stack[t]) /\ stack'[t][i] = stack[t][i - Len(fs) + 1]
          BY <3>s, <3>t, <4>3 DEF Shifted
        <5> QED  BY <3>3, <4>3, <5>1 DEF HeldInv
      <4> QED  BY <3>t, <4>1, <4>2, <4>3
    <3>8. LastInv'
      <4> SUFFICES ASSUME NEW u \in Thread, NEW i \in 1..Len(stack'[u]), NEW j \in 1..Len(stack'[u]),
                          i < j, stack'[u][i].op = "unlock", IsInside(stack'[u][j])
                   PROVE  stack'[u][j].at # stack'[u][i].at
        BY DEF LastInv, IsInside
      <4>1. CASE u # t  BY <3>s, <4>1 DEF LastInv, Shifted
      <4>2. CASE u = t
        <5>1. i > Len(fs)
          <6> SUFFICES ASSUME i <= Len(fs) PROVE FALSE  BY <3>t, <4>2
          <6>1. i \in 1..Len(fs) /\ stack'[t][i] = fs[i]  BY <3>s, <3>t, <4>2 DEF Shifted
          <6>2. fs[i].op = "unlock"  BY <4>2, <6>1
          <6> QED  BY <3>5, <6>1, <6>2
        <5>2. /\ i - Len(fs) + 1 \in 1..Len(stack[t]) /\ stack'[t][i] = stack[t][i - Len(fs) + 1]
              /\ j - Len(fs) + 1 \in 1..Len(stack[t]) /\ stack'[t][j] = stack[t][j - Len(fs) + 1]
          BY <3>s, <3>t, <4>2, <5>1 DEF Shifted
        <5>3. i - Len(fs) + 1 < j - Len(fs) + 1  BY <3>t, <4>2
        <5> QED  BY <4>2, <5>2, <5>3 DEF LastInv
      <4> QED  BY <4>1, <4>2
    <3> QED  BY <3>7, <3>8
  <2> QED  BY <2>1, <2>2, <2>3
<1>2. ASSUME NEW c \in Conn, Stanzas(c) PROVE HeldInv' /\ LastInv'
  <2>1. lock' = lock
    BY <1>2 DEF Stanzas, Accept, Login, Bind, Presence, Unavailable, StreamEnd, EndOfFile, Message
  <2>2. CASE UNCHANGED stack  BY <2>1, <2>2 DEF HeldInv, LastInv
  <2>3. ASSUME NEW fs, StartFrames(fs), Start(c, fs) PROVE HeldInv' /\ LastInv'
    <3> DEFINE t == Client[c].thread
    <3>1. /\ stack'[t] = fs /\ t \in Thread
          /\ \A u \in Thread : u # t => stack'[u] = stack[u]
          /\ \A i \in 1..Len(fs) : ~ IsInside(fs[i])
      BY <2>3, Started
    <3> HIDE DEF t
    <3>2. ASSUME NEW u \in Thread PROVE u = t \/ stack'[u] = stack[u]
      BY <3>1
    <3>3. ASSUME NEW u \in Thread, NEW i \in 1..Len(stack'[u]), IsInside(stack'[u][i])
          PROVE  u # t
      BY <3>1, <3>3
    <3>4. HeldInv'  BY <2>1, <3>2, <3>3 DEF HeldInv, IsInside
    <3>5. LastInv'
      <4> SUFFICES ASSUME NEW u \in Thread, NEW i \in 1..Len(stack'[u]), NEW j \in 1..Len(stack'[u]),
                          i < j, stack'[u][i].op = "unlock", IsInside(stack'[u][j])
                   PROVE  stack'[u][j].at # stack'[u][i].at
        BY DEF LastInv, IsInside
      <4>1. stack'[u] = stack[u]  BY <3>2, <3>3
      <4> QED  BY <4>1 DEF LastInv
    <3> QED  BY <3>4, <3>5
  <2> QED  BY <1>2, <2>2, <2>3, StanzaStep
<1>3. ASSUME UNCHANGED <<stack, lock>> PROVE HeldInv' /\ LastInv'
  BY <1>3 DEF HeldInv, LastInv
<1> QED
  BY <1>1, <1>2, <1>3 DEF Next, vars, PeerVanishes, UpdateSessions

-----------------------------------------------------------------------------
(* What the steps do to the table and to the channels.                     *)

\* A channel that is closed stays closed, and a session leaves the table only
\* in DestroySession.
LEMMA TableStep ==
  ASSUME TypeOK, [Next]_vars
  PROVE  /\ \A c \in Conn : sock[c] = "closed" => sock'[c] = "closed"
         /\ \/ sessions \subseteq sessions'
            \/ \E t \in Thread : Step(t) /\ DestroySession(t)
<1> USE DEF table
<1>1. ASSUME NEW t \in Thread, Step(t)
      PROVE  /\ \A c \in Conn : sock[c] = "closed" => sock'[c] = "closed"
             /\ sessions \subseteq sessions' \/ DestroySession(t)
  <2>1. CASE CloseChannel(t)  BY <2>1 DEF CloseChannel, TypeOK
  <2>2. CASE DestroySession(t)  BY <2>2 DEF DestroySession
  <2>3. CASE ~ CloseChannel(t) /\ ~ DestroySession(t)
    BY <1>1, <2>3 DEF Step, EnterMonitor, LeaveMonitor, GetOutChannels, Write, WriteFails,
       GetForeignChannels, Deliver, DeliverFails, SendReturns, TellFriend, AllTold, Probe,
       Broadcast, LoopEnds
  <2> QED  BY <2>1, <2>2, <2>3
<1>2. ASSUME NEW c \in Conn, Stanzas(c)
      PROVE  /\ \A d \in Conn : sock[d] = "closed" => sock'[d] = "closed"
             /\ sessions \subseteq sessions'
  BY <1>2 DEF Stanzas, Accept, Login, Bind, Presence, Unavailable, StreamEnd, EndOfFile,
     Message, TypeOK
<1>3. ASSUME NEW c \in Conn, PeerVanishes(c)
      PROVE  /\ \A d \in Conn : sock[d] = "closed" => sock'[d] = "closed"
             /\ sessions \subseteq sessions'
  BY <1>3 DEF PeerVanishes, TypeOK
<1>4. ASSUME NEW s \in Server, UpdateSessions(s) PROVE UNCHANGED <<sock, sessions>>
  BY <1>4 DEF UpdateSessions
<1>5. CASE UNCHANGED vars  BY <1>5 DEF vars
<1> QED  BY <1>1, <1>2, <1>3, <1>4, <1>5 DEF Next

\* The channel c, still to be written to by the call at place i of thread t,
\* is accounted for.
Accounted(t, i, c) ==
  \/ c \in sessions
  \/ sock[c] = "closed"
  \/ \E j \in 1..(i-1) : stack[t][j].op = "shut" /\ stack[t][j].conn = c

LEMMA SnapshotStep ==
  ASSUME TypeOK, PlaceInv, HeldInv, SnapshotInv, [Next]_vars
  PROVE  SnapshotInv'
<1> USE DEF table
<1>0. /\ \A c \in Conn : sock[c] = "closed" => sock'[c] = "closed"
      /\ \/ sessions \subseteq sessions'
         \/ \E t \in Thread : Step(t) /\ DestroySession(t)
  BY TableStep
<1>a. \A t \in Thread : \A i \in 1..Len(stack[t]) :
        stack[t][i].op = "writes" => \A c \in stack[t][i].left : c \in Conn /\ Accounted(t, i, c)
  <2> SUFFICES ASSUME NEW t \in Thread, NEW i \in 1..Len(stack[t]), stack[t][i].op = "writes",
                      NEW c \in stack[t][i].left
               PROVE  c \in Conn /\ Accounted(t, i, c)
    OBVIOUS
  <2>1. stack[t] \in Seq(Frame)  BY DEF TypeOK
  <2>2. stack[t][i] \in Frame  BY <2>1
  <2> QED  BY <2>2, FrameFields DEF SnapshotInv, Accounted
\* It is enough that every call that writes afterwards is accounted for.
<1>b. ASSUME \A t \in Thread : \A i \in 1..Len(stack'[t]) :
               stack'[t][i].op = "writes" =>
                 \A c \in stack'[t][i].left : Accounted(t, i, c)'
      PROVE  SnapshotInv'
  BY <1>b DEF SnapshotInv, Accounted
\* Nothing happens to the calls of a stack that a step leaves alone.
<1>c. ASSUME NEW u \in Thread, stack'[u] = stack[u], sessions \subseteq sessions',
             NEW i \in 1..Len(stack'[u]), stack'[u][i].op = "writes",
             NEW c \in stack'[u][i].left
      PROVE  Accounted(u, i, c)'
  <2>1. c \in Conn /\ Accounted(u, i, c)  BY <1>a, <1>c
  <2> QED  BY <1>0, <1>c, <2>1 DEF Accounted
<1>1. ASSUME NEW t \in Thread, Step(t), DestroySession(t) PROVE SnapshotInv'
  <2> DEFINE d == Top(t).conn
  <2>2. stack[t] # <<>> /\ Top(t).op = "destroy" /\ sessions' = sessions \ {d} /\ sock' = sock
    BY <1>1 DEF DestroySession, Running
  <2>3. PICK fs \in Seq(Frame) : Return(t, fs)  BY <1>1, StepFrames
  <2>s. Shifted(t, fs)  BY <2>2, <2>3, Shift
  <2>4. d \in Conn  BY <2>2, TopType, FrameFields
  <2>5. lock[At(d)] = t
    <3>1. InPlace(Top(t)) /\ (IsInside(Top(t)) => lock[Top(t).at] = t)
      BY <2>s DEF PlaceInv, HeldInv, Shifted
    <3> QED  BY <2>2, <3>1 DEF InPlace, IsInside
  \* No call of another thread still has to write to the channel.
  <2>6. ASSUME NEW u \in Thread, NEW i \in 1..Len(stack[u]), stack[u][i].op = "writes",
               d \in stack[u][i].left
        PROVE  u = t
    <3>1. InPlace(stack[u][i]) /\ (IsInside(stack[u][i]) => lock[stack[u][i].at] = u)
      BY DEF PlaceInv, HeldInv
    <3> QED  BY <2>5, <2>6, <3>1 DEF InPlace, IsInside
  <2>7. /\ Len(stack'[t]) = Len(stack[t]) + 1
        /\ stack'[t][1].op = "tell" /\ stack'[t][2].op = "shut" /\ stack'[t][2].conn = d
        /\ \A i \in 3..Len(stack'[t]) : stack'[t][i] = stack[t][i - 1]
    <3> DEFINE gs == <<TellFrame(At(d), Offline(JidOf(d)),
                         IF Cardinality(OthersLeft(d)) = 1
                         THEN Friends(who[d], {"none", "to", "from", "both"}) ELSE {}),
                       ShutFrame(d)>>
    <3>1. Return(t, gs)  BY <1>1 DEF DestroySession
    <3>2. gs \in Seq(Frame)
      <4>1. /\ At(d) \in Server /\ ShutFrame(d) \in Frame
            /\ Offline(JidOf(d)) \in Stanza
        BY <2>4, ConnTypes, JidTypes, StanzaTypes DEF Frame
      <4>2. (IF Cardinality(OthersLeft(d)) = 1
             THEN Friends(who[d], {"none", "to", "from", "both"}) ELSE {}) \in SUBSET User
        BY DEF Friends
      <4>3. gs[1] \in Frame  BY <4>1, <4>2 DEF TellFrame, Frame, Inside
      <4> QED  BY <4>1, <4>3, ShortSequences
    <3>3. Shifted(t, gs)  BY <2>2, <3>1, <3>2, Shift
    <3>4. Len(gs) = 2 /\ gs[1].op = "tell" /\ gs[2].op = "shut" /\ gs[2].conn = d
      BY DEF TellFrame, ShutFrame
    <3>5. stack[t] \in Seq(Frame) /\ stack'[t] = gs \o Tail(stack[t])
      BY <3>1 DEF Return, TypeOK
    <3>6. Len(stack'[t]) = Len(gs) + Len(stack[t]) - 1
      BY <2>2, <3>2, <3>5, ReplaceHead
    <3> HIDE DEF gs
    <3> QED  BY <3>3, <3>4, <3>6 DEF Shifted
  <2>8. ASSUME NEW u \in Thread, NEW i \in 1..Len(stack'[u]), stack'[u][i].op = "writes",
               NEW c \in stack'[u][i].left
        PROVE  Accounted(u, i, c)'
    <3>t. Len(stack[t]) \in Nat /\ Len(stack'[t]) \in Nat  BY <2>s DEF Shifted
    <3>1. CASE u # t
      <4>1. stack'[u] = stack[u]  BY <2>s, <3>1 DEF Shifted
      <4>2. c # d  BY <2>6, <2>8, <3>1, <4>1
      <4>3. Accounted(u, i, c)  BY <1>a, <2>8, <4>1
      <4> QED  BY <2>2, <4>1, <4>2, <4>3 DEF Accounted
    <3>2. CASE u = t
      <4>1. i \in 3..Len(stack'[t])
        <5>1. i # 1 /\ i # 2  BY <2>7, <2>8, <3>2
        <5> QED  BY <3>2, <3>t, <5>1
      <4>2. stack'[t][i] = stack[t][i - 1] /\ i - 1 \in 2..Len(stack[t])
        BY <2>7, <3>t, <4>1
      <4>3. Accounted(t, i - 1, c)  BY <1>a, <2>8, <3>2, <3>t, <4>2
      <4>4. CASE c = d  BY <2>7, <3>2, <3>t, <4>1, <4>4 DEF Accounted
      <4>5. CASE c # d
        <5>1. CASE c \in sessions \/ sock[c] = "closed"
          BY <2>2, <4>5, <5>1 DEF Accounted
        <5>2. ASSUME NEW j \in 1..(i - 1 - 1), stack[t][j].op = "shut", stack[t][j].conn = c
              PROVE  Accounted(t, i, c)'
          <6>1. j # 1  BY <2>2, <2>s, <5>2 DEF Shifted
          <6>2. j + 1 \in 3..Len(stack'[t]) /\ j + 1 \in 1..(i - 1)
            BY <3>t, <4>1, <6>1
          <6>3. stack'[t][j + 1] = stack[t][(j + 1) - 1] /\ (j + 1) - 1 = j
            BY <2>7, <6>2
          <6> QED  BY <5>2, <6>2, <6>3 DEF Accounted
        <5> QED  BY <3>2, <4>3, <5>1, <5>2 DEF Accounted
      <4> QED  BY <4>4, <4>5
    <3> QED  BY <3>1, <3>2
  <2> QED  BY <1>b, <2>8
<1>2. ASSUME NEW t \in Thread, Step(t), sessions \subseteq sessions' PROVE SnapshotInv'
  <2>1. PICK fs \in Seq(Frame) :
          /\ Return(t, fs)
          /\ \A k \in 1..Len(fs) : fs[k].op = "writes" =>
               \/ fs[k].left \subseteq sessions
               \/ Top(t).op = "writes" /\ fs[k].left \subseteq Top(t).left
    <3>1. CASE EnterMonitor(t)
      <4> DEFINE gs == <<Top(t).body, UnlockFrame(Top(t).at)>>
      <4>1. /\ gs \in Seq(Frame) /\ Return(t, gs) /\ stack[t] # <<>>
            /\ Top(t).op = "sync"
        BY <3>1, EnterFrames
      <4>2. InPlace(Top(t))  BY <4>1, Shift DEF PlaceInv, Shifted
      <4>3. gs[1].op # "writes" /\ gs[2].op # "writes" /\ Len(gs) = 2
        BY <4>1, <4>2 DEF InPlace, UnlockFrame
      <4> HIDE DEF gs
      <4>4. \A k \in 1..Len(gs) : gs[k].op # "writes"  BY <4>3
      <4> QED  BY <4>1, <4>4
    <3>2. CASE ~ EnterMonitor(t)
      <4>1. PICK gs \in Seq(Frame) : Return(t, gs) /\ AllContinue(Top(t), gs)
        BY <1>2, <3>2, StepFrames
      <4> QED  BY <4>1 DEF AllContinue, Continues
    <3> QED  BY <3>1, <3>2
  <2>2. stack[t] # <<>>  BY <1>2, StepFrames
  <2>s. Shifted(t, fs)  BY <2>1, <2>2, Shift
  <2>t. Len(stack[t]) \in Nat /\ Len(stack'[t]) \in Nat /\ Len(fs) \in Nat
    BY <2>s DEF Shifted
  <2>3. ASSUME Top(t).op = "shut" PROVE Top(t).conn \in Conn /\ sock'[Top(t).conn] = "closed"
    <3>1. Top(t).conn \in Conn  BY <2>2, <2>3, TopType, FrameFields
    <3>2. CloseChannel(t)
      BY <1>2, <2>3 DEF Step, Running, EnterMonitor, LeaveMonitor, GetOutChannels, Write,
         WriteFails, GetForeignChannels, Deliver, DeliverFails, SendReturns, DestroySession,
         TellFriend, AllTold, Probe, Broadcast, LoopEnds
    <3> QED  BY <3>1, <3>2 DEF CloseChannel, TypeOK
  <2>4. ASSUME NEW u \in Thread, NEW i \in 1..Len(stack'[u]), stack'[u][i].op = "writes",
               NEW c \in stack'[u][i].left
        PROVE  Accounted(u, i, c)'
    <3>1. CASE u # t  BY <1>2, <1>c, <2>4, <2>s, <3>1 DEF Shifted
    <3>2. CASE u = t /\ i <= Len(fs)
      <4>1. i \in 1..Len(fs) /\ stack'[t][i] = fs[i]  BY <2>s, <2>t, <3>2 DEF Shifted
      <4>2. fs[i].op = "writes" /\ c \in fs[i].left  BY <2>4, <3>2, <4>1
      <4>3. CASE fs[i].left \subseteq sessions  BY <1>2, <4>2, <4>3 DEF Accounted
      <4>4. CASE Top(t).op = "writes" /\ fs[i].left \subseteq Top(t).left
        <5>1. Top(t) = stack[t][1] /\ 1 \in 1..Len(stack[t])  BY <2>s DEF Shifted
        <5>2. c \in Conn /\ Accounted(t, 1, c)  BY <1>a, <4>2, <4>4, <5>1
        <5>3. c \in sessions \/ sock[c] = "closed"  BY <5>2 DEF Accounted
        <5> QED  BY <1>0, <1>2, <5>2, <5>3 DEF Accounted
      <4> QED  BY <2>1, <4>1, <4>2, <4>3, <4>4
    <3>3. CASE u = t /\ i > Len(fs)
      <4> DEFINE k == i - Len(fs) + 1
      <4>1. k \in 2..Len(stack[t]) /\ stack'[t][i] = stack[t][k]
        BY <2>s, <2>t, <3>3 DEF Shifted
      <4>i. i \in Nat  BY <2>t, <3>3
      <4>2. c \in Conn /\ Accounted(t, k, c)
        <5>1. k \in 1..Len(stack[t])  BY <2>t, <4>1
        <5> HIDE DEF k
        <5> QED  BY <1>a, <2>4, <3>3, <4>1, <5>1
      <4>3. CASE c \in sessions \/ sock[c] = "closed"
        BY <1>0, <1>2, <4>2, <4>3 DEF Accounted
      <4>4. ASSUME NEW j \in 1..(k - 1), stack[t][j].op = "shut", stack[t][j].conn = c
            PROVE  Accounted(t, i, c)'
        <5>1. CASE j = 1
          <6>1. Top(t) = stack[t][1]  BY <2>s DEF Shifted
          <6> QED  BY <2>3, <4>4, <5>1, <6>1 DEF Accounted
        <5>2. CASE j # 1
          <6> DEFINE n == j + Len(fs) - 1
          <6>a. i \in 1..Len(stack'[t])  BY <3>3
          <6>b. j \in Nat /\ j > 1 /\ j <= i - Len(fs)
            BY <2>t, <4>i, <4>1, <4>4, <5>2
          <6>1. /\ n \in 1..(i - 1) /\ n \in 1..Len(stack'[t]) /\ n > Len(fs)
                /\ n - Len(fs) + 1 = j
            BY <2>t, <4>i, <6>a, <6>b
          <6>2. stack'[t][n] = stack[t][n - Len(fs) + 1]  BY <2>s, <6>1 DEF Shifted
          <6>3. stack'[t][n] = stack[t][j]  BY <6>1, <6>2
          <6> HIDE DEF n
          <6> QED  BY <4>4, <6>1, <6>3 DEF Accounted
        <5> QED  BY <5>1, <5>2
      <4> QED  BY <3>3, <4>2, <4>3, <4>4 DEF Accounted
    <3> QED  BY <2>t, <3>1, <3>2, <3>3
  <2> QED  BY <1>b, <2>4
<1>3. ASSUME NEW c \in Conn, Stanzas(c), sessions \subseteq sessions' PROVE SnapshotInv'
  <2>1. CASE UNCHANGED stack  BY <1>3, <1>b, <1>c, <2>1
  <2>2. ASSUME NEW fs, StartFrames(fs), Start(c, fs) PROVE SnapshotInv'
    <3> DEFINE t == Client[c].thread
    <3>1. /\ stack'[t] = fs /\ t \in Thread
          /\ \A u \in Thread : u # t => stack'[u] = stack[u]
          /\ \A i \in 1..Len(fs) : fs[i].op # "writes"
      BY <2>2, Started
    <3> HIDE DEF t
    <3>2. ASSUME NEW u \in Thread, NEW i \in 1..Len(stack'[u]), stack'[u][i].op = "writes",
                 NEW d \in stack'[u][i].left
          PROVE  Accounted(u, i, d)'
      <4>1. u # t  BY <3>1, <3>2
      <4>2. stack'[u] = stack[u]  BY <3>1, <4>1
      <4> QED  BY <1>3, <1>c, <3>2, <4>2
    <3> QED  BY <1>b, <3>2
  <2> QED  BY <1>3, <2>1, <2>2, StanzaStep
<1>4. ASSUME UNCHANGED stack, sessions \subseteq sessions' PROVE SnapshotInv'
  BY <1>4, <1>b, <1>c
<1> QED
  <2>1. CASE sessions \subseteq sessions'
    BY <1>2, <1>3, <1>4, <2>1 DEF Next, vars, PeerVanishes, UpdateSessions
  <2> QED  BY <1>0, <1>1, <2>1

-----------------------------------------------------------------------------
\* The parts of the invariant hold together.
LEMMA IInvStep == IInv /\ [Next]_vars => IInv'
BY TypeStep, PlaceStep, HeldStep, SnapshotStep DEF IInv

LEMMA IInvInit == Init => IInv
<1>1. Init => TypeOK  BY ShortSequences DEF Init, TypeOK
<1>2. Init => \A t \in Thread : Len(stack[t]) = 0  BY DEF Init
<1> QED  BY <1>1, <1>2 DEF IInv, PlaceInv, HeldInv, LastInv, SnapshotInv

\* At every moment the channels the sends under way have still to write to are
\* those of listed sessions, or closed, or about to be closed first.
THEOREM SnapshotSound == Spec => []IInv
BY IInvInit, IInvStep, PTL DEF Spec

\* The list of channels a send iterates over may be out of date; all the same
\* no message is written to the channel of a session that was removed, on any
\* server, however many fail and however the servers call each other.
THEOREM NoLateWrite == Spec => NoWriteAfterRemoval
<1> DEFINE P == \A c \in Conn : written'[c] # written[c] => c \in sessions
<1>1. IInv /\ [Next]_vars => [P]_vars
  <2> SUFFICES ASSUME IInv, [Next]_vars, NEW c \in Conn, written'[c] # written[c]
               PROVE  c \in sessions
    OBVIOUS
  <2>1. PICK t \in Thread : Write(t)
    BY DEF Next, vars, table, history, Step, EnterMonitor, LeaveMonitor, GetOutChannels,
       WriteFails, GetForeignChannels, Deliver, DeliverFails, SendReturns, DestroySession,
       TellFriend, AllTold, CloseChannel, Probe, Broadcast, LoopEnds, Stanzas, Accept, Login,
       Bind, Presence, Unavailable, StreamEnd, EndOfFile, Message, PeerVanishes, UpdateSessions
  <2>2. PICK d \in Top(t).left :
          /\ sock[d] \in {"open", "broken"}
          /\ written' = IF Top(t).call.what.kind = "chat"
                        THEN [written EXCEPT ![d][Top(t).call.what.msg] = @ + 1] ELSE written
    BY <2>1 DEF Write
  <2>3. c = d  BY <2>2 DEF IInv, TypeOK
  <2>4. stack[t] # <<>> /\ Top(t).op = "writes"  BY <2>1 DEF Write, Running
  <2>5. Top(t) = stack[t][1] /\ 1 \in 1..Len(stack[t])
    <3>1. stack[t] \in Seq(Frame)  BY DEF IInv, TypeOK
    <3> QED  BY <2>4, <3>1 DEF Top
  <2>6. c \in sessions \/ sock[c] = "closed"
    BY <2>2, <2>3, <2>4, <2>5 DEF IInv, SnapshotInv
  <2> QED  BY <2>2, <2>3, <2>6
<1>2. IInv /\ [Next]_vars /\ IInv' => [P]_vars  BY <1>1
<1> QED  BY <1>2, SnapshotSound, PTL DEF Spec, NoWriteAfterRemoval
=============================================================================
