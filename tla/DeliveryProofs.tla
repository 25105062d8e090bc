--------------------------- MODULE DeliveryProofs ---------------------------
(***************************************************************************)
(* More proofs about SessionManager, for any servers, threads, clients,    *)
(* rosters and messages: the cascade of destroyed sessions is bounded, and *)
(* what becomes of a message: no listed session silently misses it, the    *)
(* sender learns of a failed write on its own server, and a message for a  *)
(* full jid reaches a channel at most once however it is relayed.  All of  *)
(* it together implements the abstract specification Delivery; and who     *)
(* holds a monitor waits for another one in one place of send only.        *)
(***************************************************************************)
EXTENDS SessionManagerProofs

-----------------------------------------------------------------------------
(* A step of a thread replaces the first frame of its stack by New(t)      *)
(* others; the frames below it keep their order.                           *)

New(t) == Len(stack'[t]) - Len(stack[t]) + 1

\* Where the frames of the stack of t are after n have replaced the first.
Moved(t, n) ==
  /\ n \in Nat
  /\ stack[t] # <<>> /\ stack[t] \in Seq(Frame) /\ stack'[t] \in Seq(Frame)
  /\ Len(stack[t]) \in Nat /\ Len(stack[t]) >= 1
  /\ Len(stack'[t]) = n + Len(stack[t]) - 1
  /\ Top(t) = stack[t][1] /\ Top(t) \in Frame
  /\ \A u \in Thread : u # t => stack'[u] = stack[u]
  /\ \A i \in 1..Len(stack'[t]) :
       i > n => /\ i - n + 1 \in 2..Len(stack[t])
                /\ stack'[t][i] = stack[t][i - n + 1]
  /\ \A i \in 2..Len(stack[t]) :
       /\ i + n - 1 \in (n+1)..Len(stack'[t])
       /\ stack'[t][i + n - 1] = stack[t][i]

LEMMA Moves ==
  ASSUME TypeOK, NEW t \in Thread, Step(t)
  PROVE  Moved(t, New(t))
<1>1. PICK fs \in Seq(Frame) : Return(t, fs)  BY StepFrames
<1>2. stack[t] # <<>> /\ stack[t] \in Seq(Frame)  BY StepFrames DEF TypeOK
<1>3. stack'[t] = fs \o Tail(stack[t]) /\ \A u \in Thread : u # t => stack'[u] = stack[u]
  BY <1>1 DEF Return, TypeOK
<1>4. /\ stack'[t] \in Seq(Frame)
      /\ Len(stack'[t]) = Len(fs) + Len(stack[t]) - 1
      /\ Len(fs) \in Nat /\ Len(stack[t]) \in Nat /\ Len(stack[t]) >= 1
      /\ Top(t) = stack[t][1] /\ Top(t) \in Frame
  BY <1>1, <1>2, <1>3, ReplaceHead DEF Top
<1>5. New(t) = Len(fs)  BY <1>4 DEF New
<1>6. \A i \in 1..Len(stack'[t]) :
        i > Len(fs) => /\ i - Len(fs) + 1 \in 2..Len(stack[t])
                       /\ stack'[t][i] = stack[t][i - Len(fs) + 1]
  BY <1>1, <1>2, <1>3, ReplaceHead
<1>7. ASSUME NEW i \in 2..Len(stack[t])
      PROVE  /\ i + Len(fs) - 1 \in (Len(fs)+1)..Len(stack'[t])
             /\ stack'[t][i + Len(fs) - 1] = stack[t][i]
  <2> DEFINE k == i + Len(fs) - 1
  <2>1. k \in 1..Len(stack'[t]) /\ k > Len(fs) /\ k - Len(fs) + 1 = i  BY <1>4
  <2> HIDE DEF k
  <2>2. stack'[t][k] = stack[t][i]  BY <1>6, <2>1
  <2> QED  BY <1>4, <2>1, <2>2 DEF k
<1> QED  BY <1>2, <1>3, <1>4, <1>5, <1>6, <1>7 DEF Moved

\* The new frames, when the step says what they are.
LEMMA NoneNew ==
  ASSUME TypeOK, NEW t \in Thread, stack[t] # <<>>, Return(t, <<>>)
  PROVE  New(t) = 0
<1>1. stack[t] \in Seq(Frame) /\ stack'[t] = <<>> \o Tail(stack[t])
  BY DEF Return, TypeOK
<1>2. <<>> \in Seq(Frame)  BY ShortSequences
<1>3. Len(stack'[t]) = Len(<<>>) + Len(stack[t]) - 1 /\ Len(stack[t]) \in Nat
  BY <1>1, <1>2, ReplaceHead
<1> QED  BY <1>3 DEF New

LEMMA SomeNew ==
  ASSUME TypeOK, NEW t \in Thread, stack[t] # <<>>, NEW S, NEW fs \in Seq(S), Return(t, fs)
  PROVE  New(t) = Len(fs) /\ \A k \in 1..Len(fs) : stack'[t][k] = fs[k]
<1> DEFINE T == S \cup Frame
<1>1. stack[t] \in Seq(Frame) /\ stack'[t] = fs \o Tail(stack[t])
  BY DEF Return, TypeOK
<1>2. stack[t] \in Seq(T) /\ fs \in Seq(T)  BY <1>1
<1> HIDE DEF T
<1>3. /\ Len(stack'[t]) = Len(fs) + Len(stack[t]) - 1
      /\ Len(stack[t]) \in Nat /\ Len(stack[t]) >= 1 /\ Len(fs) \in Nat
      /\ \A i \in 1..Len(stack'[t]) : i <= Len(fs) => stack'[t][i] = fs[i]
  BY <1>1, <1>2, ReplaceHead
<1>4. \A k \in 1..Len(fs) : k \in 1..Len(stack'[t])  BY <1>3
<1> QED  BY <1>3, <1>4 DEF New

LEMMA OneNew ==
  ASSUME TypeOK, NEW t \in Thread, stack[t] # <<>>, NEW a, Return(t, <<a>>)
  PROVE  New(t) = 1 /\ stack'[t][1] = a
<1> DEFINE S == {a}
           fs == <<a>>
<1>1. fs \in Seq(S) /\ Len(fs) = 1 /\ fs[1] = a  OBVIOUS
<1>2. Return(t, fs)  OBVIOUS
<1> HIDE DEF S, fs
<1>3. New(t) = Len(fs) /\ \A k \in 1..Len(fs) : stack'[t][k] = fs[k]
  BY <1>1, <1>2, SomeNew
<1> QED  BY <1>1, <1>3

LEMMA TwoNew ==
  ASSUME TypeOK, NEW t \in Thread, stack[t] # <<>>, NEW a, NEW b, Return(t, <<a, b>>)
  PROVE  New(t) = 2 /\ stack'[t][1] = a /\ stack'[t][2] = b
<1> DEFINE S == {a, b}
           fs == <<a, b>>
<1>1. fs \in Seq(S) /\ Len(fs) = 2 /\ fs[1] = a /\ fs[2] = b  OBVIOUS
<1>2. Return(t, fs)  OBVIOUS
<1> HIDE DEF S, fs
<1>3. New(t) = Len(fs) /\ \A k \in 1..Len(fs) : stack'[t][k] = fs[k]
  BY <1>1, <1>2, SomeNew
<1> QED  BY <1>1, <1>3

\* The new frames of a failed write, and of a delivery that fails or a probe:
\* some frames, and one more.
LEMMA LastNew ==
  ASSUME TypeOK, NEW t \in Thread, stack[t] # <<>>, NEW p \in Seq(Frame), NEW a,
         Return(t, p \o <<a>>)
  PROVE  /\ New(t) = Len(p) + 1 /\ Len(p) \in Nat
         /\ \A k \in 1..Len(p) : stack'[t][k] = p[k]
         /\ stack'[t][Len(p) + 1] = a
<1> DEFINE S == Frame \cup {a}
           q == <<a>>
<1>1. p \in Seq(S) /\ q \in Seq(S)  OBVIOUS
<1>2. Len(q) = 1 /\ q[1] = a  OBVIOUS
<1>4. Return(t, p \o q)  OBVIOUS
<1> HIDE DEF S, q
<1>3. /\ p \o q \in Seq(S) /\ Len(p \o q) = Len(p) + 1 /\ Len(p) \in Nat
      /\ \A k \in 1..Len(p) : (p \o q)[k] = p[k]
      /\ (p \o q)[Len(p) + 1] = a
  <2>1. p \o q \in Seq(S) /\ Len(p \o q) = Len(p) + Len(q) /\ Len(p) \in Nat
    BY <1>1
  <2>2. \A k \in 1..Len(p) : (p \o q)[k] = p[k]  BY <1>1
  <2>3. (p \o q)[Len(p) + 1] = q[1]  BY <1>1, <1>2, <2>1
  <2> QED  BY <1>2, <2>1, <2>2, <2>3
<1>5. New(t) = Len(p \o q) /\ \A k \in 1..Len(p \o q) : stack'[t][k] = (p \o q)[k]
  BY <1>3, <1>4, SomeNew
<1>6. Len(p) + 1 \in 1..Len(p \o q) /\ \A k \in 1..Len(p) : k \in 1..Len(p \o q)
  BY <1>3
<1> HIDE DEF q
<1> QED  BY <1>3, <1>5, <1>6

-----------------------------------------------------------------------------
(* What the frames of a stack are about.                                   *)

\* The frame f destroys the session c, or will once it has the monitor.
Destroys(f, c) ==
  \/ f.op = "destroy" /\ f.conn = c
  \/ f.op = "sync" /\ f.body.op = "destroy" /\ f.body.conn = c
\* The frame f closes the channel of c, which has left the table.
Shuts(f, c) == f.op = "shut" /\ f.conn = c

\* The frame f is part of the delivery of the error about m.
Complains(f, m) == Sends(f) /\ CallOf(f).what.kind = "error" /\ CallOf(f).what.msg = m

\* What a frame tells of is a presence, not a message or an error.
Told(f) == f.op \in {"tell", "broadcast"} => f.what.kind \notin {"chat", "error"}

\* Nothing is removed by the frame f.
Plain(f) == Told(f) /\ \A c \in Conn : ~ Destroys(f, c) /\ ~ Shuts(f, c)
\* Nor is a message carried, or an error: what the frame sends is a presence.
SendsPresence(f) == ~ CallOf(f).notify /\ CallOf(f).what.kind \notin {"chat", "error"}
Quiet(f) ==
  /\ Plain(f) /\ (Sends(f) => SendsPresence(f))
  /\ \A m \in Msg : ~ Carries(f, m) /\ ~ Complains(f, m)

LEMMA QuietFrames ==
  ASSUME NEW s, NEW to, NEW jid, NEW left, NEW c, NEW what, what.kind \notin {"chat", "error"}
  PROVE  /\ Quiet(SendFrame(s, to, what, FALSE)) /\ Quiet(SyncFrame(SendFrame(s, to, what, FALSE)))
         /\ Quiet(TellFrame(s, what, left)) /\ Quiet(BroadcastFrame(s, what, left))
         /\ Quiet(ProbeFrame(c, left)) /\ Quiet(UnlockFrame(s))
BY DEF Quiet, SendsPresence, Plain, Told, Carries, Complains, Sends, CallOf, Destroys, Shuts, SendFrame, SyncFrame, TellFrame,
       BroadcastFrame, ProbeFrame, UnlockFrame

PresenceInv == \A t \in Thread : \A i \in 1..Len(stack[t]) : Told(stack[t][i])

LEMMA QuietStep ==
  ASSUME TypeOK, PresenceInv, NEW t \in Thread, Step(t),
         \/ LeaveMonitor(t) \/ SendReturns(t) \/ AllTold(t) \/ CloseChannel(t) \/ LoopEnds(t)
         \/ TellFriend(t) \/ Probe(t) \/ Broadcast(t)
  PROVE  \A k \in 1..New(t) : Quiet(stack'[t][k])
<1>0. Moved(t, New(t))  BY Moves
<1>1. stack[t] # <<>> /\ Top(t) = stack[t][1] /\ 1 \in 1..Len(stack[t]) /\ Top(t) \in Frame
  BY <1>0 DEF Moved
<1>2. CASE LeaveMonitor(t) \/ SendReturns(t) \/ AllTold(t) \/ CloseChannel(t) \/ LoopEnds(t)
  <2>1. Return(t, <<>>)
    BY <1>2 DEF LeaveMonitor, SendReturns, AllTold, CloseChannel, LoopEnds
  <2>2. New(t) = 0  BY <1>1, <2>1, NoneNew
  <2> QED  BY <2>2
<1>3. CASE TellFriend(t)
  <2> DEFINE f == Top(t)
  <2>1. f.what.kind \notin {"chat", "error"}  BY <1>1, <1>3 DEF PresenceInv, Told, TellFriend, Running
  <2>2. PICK u \in f.left : Return(t, <<SendFrame(f.at, Bare(u), f.what, FALSE),
                                        TellFrame(f.at, f.what, f.left \ {u})>>)
    BY <1>3 DEF TellFriend
  <2> DEFINE a == SendFrame(f.at, Bare(u), f.what, FALSE)
             b == TellFrame(f.at, f.what, f.left \ {u})
  <2>3. f.what.kind \notin {"chat", "error"} => Quiet(a) /\ Quiet(b)  BY QuietFrames
  <2>4. Return(t, <<a, b>>)  BY <2>2
  <2> HIDE DEF a, b
  <2>5. New(t) = 2 /\ stack'[t][1] = a /\ stack'[t][2] = b  BY <1>1, <2>4, TwoNew
  <2>6. \A k \in 1..New(t) : k = 1 \/ k = 2  BY <2>5
  <2> QED  BY <2>1, <2>3, <2>5, <2>6
<1>4. CASE Broadcast(t)
  <2> DEFINE f == Top(t)
  <2>1. f.what.kind \notin {"chat", "error"}  BY <1>1, <1>4 DEF PresenceInv, Told, Broadcast, Running
  <2>2. PICK u \in f.left : Return(t, <<SyncFrame(SendFrame(f.at, Bare(u), f.what, FALSE)),
                                        BroadcastFrame(f.at, f.what, f.left \ {u})>>)
    BY <1>4 DEF Broadcast
  <2> DEFINE a == SyncFrame(SendFrame(f.at, Bare(u), f.what, FALSE))
             b == BroadcastFrame(f.at, f.what, f.left \ {u})
  <2>3. f.what.kind \notin {"chat", "error"} => Quiet(a) /\ Quiet(b)  BY QuietFrames
  <2>4. Return(t, <<a, b>>)  BY <2>2
  <2> HIDE DEF a, b
  <2>5. New(t) = 2 /\ stack'[t][1] = a /\ stack'[t][2] = b  BY <1>1, <2>4, TwoNew
  <2>6. \A k \in 1..New(t) : k = 1 \/ k = 2  BY <2>5
  <2> QED  BY <2>1, <2>3, <2>5, <2>6
<1>5. CASE Probe(t)
  <2> DEFINE c == Top(t).conn
             ask(u) == SyncFrame(SendFrame(At(c), JidOf(c), Online(Bare(u)), FALSE))
  <2>1. PICK u \in Top(t).left :
          Return(t, (IF Matching(At(c), Bare(u)) # {} THEN <<ask(u)>> ELSE <<>>)
                      \o <<ProbeFrame(c, Top(t).left \ {u})>>)
    BY <1>5 DEF Probe
  <2> DEFINE p == IF Matching(At(c), Bare(u)) # {} THEN <<ask(u)>> ELSE <<>>
             a == ProbeFrame(c, Top(t).left \ {u})
  <2>2. /\ c \in Conn /\ u \in User
        /\ At(c) \in Server /\ JidOf(c) \in Jid /\ Online(Bare(u)) \in Stanza
    BY <1>1, <1>5, FrameFields, ConnTypes, JidTypes, StanzaTypes DEF Probe, Running
  <2>3. ask(u) \in Frame
    <3>1. SendFrame(At(c), JidOf(c), Online(Bare(u)), FALSE) \in Inside
      BY <2>2 DEF SendFrame, Inside, Call
    <3> QED  BY <3>1, SyncType DEF Frame
  <2>4. Quiet(ask(u)) /\ Quiet(a)
    <3> DEFINE what == Online(Bare(u))
    <3>1. what.kind \notin {"chat", "error"}  BY DEF Online
    <3> HIDE DEF what
    <3>2. Quiet(SyncFrame(SendFrame(At(c), JidOf(c), what, FALSE)))  BY <3>1, QuietFrames
    <3>3. Quiet(a)  BY <3>1, QuietFrames
    <3> QED  BY <3>2, <3>3 DEF what
  <2> HIDE DEF ask, a
  <2>5. p \in Seq(Frame) /\ \A k \in 1..Len(p) : Quiet(p[k])
    BY <2>3, <2>4, ShortSequences
  <2> HIDE DEF p
  <2>6. Return(t, p \o <<a>>)  BY <2>1 DEF p, a
  <2>7. /\ New(t) = Len(p) + 1 /\ Len(p) \in Nat /\ stack'[t][Len(p) + 1] = a
        /\ \A k \in 1..Len(p) : stack'[t][k] = p[k]
    BY <1>1, <2>5, <2>6, LastNew
  <2>8. \A k \in 1..New(t) : k \in 1..Len(p) \/ k = Len(p) + 1  BY <2>7
  <2> QED  BY <2>4, <2>5, <2>7, <2>8
<1> QED  BY <1>2, <1>3, <1>4, <1>5

-----------------------------------------------------------------------------
(* The new frames of the other calls.                                      *)

LEMMA EnterNew ==
  ASSUME TypeOK, PlaceInv, NEW t \in Thread, EnterMonitor(t)
  PROVE  /\ Top(t).op = "sync" /\ lock[Top(t).at] = None /\ Top(t).at \in Server
         /\ Top(t).body.op \in {"send", "destroy"} /\ Top(t).body.at = Top(t).at
         /\ New(t) = 2 /\ stack'[t][1] = Top(t).body /\ stack'[t][2] = UnlockFrame(Top(t).at)
<1>1. stack[t] # <<>> /\ Top(t).op = "sync"  BY DEF EnterMonitor, Running
<1>2. Top(t) \in Frame /\ Top(t) = stack[t][1] /\ 1 \in 1..Len(stack[t])
  BY <1>1, TopType DEF TypeOK
<1>3. InPlace(Top(t))  BY <1>2 DEF PlaceInv
<1> DEFINE a == Top(t).body
           b == UnlockFrame(Top(t).at)
<1>4. Return(t, <<a, b>>)  BY DEF EnterMonitor
<1> HIDE DEF a, b
<1>5. New(t) = 2 /\ stack'[t][1] = a /\ stack'[t][2] = b  BY <1>1, <1>4, TwoNew
<1> QED  BY <1>1, <1>2, <1>3, <1>5, FrameFields DEF a, b, InPlace, EnterMonitor

LEMMA GetOutChannelsNew ==
  ASSUME TypeOK, NEW t \in Thread, GetOutChannels(t)
  PROVE  LET f == Top(t)
         IN  /\ f.op = "send" /\ f.at \in Server /\ f.call \in Call
             /\ New(t) = 1
             /\ stack'[t][1] = WritesFrame(f.at, f.call, Matching(f.at, f.call.to))
<1>1. stack[t] # <<>> /\ Top(t).op = "send"  BY DEF GetOutChannels, Running
<1> DEFINE a == WritesFrame(Top(t).at, Top(t).call, Matching(Top(t).at, Top(t).call.to))
<1>2. Return(t, <<a>>)  BY DEF GetOutChannels
<1> HIDE DEF a
<1>3. New(t) = 1 /\ stack'[t][1] = a  BY <1>1, <1>2, OneNew
<1> QED  BY <1>1, <1>3, TopType, FrameFields DEF a

LEMMA WriteNew ==
  ASSUME TypeOK, NEW t \in Thread, Write(t)
  PROVE  LET f == Top(t)
             what == f.call.what
         IN  /\ f.op = "writes" /\ f.at \in Server /\ f.call \in Call /\ f.left \in SUBSET Conn
             /\ New(t) = 1
             /\ \E c \in f.left :
                  /\ stack'[t][1] = WritesFrame(f.at, f.call, f.left \ {c})
                  /\ written' = IF what.kind = "chat"
                                THEN [written EXCEPT ![c][what.msg] = @ + 1] ELSE written
                  /\ bounced' = IF what.kind = "error"
                                THEN [bounced EXCEPT ![what.msg] = @ \cup {c}] ELSE bounced
<1>1. stack[t] # <<>> /\ Top(t).op = "writes"  BY DEF Write, Running
<1>2. PICK c \in Top(t).left :
        /\ Return(t, <<WritesFrame(Top(t).at, Top(t).call, Top(t).left \ {c})>>)
        /\ written' = IF Top(t).call.what.kind = "chat"
                      THEN [written EXCEPT ![c][Top(t).call.what.msg] = @ + 1] ELSE written
        /\ bounced' = IF Top(t).call.what.kind = "error"
                      THEN [bounced EXCEPT ![Top(t).call.what.msg] = @ \cup {c}] ELSE bounced
  BY DEF Write
<1> DEFINE a == WritesFrame(Top(t).at, Top(t).call, Top(t).left \ {c})
<1>3. Return(t, <<a>>)  BY <1>2
<1> HIDE DEF a
<1>4. New(t) = 1 /\ stack'[t][1] = a  BY <1>1, <1>3, OneNew
<1> QED  BY <1>1, <1>2, <1>4, TopType, FrameFields DEF a

LEMMA GetForeignChannelsNew ==
  ASSUME TypeOK, NEW t \in Thread, GetForeignChannels(t)
  PROVE  LET f == Top(t)
         IN  /\ f.op = "writes" /\ f.at \in Server /\ f.call \in Call /\ f.left = {}
             /\ New(t) = 1
             /\ stack'[t][1] = DeliversFrame(f.at, f.call,
                                 {r \in remote[f.at] : StartsWith(r.jid, f.call.to)})
<1>1. stack[t] # <<>> /\ Top(t).op = "writes" /\ Top(t).left = {}
  BY DEF GetForeignChannels, Running
<1> DEFINE a == DeliversFrame(Top(t).at, Top(t).call,
                  {r \in remote[Top(t).at] : StartsWith(r.jid, Top(t).call.to)})
<1>2. Return(t, <<a>>)  BY DEF GetForeignChannels
<1> HIDE DEF a
<1>3. New(t) = 1 /\ stack'[t][1] = a  BY <1>1, <1>2, OneNew
<1> QED  BY <1>1, <1>3, TopType, FrameFields DEF a

LEMMA DeliverNew ==
  ASSUME TypeOK, NEW t \in Thread, Deliver(t)
  PROVE  LET f == Top(t)
         IN  /\ f.op = "delivers" /\ f.at \in Server /\ f.call \in Call
             /\ New(t) = 2
             /\ \E r \in f.left :
                  /\ stack'[t][1] = SyncFrame(SendFrame(r.at, f.call.to, f.call.what, FALSE))
                  /\ stack'[t][2] = DeliversFrame(f.at, f.call, f.left \ {r})
<1>1. stack[t] # <<>> /\ Top(t).op = "delivers"  BY DEF Deliver, Running
<1>2. PICK r \in Top(t).left :
        Return(t, <<SyncFrame(SendFrame(r.at, Top(t).call.to, Top(t).call.what, FALSE)),
                    DeliversFrame(Top(t).at, Top(t).call, Top(t).left \ {r})>>)
  BY DEF Deliver
<1> DEFINE a == SyncFrame(SendFrame(r.at, Top(t).call.to, Top(t).call.what, FALSE))
           b == DeliversFrame(Top(t).at, Top(t).call, Top(t).left \ {r})
<1>3. Return(t, <<a, b>>)  BY <1>2
<1> HIDE DEF a, b
<1>4. New(t) = 2 /\ stack'[t][1] = a /\ stack'[t][2] = b  BY <1>1, <1>3, TwoNew
<1> QED  BY <1>1, <1>4, TopType, FrameFields DEF a, b

\* The error a failed call gives rise to.
ErrorFrame(f) == SendFrame(f.at, f.call.what.from, ErrorOf(f.call.what), FALSE)

LEMMA NotifyIs ==
  ASSUME NEW f \in Frame, f.op \in {"writes", "delivers"}
  PROVE  /\ f.at \in Server /\ f.call \in Call
         /\ Notify(f.at, f.call) \in Seq(Frame)
         /\ \A k \in 1..Len(Notify(f.at, f.call)) :
              f.call.notify /\ Notify(f.at, f.call)[k] = ErrorFrame(f)
         /\ f.call.notify => \E k \in 1..Len(Notify(f.at, f.call)) :
                               Notify(f.at, f.call)[k] = ErrorFrame(f)
<1>1. f.at \in Server /\ f.call \in Call  BY FrameFields
<1>2. Notify(f.at, f.call) \in Seq(Frame)  BY <1>1, NotifyType
<1> DEFINE e == ErrorFrame(f)
<1>3. Notify(f.at, f.call) = IF f.call.notify THEN <<e>> ELSE <<>>
  BY DEF Notify, ErrorFrame
<1> HIDE DEF e
<1>4. Len(<<e>>) = 1 /\ <<e>>[1] = e /\ Len(<<>>) = 0  OBVIOUS
<1> QED  BY <1>1, <1>2, <1>3, <1>4 DEF e

LEMMA DeliverFailsNew ==
  ASSUME TypeOK, NEW t \in Thread, DeliverFails(t)
  PROVE  LET f == Top(t)
         IN  /\ f.op = "delivers" /\ f.at \in Server /\ f.call \in Call
             /\ New(t) \in Nat /\ New(t) >= 1
             /\ \A k \in 1..(New(t)-1) : f.call.notify /\ stack'[t][k] = ErrorFrame(f)
             /\ \E r \in f.left :
                  stack'[t][New(t)] = DeliversFrame(f.at, f.call, f.left \ {r})
<1> DEFINE f == Top(t)
           p == Notify(f.at, f.call)
<1>1. stack[t] # <<>> /\ f.op = "delivers" /\ f \in Frame
  BY TopType DEF DeliverFails, Running
<1>2. PICK r \in f.left : Return(t, p \o <<DeliversFrame(f.at, f.call, f.left \ {r})>>)
  BY DEF DeliverFails
<1> DEFINE a == DeliversFrame(f.at, f.call, f.left \ {r})
<1>3. p \in Seq(Frame) /\ \A k \in 1..Len(p) : f.call.notify /\ p[k] = ErrorFrame(f)
  BY <1>1, NotifyIs
<1>4. Return(t, p \o <<a>>)  BY <1>2
<1>5. f.at \in Server /\ f.call \in Call  BY <1>1, FrameFields
<1> HIDE DEF a, p, f
<1>6. /\ New(t) = Len(p) + 1 /\ Len(p) \in Nat /\ stack'[t][Len(p) + 1] = a
      /\ \A k \in 1..Len(p) : stack'[t][k] = p[k]
  BY <1>1, <1>3, <1>4, LastNew
<1>7. New(t) - 1 = Len(p) /\ New(t) = Len(p) + 1 /\ New(t) \in Nat /\ New(t) >= 1  BY <1>6
<1>8. \A k \in 1..(New(t) - 1) : f.call.notify /\ stack'[t][k] = ErrorFrame(f)  BY <1>3, <1>6, <1>7
<1>9. stack'[t][New(t)] = a  BY <1>6, <1>7
<1> QED  BY <1>1, <1>5, <1>7, <1>8, <1>9 DEF a, f

LEMMA WriteFailsNew ==
  ASSUME TypeOK, NEW t \in Thread, WriteFails(t)
  PROVE  LET f == Top(t)
         IN  /\ f.op = "writes" /\ f.at \in Server /\ f.call \in Call /\ f.left \in SUBSET Conn
             /\ New(t) \in Nat /\ New(t) >= 1
             /\ \E c \in f.left :
                  /\ stack'[t][New(t)] = WritesFrame(f.at, f.call, f.left \ {c})
                  /\ \A k \in 1..(New(t)-1) :
                       \/ c \in sessions /\ stack'[t][k] = DestroyFrame(c)
                       \/ f.call.notify /\ stack'[t][k] = ErrorFrame(f)
                  /\ c \in sessions => \E k \in 1..(New(t)-1) : stack'[t][k] = DestroyFrame(c)
                  /\ f.call.notify => \E k \in 1..(New(t)-1) : stack'[t][k] = ErrorFrame(f)
                  /\ missed' = IF f.call.what.kind = "chat"
                               THEN [missed EXCEPT ![f.call.what.msg] = @ \cup {c}] ELSE missed
<1> DEFINE f == Top(t)
           q == Notify(f.at, f.call)
<1>1. stack[t] # <<>> /\ f.op = "writes" /\ f \in Frame
  BY TopType DEF WriteFails, Running
<1>5. f.at \in Server /\ f.call \in Call /\ f.left \in SUBSET Conn  BY <1>1, FrameFields
<1>2. PICK c \in f.left :
        /\ Return(t, CloseSession(c) \o q \o <<WritesFrame(f.at, f.call, f.left \ {c})>>)
        /\ missed' = IF f.call.what.kind = "chat"
                     THEN [missed EXCEPT ![f.call.what.msg] = @ \cup {c}] ELSE missed
  BY DEF WriteFails
<1> DEFINE a == WritesFrame(f.at, f.call, f.left \ {c})
           p == CloseSession(c)
           d == DestroyFrame(c)
<1>3. /\ q \in Seq(Frame) /\ \A k \in 1..Len(q) : f.call.notify /\ q[k] = ErrorFrame(f)
      /\ f.call.notify => \E k \in 1..Len(q) : q[k] = ErrorFrame(f)
  BY <1>1, NotifyIs
<1>4. /\ p \in Seq(Frame) /\ \A k \in 1..Len(p) : c \in sessions /\ p[k] = d
      /\ c \in sessions => \E k \in 1..Len(p) : p[k] = d
  <2>1. p \in Seq(Frame)  BY <1>5, CloseSessionType
  <2>2. p = IF c \in sessions THEN <<d>> ELSE <<>>  BY DEF CloseSession
  <2> HIDE DEF d, p
  <2>3. Len(<<d>>) = 1 /\ <<d>>[1] = d /\ Len(<<>>) = 0  OBVIOUS
  <2> QED  BY <2>1, <2>2, <2>3
<1>6. Return(t, (p \o q) \o <<a>>)  BY <1>2
<1> DEFINE e == ErrorFrame(f)
<1> HIDE DEF a, p, q, f, d, e
<1>7. /\ p \o q \in Seq(Frame) /\ Len(p \o q) = Len(p) + Len(q)
      /\ \A k \in 1..(Len(p) + Len(q)) : (p \o q)[k] = IF k <= Len(p) THEN p[k] ELSE q[k - Len(p)]
  BY <1>3, <1>4, ConcatProperties
<1>8. /\ New(t) = Len(p \o q) + 1 /\ Len(p \o q) \in Nat /\ stack'[t][Len(p \o q) + 1] = a
      /\ \A k \in 1..Len(p \o q) : stack'[t][k] = (p \o q)[k]
  <2> DEFINE w == p \o q
  <2>1. w \in Seq(Frame) /\ Return(t, w \o <<a>>)  BY <1>6, <1>7
  <2> HIDE DEF w
  <2>2. /\ New(t) = Len(w) + 1 /\ Len(w) \in Nat /\ stack'[t][Len(w) + 1] = a
        /\ \A k \in 1..Len(w) : stack'[t][k] = w[k]
    BY <1>1, <2>1, LastNew
  <2> QED  BY <2>2 DEF w
<1>9. New(t) - 1 = Len(p) + Len(q) /\ Len(p) \in Nat /\ Len(q) \in Nat
  BY <1>3, <1>4, <1>7, <1>8
<1>10. \A k \in 1..(New(t)-1) :
         (c \in sessions /\ stack'[t][k] = d) \/ (f.call.notify /\ stack'[t][k] = e)
  <2> SUFFICES ASSUME NEW k \in 1..(New(t)-1)
               PROVE  (c \in sessions /\ stack'[t][k] = d) \/ (f.call.notify /\ stack'[t][k] = e)
    OBVIOUS
  <2>1. stack'[t][k] = IF k <= Len(p) THEN p[k] ELSE q[k - Len(p)]  BY <1>7, <1>8, <1>9
  <2>2. k \in 1..Len(p) \/ (~ (k <= Len(p)) /\ k - Len(p) \in 1..Len(q))  BY <1>9
  <2> QED  BY <1>3, <1>4, <2>1, <2>2 DEF e
<1>11. c \in sessions => \E k \in 1..(New(t)-1) : stack'[t][k] = d
  <2> SUFFICES ASSUME NEW k \in 1..Len(p), p[k] = d, c \in sessions
               PROVE  \E i \in 1..(New(t)-1) : stack'[t][i] = d
    BY <1>4
  <2>1. k \in 1..(New(t)-1) /\ k <= Len(p)  BY <1>9
  <2> QED  BY <1>7, <1>8, <1>9, <2>1
<1>12. f.call.notify => \E k \in 1..(New(t)-1) : stack'[t][k] = e
  <2> SUFFICES ASSUME NEW k \in 1..Len(q), q[k] = e
               PROVE  \E i \in 1..(New(t)-1) : stack'[t][i] = e
    BY <1>3 DEF e
  <2> DEFINE i == k + Len(p)
  <2>1. i \in 1..(New(t)-1) /\ ~ (i <= Len(p)) /\ i - Len(p) = k  BY <1>9
  <2> HIDE DEF i
  <2>2. stack'[t][i] = q[i - Len(p)]  BY <1>7, <1>8, <1>9, <2>1
  <2> QED  BY <2>1, <2>2
<1>13. stack'[t][New(t)] = a /\ New(t) \in Nat /\ New(t) >= 1  BY <1>8
<1> QED
  BY <1>1, <1>2, <1>5, <1>10, <1>11, <1>12, <1>13 DEF a, d, e, f

LEMMA DestroySessionNew ==
  ASSUME TypeOK, NEW t \in Thread, DestroySession(t)
  PROVE  LET f == Top(t)
         IN  /\ f.op = "destroy" /\ f.conn \in Conn
             /\ sessions' = sessions \ {f.conn}
             /\ New(t) = 2
             /\ stack'[t][1].op = "tell" /\ stack'[t][1].what = Offline(JidOf(f.conn))
             /\ stack'[t][2] = ShutFrame(f.conn)
<1> DEFINE c == Top(t).conn
           told == IF Cardinality(OthersLeft(c)) = 1
                   THEN Friends(who[c], {"none", "to", "from", "both"}) ELSE {}
           a == TellFrame(At(c), Offline(JidOf(c)), told)
           b == ShutFrame(c)
<1>1. stack[t] # <<>> /\ Top(t).op = "destroy"  BY DEF DestroySession, Running
<1>2. c \in Conn  BY <1>1, TopType, FrameFields
<1>3. Return(t, <<a, b>>) /\ sessions' = sessions \ {c}  BY DEF DestroySession
<1>4. a.op = "tell" /\ a.what = Offline(JidOf(c))  BY DEF TellFrame
<1> HIDE DEF a, b
<1>5. New(t) = 2 /\ stack'[t][1] = a /\ stack'[t][2] = b  BY <1>1, <1>3, TwoNew
<1> QED  BY <1>1, <1>2, <1>3, <1>4, <1>5 DEF b

\* The frames a handler of the connection c starts with.
Starting(c, f) ==
  \/ f = SyncFrame(DestroyFrame(c))
  \/ f.op \in {"broadcast", "probe"} /\ Told(f)

\* The client of c sends the message m.
Sending(c, m, to) ==
  /\ c \in Senders /\ sent[m] = None
  /\ sent' = [sent EXCEPT ![m] = [from |-> c, to |-> to]]
  /\ Len(stack'[Client[c].thread]) = 1
  /\ stack'[Client[c].thread][1]
       = SyncFrame(SendFrame(At(c), to, Chat(m, JidOf(c)), TRUE))

LEMMA StanzaNew ==
  ASSUME TypeOK, NEW c \in Conn, Stanzas(c)
  PROVE  \/ UNCHANGED <<stack, history>>
         \/ /\ stack[Client[c].thread] = <<>> /\ sock[c] # "new"
            /\ \A u \in Thread : u # Client[c].thread => stack'[u] = stack[u]
            /\ UNCHANGED <<table, remote, lock, owed, missed, bounced, written>>
            /\ \/ /\ sent' = sent
                  /\ \A k \in 1..Len(stack'[Client[c].thread]) :
                       Starting(c, stack'[Client[c].thread][k])
               \/ \E m \in Msg, to \in Targets : Sending(c, m, to)
<1> DEFINE T == Client[c].thread
           destroy == SyncFrame(DestroyFrame(c))
<1> USE DEF table, history
<1>t. T \in Thread  BY ConnTypes
<1>r. Ready(c) => stack[T] = <<>> /\ sock[c] # "new"  BY DEF Ready
<1>s. ASSUME NEW fs, Start(c, fs)
      PROVE  stack'[T] = fs /\ \A u \in Thread : u # T => stack'[u] = stack[u]
  BY <1>s, <1>t DEF Start, TypeOK
<1>d. Starting(c, destroy)  BY DEF Starting
<1>b. ASSUME NEW s, NEW what, NEW left, what.kind \notin {"chat", "error"}
      PROVE  Starting(c, BroadcastFrame(s, what, left))
  BY <1>b DEF Starting, Told, BroadcastFrame
<1>k. {Online(JidOf(c)).kind, Offline(JidOf(c)).kind} \cap {"chat", "error"} = {}
  BY DEF Online, Offline
<1>1. CASE Accept(c)  BY <1>1 DEF Accept
<1>2. CASE Login(c)  BY <1>2 DEF Login
<1>3. CASE Bind(c)  BY <1>3 DEF Bind
<1>4. CASE EndOfFile(c)  BY <1>4 DEF EndOfFile
<1>5. CASE Presence(c)
  <2> DEFINE a == ProbeFrame(c, Friends(who[c], {"to", "both"}))
             b == BroadcastFrame(At(c), Online(JidOf(c)), Friends(who[c], {"from", "both"}))
  <2>1. Starting(c, a) /\ Starting(c, b)
    BY <1>b, <1>k DEF Starting, Told, ProbeFrame
  <2>2. Ready(c) /\ Start(c, <<a, b>>)
        /\ UNCHANGED <<table, remote, lock, owed, missed, bounced, written, sent>>
    BY <1>5 DEF Presence
  <2> HIDE DEF a, b
  <2>3. Len(<<a, b>>) = 2 /\ <<a, b>>[1] = a /\ <<a, b>>[2] = b  OBVIOUS
  <2>4. stack'[T] = <<a, b>>  BY <1>s, <2>2
  <2>5. \A k \in 1..Len(stack'[T]) : Starting(c, stack'[T][k])
    <3>1. \A k \in 1..Len(stack'[T]) : k = 1 \/ k = 2  BY <2>3, <2>4
    <3> QED  BY <2>1, <2>3, <2>4, <3>1
  <2> QED  BY <1>r, <1>s, <2>2, <2>5
<1>6. CASE Unavailable(c)
  <2> DEFINE b == BroadcastFrame(At(c), Offline(JidOf(c)), Friends(who[c], {"from", "both"}))
  <2>1. Starting(c, b)  BY <1>b, <1>k
  <2>2. PICK again \in {<<>>, <<destroy>>} : Start(c, <<b, destroy>> \o again)
    BY <1>6 DEF Unavailable
  <2>3. Ready(c) /\ UNCHANGED <<table, remote, lock, owed, missed, bounced, written, sent>>
    BY <1>6 DEF Unavailable
  <2> DEFINE d == destroy
             S == {b, d}
  <2>a. again = <<>> \/ again = <<d>>  BY <2>2
  <2> HIDE DEF b, d
  <2>b. b \in S /\ d \in S  OBVIOUS
  <2> HIDE DEF S
  <2>4. <<b, d>> \in Seq(S) /\ again \in Seq(S)
    <3>1. <<d>> \in Seq(S) /\ <<>> \in Seq(S) /\ <<b, d>> \in Seq(S)  BY <2>b, ShortSequences
    <3> QED  BY <2>a, <3>1
  <2>5. <<b, d>> \o again \in Seq(S)  BY <2>4, ConcatProperties
  <2>6. stack'[T] = <<b, d>> \o again  BY <1>s, <2>2 DEF d
  <2>7. \A k \in 1..Len(stack'[T]) : stack'[T][k] \in S
    <3> DEFINE w == <<b, d>> \o again
    <3> HIDE DEF w, S
    <3>1. w \in Seq(S)  BY <2>5 DEF w
    <3>2. \A k \in 1..Len(w) : w[k] \in S  BY <3>1
    <3> QED  BY <2>6, <3>2 DEF w
  <2>8. \A k \in 1..Len(stack'[T]) : Starting(c, stack'[T][k])
    BY <1>d, <2>1, <2>7 DEF d, S
  <2> QED  BY <1>r, <1>s, <2>2, <2>3, <2>8
<1>7. CASE StreamEnd(c)
  <2>1. Ready(c) /\ Start(c, <<destroy>>)
        /\ UNCHANGED <<table, remote, lock, owed, missed, bounced, written, sent>>
    BY <1>7 DEF StreamEnd
  <2> DEFINE d == destroy
  <2>2. Start(c, <<d>>) /\ Starting(c, d)  BY <1>d, <2>1
  <2> HIDE DEF d
  <2>3. stack'[T] = <<d>>  BY <1>s, <2>2
  <2>4. \A k \in 1..Len(stack'[T]) : stack'[T][k] = d  BY <2>3
  <2> QED  BY <1>r, <1>s, <2>1, <2>2, <2>4
<1>8. ASSUME NEW m \in Msg, NEW to \in Targets, Message(c, m, to)
      PROVE  /\ stack[T] = <<>> /\ sock[c] # "new"
             /\ \A u \in Thread : u # T => stack'[u] = stack[u]
             /\ UNCHANGED <<table, remote, lock, owed, missed, bounced, written>>
             /\ Sending(c, m, to)
  <2> DEFINE a == SyncFrame(SendFrame(At(c), to, Chat(m, JidOf(c)), TRUE))
  <2>1. Ready(c) /\ Start(c, <<a>>)  BY <1>8 DEF Message
  <2> HIDE DEF a
  <2>2. stack'[T] = <<a>>  BY <1>s, <2>1
  <2>3. Len(stack'[T]) = 1 /\ stack'[T][1] = a  BY <2>2
  <2> QED  BY <1>r, <1>s, <1>8, <2>1, <2>3 DEF Message, Sending, a
<1> QED
  BY <1>1, <1>2, <1>3, <1>4, <1>5, <1>6, <1>7, <1>8 DEF Stanzas

LEMMA PlainFrames ==
  ASSUME NEW s, NEW to, NEW what, NEW n, NEW call, NEW left, NEW f
  PROVE  /\ Plain(SendFrame(s, to, what, n)) /\ Plain(SyncFrame(SendFrame(s, to, what, n)))
         /\ Plain(WritesFrame(s, call, left)) /\ Plain(DeliversFrame(s, call, left))
         /\ Plain(ErrorFrame(f)) /\ Plain(UnlockFrame(s))
BY DEF Plain, Told, Destroys, Shuts, SendFrame, SyncFrame, WritesFrame, DeliversFrame,
       UnlockFrame, ErrorFrame

\* The new frames of the calls that end, or tell of a presence, apart.
LEMMA LoudStep ==
  ASSUME NEW t \in Thread, Step(t)
  PROVE  \/ EnterMonitor(t) \/ GetOutChannels(t) \/ Write(t) \/ WriteFails(t)
         \/ GetForeignChannels(t) \/ Deliver(t) \/ DeliverFails(t) \/ DestroySession(t)
         \/ LeaveMonitor(t) \/ SendReturns(t) \/ AllTold(t) \/ CloseChannel(t) \/ LoopEnds(t)
         \/ TellFriend(t) \/ Probe(t) \/ Broadcast(t)
BY DEF Step

\* A step that is not a handler's or a call's leaves the calls alone.
LEMMA OtherStep ==
  ASSUME [Next]_vars
  PROVE  \/ \E t \in Thread : Step(t)
         \/ \E c \in Conn : Stanzas(c)
         \/ UNCHANGED <<stack, sent, owed, missed, bounced, written, sessions, who, res>>
BY DEF Next, PeerVanishes, UpdateSessions, vars, table, history

-----------------------------------------------------------------------------
(* A session is listed once: it is never accepted again.                   *)

LEMMA OnceListed ==
  ASSUME TypeOK, [Next]_vars, NEW c \in Conn, sock[c] # "new"
  PROVE  sock'[c] # "new" /\ (c \notin sessions => c \notin sessions')
<1> USE DEF table, TypeOK
<1>1. ASSUME NEW t \in Thread, Step(t) PROVE sock'[c] # "new" /\ sessions' \subseteq sessions
  BY <1>1 DEF Step, EnterMonitor, LeaveMonitor, GetOutChannels, Write, WriteFails,
     GetForeignChannels, Deliver, DeliverFails, SendReturns, DestroySession, TellFriend, AllTold,
     CloseChannel, Probe, Broadcast, LoopEnds
<1>2. ASSUME NEW d \in Conn, Stanzas(d)
      PROVE  sock'[c] # "new" /\ (c \notin sessions => c \notin sessions')
  BY <1>2 DEF Stanzas, Accept, Login, Bind, Presence, Unavailable, StreamEnd, EndOfFile, Message
<1>3. ASSUME NEW d \in Conn, PeerVanishes(d) PROVE sock'[c] # "new" /\ sessions' = sessions
  BY <1>3 DEF PeerVanishes
<1>4. ASSUME NEW s \in Server, UpdateSessions(s) PROVE UNCHANGED <<sock, sessions>>
  BY <1>4 DEF UpdateSessions
<1>5. CASE UNCHANGED vars  BY <1>5 DEF vars
<1> QED  BY <1>1, <1>2, <1>3, <1>4, <1>5 DEF Next

LEMMA StepSessions ==
  ASSUME NEW t \in Thread, Step(t)
  PROVE  sessions' \subseteq sessions /\ UNCHANGED <<who, res, sent>>
BY DEF Step, EnterMonitor, LeaveMonitor, GetOutChannels, Write, WriteFails,
   GetForeignChannels, Deliver, DeliverFails, SendReturns, DestroySession, TellFriend, AllTold,
   CloseChannel, Probe, Broadcast, LoopEnds, table, history

\* Only DestroySession closes a channel, and only of a session that the call
\* above was to destroy; a destruction is asked for once its session is listed.
\* What is told is a presence.
LEMMA RemovalNew ==
  ASSUME TypeOK, PlaceInv, PresenceInv, NEW t \in Thread, Step(t), NEW k \in 1..New(t)
  PROVE  /\ Told(stack'[t][k])
         /\ \A c \in Conn :
              /\ Destroys(stack'[t][k], c) => Destroys(Top(t), c) \/ c \in sessions
              /\ Shuts(stack'[t][k], c) =>
                   /\ Destroys(Top(t), c) /\ c \notin sessions'
                   /\ \A i \in 1..(k-1) : stack'[t][i].op = "tell"
<1> DEFINE g == stack'[t][k]
<1>0. ASSUME Plain(g)
      PROVE  Told(g) /\ \A c \in Conn : ~ Destroys(g, c) /\ ~ Shuts(g, c)
  BY <1>0 DEF Plain
<1>1. CASE EnterMonitor(t)
  <2>1. k = 1 \/ k = 2  BY <1>1, EnterNew
  <2>2. CASE k = 1
    <3>1. g = Top(t).body /\ Top(t).op = "sync" /\ g.op \in {"send", "destroy"}
      BY <1>1, <2>2, EnterNew
    <3> QED  BY <3>1 DEF Told, Destroys, Shuts
  <2>3. CASE k = 2
    <3>1. g = UnlockFrame(Top(t).at)  BY <1>1, <2>3, EnterNew
    <3> QED  BY <1>0, <3>1, PlainFrames
  <2> QED  BY <2>1, <2>2, <2>3
<1>2. CASE GetOutChannels(t)
  <2>1. g = WritesFrame(Top(t).at, Top(t).call, Matching(Top(t).at, Top(t).call.to))
    BY <1>2, GetOutChannelsNew
  <2> QED  BY <1>0, <2>1, PlainFrames
<1>3. CASE Write(t)
  <2>1. PICK d \in Top(t).left : g = WritesFrame(Top(t).at, Top(t).call, Top(t).left \ {d})
    <3>1. New(t) = 1  BY <1>3, WriteNew
    <3>2. k = 1  BY <3>1
    <3> QED  BY <1>3, <3>2, WriteNew
  <2> QED  BY <1>0, <2>1, PlainFrames
<1>4. CASE WriteFails(t)
  <2>1. New(t) \in Nat /\ New(t) >= 1  BY <1>4, WriteFailsNew
  <2>2. k \in 1..(New(t)-1) \/ k = New(t)  BY <2>1
  <2>3. PICK d \in Top(t).left :
          /\ stack'[t][New(t)] = WritesFrame(Top(t).at, Top(t).call, Top(t).left \ {d})
          /\ \A i \in 1..(New(t)-1) :
               \/ d \in sessions /\ stack'[t][i] = DestroyFrame(d)
               \/ stack'[t][i] = ErrorFrame(Top(t))
    BY <1>4, WriteFailsNew
  <2>4. CASE g = WritesFrame(Top(t).at, Top(t).call, Top(t).left \ {d})
    BY <1>0, <2>4, PlainFrames
  <2>5. CASE g = ErrorFrame(Top(t))  BY <1>0, <2>5, PlainFrames
  <2>6. CASE d \in sessions /\ g = DestroyFrame(d)
    <3>1. d \in sessions /\ g.op = "destroy" /\ g.conn = d  BY <2>6 DEF DestroyFrame
    <3> QED  BY <3>1 DEF Told, Destroys, Shuts
  <2> QED  BY <2>2, <2>3, <2>4, <2>5, <2>6
<1>5. CASE GetForeignChannels(t)
  <2>1. g = DeliversFrame(Top(t).at, Top(t).call,
              {r \in remote[Top(t).at] : StartsWith(r.jid, Top(t).call.to)})
    <3>1. New(t) = 1  BY <1>5, GetForeignChannelsNew
    <3>2. k = 1  BY <3>1
    <3> QED  BY <1>5, <3>2, GetForeignChannelsNew
  <2> QED  BY <1>0, <2>1, PlainFrames
<1>6. CASE Deliver(t)
  <2>1. PICK r \in Top(t).left :
          /\ stack'[t][1] = SyncFrame(SendFrame(r.at, Top(t).call.to, Top(t).call.what, FALSE))
          /\ stack'[t][2] = DeliversFrame(Top(t).at, Top(t).call, Top(t).left \ {r})
    BY <1>6, DeliverNew
  <2>n. New(t) = 2  BY <1>6, DeliverNew
  <2>2. k = 1 \/ k = 2  BY <2>n
  <2> QED  BY <1>0, <2>1, <2>2, PlainFrames
<1>7. CASE DeliverFails(t)
  <2>1. New(t) \in Nat /\ New(t) >= 1  BY <1>7, DeliverFailsNew
  <2>2. k \in 1..(New(t)-1) \/ k = New(t)  BY <2>1
  <2>3. PICK r \in Top(t).left :
          stack'[t][New(t)] = DeliversFrame(Top(t).at, Top(t).call, Top(t).left \ {r})
    BY <1>7, DeliverFailsNew
  <2>4. \A i \in 1..(New(t)-1) : stack'[t][i] = ErrorFrame(Top(t))  BY <1>7, DeliverFailsNew
  <2> QED  BY <1>0, <2>2, <2>3, <2>4, PlainFrames
<1>8. CASE DestroySession(t)
  <2>n. New(t) = 2  BY <1>8, DestroySessionNew
  <2>1. k = 1 \/ k = 2  BY <2>n
  <2>2. CASE k = 1
    <3>1. g.op = "tell" /\ g.what = Offline(JidOf(Top(t).conn))
      BY <1>8, <2>2, DestroySessionNew
    <3> QED  BY <3>1 DEF Told, Destroys, Shuts, Offline
  <2>3. CASE k = 2
    <3>1. g = ShutFrame(Top(t).conn) /\ stack'[t][1].op = "tell" /\ Top(t).op = "destroy"
          /\ sessions' = sessions \ {Top(t).conn}
      BY <1>8, <2>3, DestroySessionNew
    <3>2. g.op = "shut" /\ g.conn = Top(t).conn  BY <3>1 DEF ShutFrame
    <3>3. \A i \in 1..(k-1) : i = 1  BY <2>3
    <3> HIDE DEF g
    <3> QED  BY <3>1, <3>2, <3>3 DEF Told, Destroys, Shuts, g
  <2> QED  BY <2>1, <2>2, <2>3
<1>9. CASE \/ LeaveMonitor(t) \/ SendReturns(t) \/ AllTold(t) \/ CloseChannel(t)
           \/ LoopEnds(t) \/ TellFriend(t) \/ Probe(t) \/ Broadcast(t)
  BY <1>0, <1>9, QuietStep DEF Quiet
<1> QED  BY <1>1, <1>2, <1>3, <1>4, <1>5, <1>6, <1>7, <1>8, <1>9, LoudStep

\* A handler starts on an empty stack, and destroys at most its own session.
LEMMA StartNew ==
  ASSUME TypeOK, NEW c \in Conn, Stanzas(c)
  PROVE  \/ UNCHANGED stack
         \/ /\ sock[c] # "new" /\ UNCHANGED table
            /\ \A u \in Thread : u # Client[c].thread => stack'[u] = stack[u]
            /\ \A k \in 1..Len(stack'[Client[c].thread]) :
                 LET f == stack'[Client[c].thread][k]
                 IN  /\ Told(f) /\ f.op \notin {"tell", "shut"}
                     /\ \A d \in Conn : ~ Shuts(f, d) /\ (Destroys(f, d) => d = c)
<1> DEFINE T == Client[c].thread
           Fine(f) == /\ Told(f) /\ f.op \notin {"tell", "shut"}
                      /\ \A d \in Conn : ~ Shuts(f, d) /\ (Destroys(f, d) => d = c)
<1>1. ASSUME NEW f, Starting(c, f) PROVE Fine(f)
  <2>1. CASE f = SyncFrame(DestroyFrame(c))
    BY <2>1 DEF Told, Shuts, Destroys, SyncFrame, DestroyFrame
  <2>2. CASE f.op \in {"broadcast", "probe"} /\ Told(f)
    BY <2>2 DEF Shuts, Destroys
  <2> QED  BY <1>1, <2>1, <2>2 DEF Starting
<1>2. ASSUME NEW s, NEW to, NEW what PROVE Fine(SyncFrame(SendFrame(s, to, what, TRUE)))
  BY DEF Told, Shuts, Destroys, SyncFrame, SendFrame
<1> HIDE DEF Fine
<1>3. CASE UNCHANGED stack  BY <1>3
<1>4. CASE \A k \in 1..Len(stack'[T]) : Starting(c, stack'[T][k])
  <2>1. \A k \in 1..Len(stack'[T]) : Fine(stack'[T][k])  BY <1>1, <1>4
  <2> QED  BY <2>1, StanzaNew DEF Fine
<1>5. ASSUME NEW m \in Msg, NEW to \in Targets, Sending(c, m, to)
      PROVE  \A k \in 1..Len(stack'[T]) : Fine(stack'[T][k])
  <2>1. Fine(stack'[T][1])  BY <1>2, <1>5 DEF Sending
  <2>2. \A k \in 1..Len(stack'[T]) : k = 1  BY <1>5 DEF Sending
  <2> QED  BY <2>1, <2>2
<1> QED  BY <1>3, <1>4, <1>5, StanzaNew DEF Fine

LEMMA PresenceStep ==
  ASSUME TypeOK, PlaceInv, PresenceInv, [Next]_vars
  PROVE  PresenceInv'
<1>1. ASSUME NEW t \in Thread, Step(t) PROVE PresenceInv'
  <2>0. Moved(t, New(t))  BY <1>1, Moves
  <2>1. ASSUME NEW u \in Thread, NEW i \in 1..Len(stack'[u]) PROVE Told(stack'[u][i])
    <3>1. CASE u # t  BY <2>0, <3>1 DEF PresenceInv, Moved
    <3>2. CASE u = t /\ i > New(t)
      <4>1. i - New(t) + 1 \in 1..Len(stack[t]) /\ stack'[t][i] = stack[t][i - New(t) + 1]
        BY <2>0, <3>2 DEF Moved
      <4> QED  BY <3>2, <4>1 DEF PresenceInv
    <3>3. CASE u = t /\ ~ (i > New(t))
      <4>1. i \in 1..New(t)  BY <2>0, <3>3 DEF Moved
      <4> QED  BY <1>1, <3>3, <4>1, RemovalNew
    <3> QED  BY <3>1, <3>2, <3>3
  <2> QED  BY <2>1 DEF PresenceInv, Told
<1>2. ASSUME NEW c \in Conn, Stanzas(c) PROVE PresenceInv'
  <2>1. CASE UNCHANGED stack  BY <2>1 DEF PresenceInv, Told
  <2>2. CASE ~ UNCHANGED stack
    <3>1. ASSUME NEW u \in Thread, NEW i \in 1..Len(stack'[u]) PROVE Told(stack'[u][i])
      BY <1>2, <2>2, StartNew DEF PresenceInv
    <3> QED  BY <3>1 DEF PresenceInv, Told
  <2> QED  BY <2>1, <2>2
<1>3. CASE UNCHANGED stack  BY <1>3 DEF PresenceInv, Told
<1> QED  BY <1>1, <1>2, <1>3, OtherStep

-----------------------------------------------------------------------------
(* The cascade.  A failed write destroys a session only while it is        *)
(* listed, and whoever is destroying one has taken it off the list.        *)

\* What is listed, or about to be destroyed or closed, was accepted; what is
\* being closed is off the list.
ListedInv ==
  /\ \A c \in sessions : sock[c] # "new"
  /\ \A t \in Thread : \A i \in 1..Len(stack[t]) : \A c \in Conn :
       /\ Destroys(stack[t][i], c) => sock[c] # "new"
       /\ Shuts(stack[t][i], c) => c \notin sessions /\ sock[c] # "new"

\* Above the call that closes the channel of a session, none closes it or
\* destroys the session.
OnceInv ==
  \A t \in Thread : \A i, j \in 1..Len(stack[t]) : \A c \in Conn :
    i < j /\ Shuts(stack[t][j], c) =>
      ~ Shuts(stack[t][i], c) /\ ~ Destroys(stack[t][i], c)

CascadeInv == PresenceInv /\ ListedInv /\ OnceInv

LEMMA ListedStep ==
  ASSUME TypeOK, PlaceInv, PresenceInv, ListedInv, [Next]_vars
  PROVE  ListedInv'
<1> DEFINE Fine(f) == \A c \in Conn :
             /\ Destroys(f, c) => sock'[c] # "new"
             /\ Shuts(f, c) => c \notin sessions' /\ sock'[c] # "new"
<1>0. /\ \A c \in Conn : sock[c] # "new" => sock'[c] # "new" /\ (c \notin sessions => c \notin sessions')
      /\ sessions \subseteq Conn
  BY OnceListed DEF TypeOK
<1>a. ASSUME NEW u \in Thread, NEW i \in 1..Len(stack[u]) PROVE Fine(stack[u][i])
  BY <1>0 DEF ListedInv
<1>b. \A c \in sessions' : sock'[c] # "new"
  <2>1. ASSUME NEW t \in Thread, Step(t) PROVE \A c \in sessions' : sock'[c] # "new"
    BY <1>0, <2>1, StepSessions DEF ListedInv
  <2>2. ASSUME NEW d \in Conn, Accept(d) PROVE \A c \in sessions' : sock'[c] # "new"
    BY <1>0, <2>2 DEF Accept, ListedInv, TypeOK
  <2>3. ASSUME NEW d \in Conn, Stanzas(d), ~ Accept(d) PROVE sessions' = sessions
    BY <2>3 DEF Stanzas, Login, Bind, Presence, Unavailable, StreamEnd, EndOfFile, Message, table
  <2>4. CASE sessions' = sessions  BY <1>0, <2>4 DEF ListedInv
  <2> QED  BY <2>1, <2>2, <2>3, <2>4, OtherStep
<1>c. ASSUME \A u \in Thread : \A i \in 1..Len(stack'[u]) : Fine(stack'[u][i])
      PROVE  ListedInv'
  BY <1>b, <1>c DEF ListedInv, Destroys, Shuts
<1> HIDE DEF Fine
<1>1. ASSUME NEW t \in Thread, Step(t) PROVE ListedInv'
  <2>0. Moved(t, New(t))  BY <1>1, Moves
  <2>1. ASSUME NEW u \in Thread, NEW i \in 1..Len(stack'[u]) PROVE Fine(stack'[u][i])
    <3>1. CASE u # t  BY <1>a, <2>0, <3>1 DEF Moved
    <3>2. CASE u = t /\ i > New(t)
      <4>1. i - New(t) + 1 \in 1..Len(stack[t]) /\ stack'[t][i] = stack[t][i - New(t) + 1]
        BY <2>0, <3>2 DEF Moved
      <4> QED  BY <1>a, <3>2, <4>1
    <3>3. CASE u = t /\ ~ (i > New(t))
      <4>1. i \in 1..New(t)  BY <2>0, <3>3 DEF Moved
      <4>2. Fine(Top(t))  BY <1>a, <2>0 DEF Moved
      <4>3. \A c \in Conn :
              /\ Destroys(stack'[t][i], c) => Destroys(Top(t), c) \/ c \in sessions
              /\ Shuts(stack'[t][i], c) => Destroys(Top(t), c) /\ c \notin sessions'
        BY <1>1, <4>1, RemovalNew
      <4> QED  BY <1>0, <3>3, <4>2, <4>3 DEF Fine, ListedInv
    <3> QED  BY <3>1, <3>2, <3>3
  <2> QED  BY <1>c, <2>1
<1>2. ASSUME NEW c \in Conn, Stanzas(c) PROVE ListedInv'
  <2>1. CASE UNCHANGED stack  BY <1>a, <1>c, <2>1
  <2>2. CASE ~ UNCHANGED stack
    <3>1. ASSUME NEW u \in Thread, NEW i \in 1..Len(stack'[u]) PROVE Fine(stack'[u][i])
      <4>1. CASE u # Client[c].thread
        <5>1. stack'[u] = stack[u]  BY <1>2, <2>2, <4>1, StartNew
        <5> QED  BY <1>a, <5>1
      <4>2. CASE u = Client[c].thread
        <5>1. \A d \in Conn : ~ Shuts(stack'[u][i], d) /\ (Destroys(stack'[u][i], d) => d = c)
          BY <1>2, <2>2, <4>2, StartNew
        <5>2. sock'[c] # "new"  BY <1>0, <1>2, <2>2, StartNew
        <5> QED  BY <5>1, <5>2 DEF Fine
      <4> QED  BY <4>1, <4>2
    <3> QED  BY <1>c, <3>1
  <2> QED  BY <2>1, <2>2
<1>3. CASE UNCHANGED stack  BY <1>3, <1>a, <1>c
<1> QED  BY <1>1, <1>2, <1>3, OtherStep

LEMMA OnceStep ==
  ASSUME TypeOK, PlaceInv, PresenceInv, ListedInv, OnceInv, [Next]_vars
  PROVE  OnceInv'
<1> DEFINE Apart(f, g) == \A c \in Conn : Shuts(g, c) => ~ Shuts(f, c) /\ ~ Destroys(f, c)
<1>a. ASSUME NEW u \in Thread, NEW i \in 1..Len(stack[u]), NEW j \in 1..Len(stack[u]), i < j
      PROVE  Apart(stack[u][i], stack[u][j])
  BY <1>a DEF OnceInv
<1>c. ASSUME \A u \in Thread : \A i, j \in 1..Len(stack'[u]) :
               i < j => Apart(stack'[u][i], stack'[u][j])
      PROVE  OnceInv'
  BY <1>c DEF OnceInv, Destroys, Shuts
<1> HIDE DEF Apart
<1>1. ASSUME NEW t \in Thread, Step(t) PROVE OnceInv'
  <2> DEFINE n == New(t)
  <2>0. Moved(t, n)  BY <1>1, Moves
  <2>r. ASSUME NEW k \in 1..n
        PROVE  \A c \in Conn :
                 /\ Destroys(stack'[t][k], c) => Destroys(Top(t), c) \/ c \in sessions
                 /\ Shuts(stack'[t][k], c) =>
                      /\ Destroys(Top(t), c)
                      /\ \A i \in 1..(k-1) : stack'[t][i].op = "tell"
    BY <1>1, RemovalNew
  <2> HIDE DEF n
  <2>1. ASSUME NEW u \in Thread, NEW i \in 1..Len(stack'[u]), NEW j \in 1..Len(stack'[u]), i < j
        PROVE  Apart(stack'[u][i], stack'[u][j])
    <3>t. n \in Nat /\ Len(stack[t]) \in Nat /\ Len(stack'[t]) \in Nat  BY <2>0 DEF Moved
    <3>1. CASE u # t  BY <1>a, <2>0, <2>1, <3>1 DEF Moved
    <3>2. CASE u = t /\ j > n
      <4> DEFINE l == j - n + 1
      <4>1. l \in 2..Len(stack[t]) /\ stack'[t][j] = stack[t][l]
        BY <2>0, <3>2 DEF Moved
      <4>2. CASE i > n
        <5> DEFINE k == i - n + 1
        <5>1. k \in 2..Len(stack[t]) /\ stack'[t][i] = stack[t][k]
          BY <2>0, <3>2, <4>2 DEF Moved
        <5>2. k < l /\ k \in 1..Len(stack[t]) /\ l \in 1..Len(stack[t])
          BY <2>1, <3>t, <4>1, <5>1, <3>2
        <5> QED  BY <1>a, <3>2, <4>1, <5>1, <5>2
      <4>3. CASE ~ (i > n)
        <5>1. i \in 1..n  BY <3>t, <3>2, <4>3
        <5>2. Top(t) = stack[t][1] /\ 1 \in 1..Len(stack[t]) /\ l \in 1..Len(stack[t]) /\ 1 < l
          BY <2>0, <3>t, <4>1 DEF Moved
        <5> HIDE DEF l
        <5>3. Apart(Top(t), stack[t][l])  BY <1>a, <5>2
        <5>4. \A c \in Conn : Shuts(stack[t][l], c) => c \notin sessions
          BY <5>2 DEF ListedInv
        <5> QED  BY <2>r, <3>2, <4>1, <5>1, <5>3, <5>4 DEF Apart
      <4> QED  BY <4>2, <4>3
    <3>3. CASE u = t /\ ~ (j > n)
      <4>1. i \in 1..(j-1) /\ j \in 1..n  BY <2>1, <3>t, <3>3
      <4>2. \A c \in Conn : Shuts(stack'[t][j], c) => stack'[t][i].op = "tell"
        BY <2>r, <4>1
      <4> QED  BY <3>3, <4>2 DEF Apart, Shuts, Destroys
    <3> QED  BY <3>1, <3>2, <3>3
  <2> QED  BY <1>c, <2>1
<1>2. ASSUME NEW c \in Conn, Stanzas(c) PROVE OnceInv'
  <2>1. CASE UNCHANGED stack  BY <1>a, <1>c, <2>1
  <2>2. CASE ~ UNCHANGED stack
    <3>1. ASSUME NEW u \in Thread, NEW i \in 1..Len(stack'[u]), NEW j \in 1..Len(stack'[u]), i < j
          PROVE  Apart(stack'[u][i], stack'[u][j])
      <4>1. CASE u # Client[c].thread
        <5>1. stack'[u] = stack[u]  BY <1>2, <2>2, <4>1, StartNew
        <5> QED  BY <1>a, <3>1, <5>1
      <4>2. CASE u = Client[c].thread
        BY <1>2, <2>2, <4>2, StartNew DEF Apart
      <4> QED  BY <4>1, <4>2
    <3> QED  BY <1>c, <3>1
  <2> QED  BY <2>1, <2>2
<1>3. CASE UNCHANGED stack  BY <1>3, <1>a, <1>c
<1> QED  BY <1>1, <1>2, <1>3, OtherStep

LEMMA CascadeStep == IInv /\ CascadeInv /\ [Next]_vars => CascadeInv'
BY PresenceStep, ListedStep, OnceStep DEF IInv, CascadeInv

\* A failed write destroys a session in the middle of a send, which sends and
\* may fail again, but no session is destroyed inside its own destruction: the
\* recursion is at most as deep as the table is long.
THEOREM CascadeIsBounded == Spec => []CascadeBounded
<1>1. Init => CascadeInv
  BY DEF Init, CascadeInv, PresenceInv, ListedInv, OnceInv
<1>2. TypeOK /\ CascadeInv => CascadeBounded
  <2> SUFFICES ASSUME TypeOK, OnceInv, NEW t \in Thread,
                      NEW i \in DOMAIN stack[t], NEW j \in DOMAIN stack[t], i # j,
                      stack[t][i].op = "shut", stack[t][j].op = "shut"
               PROVE  stack[t][i].conn # stack[t][j].conn
    BY DEF CascadeBounded, CascadeInv
  <2>1. /\ stack[t] \in Seq(Frame) /\ DOMAIN stack[t] = 1..Len(stack[t])
        /\ Len(stack[t]) \in Nat
    BY DEF TypeOK
  <2>2. stack[t][i].conn \in Conn /\ stack[t][j].conn \in Conn  BY <2>1, FrameFields
  <2>3. i < j \/ j < i  BY <2>1
  <2> QED  BY <2>1, <2>2, <2>3 DEF OnceInv, Shuts
<1>3. Spec => []IInv  BY SnapshotSound
<1>4. IInv => TypeOK  BY DEF IInv
<1> QED  BY <1>1, <1>2, <1>3, <1>4, CascadeStep, PTL DEF Spec

-----------------------------------------------------------------------------
(* How a send goes on: which of the new frames carry a message on.         *)

LEMMA ErrorFrames ==
  ASSUME NEW f, f.call \in Call, NEW m
  PROVE  LET g == ErrorFrame(f)
         IN  /\ g.op = "send" /\ g.at = f.at /\ g.call.to = f.call.what.from
             /\ ~ Carries(g, m)
             /\ f.call.what.msg = m => Complains(g, m)
<1>1. f.call.what \in Stanza  BY DEF Call
<1>2. ErrorOf(f.call.what).kind = "error" /\ ErrorOf(f.call.what).msg = f.call.what.msg
  BY <1>1 DEF ErrorOf, Stanza
<1> QED  BY <1>2 DEF ErrorFrame, SendFrame, CallOf, Carries, Complains, Sends

LEMMA DestroyFrames ==
  ASSUME NEW c, NEW m
  PROVE  ~ Carries(DestroyFrame(c), m) /\ ~ Carries(ShutFrame(c), m)
BY DEF DestroyFrame, ShutFrame, Carries, Sends

\* A frame of another send of f: it is inside the monitor when f was, or has
\* just taken it, and f goes on as no other.
GoesOn(t, f, g, k, m) ==
  /\ Carries(f, m) /\ CallOf(g) = CallOf(f) /\ g.at = f.at
  /\ IsInside(f) \/ lock[f.at] = None
  /\ g.op = "send" => f.op = "sync"
  /\ g.op = "writes" => f.op = "send" \/ (f.op = "writes" /\ g.left \subseteq f.left)
  /\ g.op = "delivers" =>
       \/ f.op = "writes" /\ g.left = {r \in remote[f.at] : StartsWith(r.jid, f.call.to)}
       \/ f.op = "delivers" /\ \E r \in f.left : g.left = f.left \ {r}
  /\ \A l \in 1..New(t) :
       l # k /\ Carries(stack'[t][l], m) => l < k /\ stack'[t][l].op = "sync"
  /\ \A l \in 1..New(t) : l > k => stack'[t][l].op = "unlock"

\* A call to another server, which f waits for.
CallsOut(t, f, g, k, m) ==
  /\ Carries(f, m) /\ f.op = "delivers" /\ k = 1 /\ New(t) = 2
  /\ CallOf(g).to = CallOf(f).to /\ CallOf(g).what = CallOf(f).what
  /\ stack'[t][2].op = "delivers" /\ Carries(stack'[t][2], m)
  /\ stack'[t][2].at = f.at /\ CallOf(stack'[t][2]) = CallOf(f)
  /\ \E r \in f.left : stack'[t][2].left = f.left \ {r}

LEMMA RelayNew ==
  ASSUME TypeOK, PlaceInv, PresenceInv, NEW t \in Thread, Step(t),
         NEW k \in 1..New(t), NEW m \in Msg, Carries(stack'[t][k], m)
  PROVE  LET f == Top(t)
             g == stack'[t][k]
         IN  \/ IsInside(g) /\ GoesOn(t, f, g, k, m)
             \/ g.op = "sync" /\ CallsOut(t, f, g, k, m)
<1> DEFINE f == Top(t)
           g == stack'[t][k]
<1> SUFFICES \/ IsInside(g) /\ GoesOn(t, f, g, k, m)
             \/ g.op = "sync" /\ CallsOut(t, f, g, k, m)
  OBVIOUS
<1>1. CASE EnterMonitor(t)
  <2>1. /\ f.op = "sync" /\ f.body.op \in {"send", "destroy"} /\ f.body.at = f.at
        /\ lock[f.at] = None
        /\ New(t) = 2 /\ stack'[t][1] = f.body /\ stack'[t][2] = UnlockFrame(f.at)
    BY <1>1, EnterNew
  <2> HIDE DEF f
  <2>2. ~ Carries(UnlockFrame(f.at), m)  BY DEF UnlockFrame, Carries, Sends
  <2>3. \A l \in 1..New(t) : l = 1 \/ l = 2  BY <2>1
  <2>4. k = 1 /\ g = f.body  BY <2>1, <2>2, <2>3
  <2>5. \A l \in 1..New(t) : l # k => ~ Carries(stack'[t][l], m)  BY <2>1, <2>2, <2>3, <2>4
  <2>6. Carries(f.body, m)  BY <2>4
  <2>7. /\ f.body.op = "send" /\ CallOf(f) = f.body.call /\ CallOf(f.body) = f.body.call
        /\ Carries(f, m) /\ IsInside(f.body)
    BY <2>1, <2>6 DEF CallOf, Carries, Sends, IsInside
  <2>8. \A l \in 1..New(t) : l > k => stack'[t][l].op = "unlock"
    <3>1. \A l \in 1..New(t) : l > k => l = 2  BY <2>3, <2>4
    <3> QED  BY <2>1, <3>1 DEF UnlockFrame
  <2> QED  BY <2>1, <2>4, <2>5, <2>7, <2>8 DEF GoesOn
<1>2. CASE GetOutChannels(t)
  <2> DEFINE a == WritesFrame(f.at, f.call, Matching(f.at, f.call.to))
  <2>1. f.op = "send" /\ f.call \in Call /\ New(t) = 1 /\ stack'[t][1] = a
    BY <1>2, GetOutChannelsNew
  <2>2. k = 1 /\ \A l \in 1..New(t) : l = k  BY <2>1
  <2>3. /\ a.op = "writes" /\ a.at = f.at /\ CallOf(a) = f.call
        /\ Carries(a, m) <=> f.call.what.kind = "chat" /\ f.call.what.msg = m
    BY DEF WritesFrame, CallOf, Carries, Sends
  <2>a. g = a  BY <2>1, <2>2
  <2> HIDE DEF a, f, g
  <2>4. CallOf(f) = f.call /\ Carries(f, m) /\ IsInside(f) /\ IsInside(a)
    BY <2>a, <2>1, <2>2, <2>3 DEF CallOf, Carries, Sends, IsInside
  <2> QED  BY <2>a, <2>1, <2>2, <2>3, <2>4 DEF GoesOn
<1>3. CASE Write(t)
  <2>1. PICK c \in f.left : stack'[t][1] = WritesFrame(f.at, f.call, f.left \ {c})
    BY <1>3, WriteNew
  <2> DEFINE a == WritesFrame(f.at, f.call, f.left \ {c})
  <2>2. f.op = "writes" /\ f.call \in Call /\ New(t) = 1 /\ stack'[t][1] = a
    BY <1>3, <2>1, WriteNew
  <2>3. k = 1 /\ \A l \in 1..New(t) : l = k  BY <2>2
  <2>4. /\ a.op = "writes" /\ a.at = f.at /\ CallOf(a) = f.call /\ a.left = f.left \ {c}
        /\ Carries(a, m) <=> f.call.what.kind = "chat" /\ f.call.what.msg = m
    BY DEF WritesFrame, CallOf, Carries, Sends
  <2>a. g = a  BY <2>2, <2>3
  <2> HIDE DEF a, f, g
  <2>5. CallOf(f) = f.call /\ Carries(f, m) /\ IsInside(f) /\ IsInside(a)
    BY <2>a, <2>2, <2>3, <2>4 DEF CallOf, Carries, Sends, IsInside
  <2> QED  BY <2>a, <2>2, <2>3, <2>4, <2>5 DEF GoesOn
<1>4. CASE WriteFails(t)
  <2>1. PICK c \in f.left :
          /\ stack'[t][New(t)] = WritesFrame(f.at, f.call, f.left \ {c})
          /\ \A i \in 1..(New(t)-1) :
               \/ c \in sessions /\ stack'[t][i] = DestroyFrame(c)
               \/ stack'[t][i] = ErrorFrame(f)
    BY <1>4, WriteFailsNew
  <2> DEFINE a == WritesFrame(f.at, f.call, f.left \ {c})
  <2>2. f.op = "writes" /\ f.call \in Call /\ New(t) \in Nat /\ stack'[t][New(t)] = a
    BY <1>4, <2>1, WriteFailsNew
  <2>3. \A i \in 1..(New(t)-1) : ~ Carries(stack'[t][i], m)
    BY <2>1, <2>2, DestroyFrames, ErrorFrames
  <2>4. /\ a.op = "writes" /\ a.at = f.at /\ CallOf(a) = f.call /\ a.left = f.left \ {c}
        /\ Carries(a, m) <=> f.call.what.kind = "chat" /\ f.call.what.msg = m
    BY DEF WritesFrame, CallOf, Carries, Sends
  <2> HIDE DEF a, f
  <2>5. \A l \in 1..New(t) : l = New(t) \/ l \in 1..(New(t)-1)  BY <2>2
  <2>6. k = New(t) /\ \A l \in 1..New(t) : l # k => ~ Carries(stack'[t][l], m)
    BY <2>3, <2>5
  <2>a. g = a  BY <2>2, <2>6
  <2> HIDE DEF g
  <2>7. CallOf(f) = f.call /\ Carries(f, m) /\ IsInside(f) /\ IsInside(a)
    BY <2>a, <2>2, <2>4, <2>6 DEF CallOf, Carries, Sends, IsInside
  <2> QED  BY <2>a, <2>2, <2>4, <2>6, <2>7 DEF GoesOn
<1>5. CASE GetForeignChannels(t)
  <2> DEFINE left == {r \in remote[f.at] : StartsWith(r.jid, f.call.to)}
             a == DeliversFrame(f.at, f.call, left)
  <2>1. f.op = "writes" /\ f.call \in Call /\ New(t) = 1 /\ stack'[t][1] = a
    BY <1>5, GetForeignChannelsNew
  <2>2. k = 1 /\ \A l \in 1..New(t) : l = k  BY <2>1
  <2>3. /\ a.op = "delivers" /\ a.at = f.at /\ CallOf(a) = f.call /\ a.left = left
        /\ Carries(a, m) <=> f.call.what.kind = "chat" /\ f.call.what.msg = m
    <3> HIDE DEF left
    <3> QED  BY DEF DeliversFrame, CallOf, Carries, Sends
  <2>a. g = a  BY <2>1, <2>2
  <2> HIDE DEF a, f, g
  <2>4. CallOf(f) = f.call /\ Carries(f, m) /\ IsInside(f) /\ IsInside(a)
    BY <2>a, <2>1, <2>2, <2>3 DEF CallOf, Carries, Sends, IsInside
  <2> QED  BY <2>a, <2>1, <2>2, <2>3, <2>4 DEF GoesOn
<1>6. CASE Deliver(t)
  <2>1. PICK r \in f.left :
          /\ stack'[t][1] = SyncFrame(SendFrame(r.at, f.call.to, f.call.what, FALSE))
          /\ stack'[t][2] = DeliversFrame(f.at, f.call, f.left \ {r})
    BY <1>6, DeliverNew
  <2> DEFINE a == SyncFrame(SendFrame(r.at, f.call.to, f.call.what, FALSE))
             b == DeliversFrame(f.at, f.call, f.left \ {r})
  <2>2. /\ f.op = "delivers" /\ f.call \in Call /\ New(t) = 2
        /\ stack'[t][1] = a /\ stack'[t][2] = b
    BY <1>6, <2>1, DeliverNew
  <2>3. \A l \in 1..New(t) : l = 1 \/ l = 2  BY <2>2
  <2>4. /\ a.op = "sync" /\ CallOf(a).to = f.call.to /\ CallOf(a).what = f.call.what
        /\ Carries(a, m) <=> f.call.what.kind = "chat" /\ f.call.what.msg = m
        /\ b.op = "delivers" /\ b.at = f.at /\ CallOf(b) = f.call /\ b.left = f.left \ {r}
        /\ Carries(b, m) <=> f.call.what.kind = "chat" /\ f.call.what.msg = m
    BY DEF SendFrame, SyncFrame, DeliversFrame, CallOf, Carries, Sends
  <2>a. (k = 1 => g = a) /\ (k = 2 => g = b)  BY <2>2
  <2>b. Carries(g, m)  OBVIOUS
  <2> HIDE DEF a, b, f, g
  <2>5. f.call.what.kind = "chat" /\ f.call.what.msg = m
    BY <2>a, <2>b, <2>3, <2>4
  <2>6. CallOf(f) = f.call /\ Carries(f, m) /\ IsInside(f) /\ IsInside(b)
    BY <2>2, <2>4, <2>5 DEF CallOf, Carries, Sends, IsInside
  <2>7. CASE k = 1  BY <2>a, <2>2, <2>4, <2>5, <2>6, <2>7 DEF CallsOut
  <2>8. CASE k = 2
    <3>1. \A l \in 1..New(t) : l # k => l = 1  BY <2>3, <2>8
    <3> QED  BY <2>a, <2>2, <2>4, <2>5, <2>6, <2>8, <3>1 DEF GoesOn
  <2> QED  BY <2>3, <2>7, <2>8
<1>7. CASE DeliverFails(t)
  <2>1. PICK r \in f.left : stack'[t][New(t)] = DeliversFrame(f.at, f.call, f.left \ {r})
    BY <1>7, DeliverFailsNew
  <2> DEFINE a == DeliversFrame(f.at, f.call, f.left \ {r})
  <2>2. /\ f.op = "delivers" /\ f.call \in Call /\ New(t) \in Nat /\ stack'[t][New(t)] = a
        /\ \A i \in 1..(New(t)-1) : stack'[t][i] = ErrorFrame(f)
    BY <1>7, <2>1, DeliverFailsNew
  <2>3. \A i \in 1..(New(t)-1) : ~ Carries(stack'[t][i], m)  BY <2>2, ErrorFrames
  <2>4. /\ a.op = "delivers" /\ a.at = f.at /\ CallOf(a) = f.call /\ a.left = f.left \ {r}
        /\ Carries(a, m) <=> f.call.what.kind = "chat" /\ f.call.what.msg = m
    BY DEF DeliversFrame, CallOf, Carries, Sends
  <2> HIDE DEF a, f
  <2>5. \A l \in 1..New(t) : l = New(t) \/ l \in 1..(New(t)-1)  BY <2>2
  <2>6. k = New(t) /\ \A l \in 1..New(t) : l # k => ~ Carries(stack'[t][l], m)
    BY <2>3, <2>5
  <2>a. g = a  BY <2>2, <2>6
  <2> HIDE DEF g
  <2>7. CallOf(f) = f.call /\ Carries(f, m) /\ IsInside(f) /\ IsInside(a)
    BY <2>a, <2>2, <2>4, <2>6 DEF CallOf, Carries, Sends, IsInside
  <2> QED  BY <2>a, <2>2, <2>4, <2>6, <2>7 DEF GoesOn
<1>8. CASE DestroySession(t)
  <2>1. /\ New(t) = 2 /\ stack'[t][1].op = "tell" /\ stack'[t][2] = ShutFrame(f.conn)
    BY <1>8, DestroySessionNew
  <2>2. k = 1 \/ k = 2  BY <2>1
  <2>3. ~ Carries(stack'[t][1], m)  BY <2>1 DEF Carries, Sends
  <2> QED  BY <2>1, <2>2, <2>3, DestroyFrames
<1>9. CASE \/ LeaveMonitor(t) \/ SendReturns(t) \/ AllTold(t) \/ CloseChannel(t)
           \/ LoopEnds(t) \/ TellFriend(t) \/ Probe(t) \/ Broadcast(t)
  BY <1>9, QuietStep DEF Quiet
<1> QED  BY <1>1, <1>2, <1>3, <1>4, <1>5, <1>6, <1>7, <1>8, <1>9, LoudStep

-----------------------------------------------------------------------------
(* Where a message is on its way.                                          *)

SenderThread(m) == Client[sent[m].from].thread

\* Only the thread of its sender carries a message, to where it was sent.
CarriedFor(u, f, m) ==
  /\ sent[m] # None /\ u = SenderThread(m)
  /\ CallOf(f).to = sent[m].to /\ CallOf(f).what.from = JidOf(sent[m].from)
CarrierInv ==
  \A m \in Msg : \A u \in Thread : \A i \in 1..Len(stack[u]) :
    Carries(stack[u][i], m) => CarriedFor(u, stack[u][i], m)

\* No two sends of a message are inside the monitor of one server.
ServersInv ==
  \A m \in Msg : \A u \in Thread : \A i, j \in 1..Len(stack[u]) :
    /\ i < j
    /\ Carries(stack[u][i], m) /\ IsInside(stack[u][i])
    /\ Carries(stack[u][j], m) /\ IsInside(stack[u][j])
    => stack[u][i].at # stack[u][j].at

\* The first of them is on the server of the sender, whom it is to notify.
Origin(f, m) == f.at = At(sent[m].from) /\ CallOf(f).notify
OriginInv ==
  \A m \in Msg : \A u \in Thread : \A i \in 1..Len(stack[u]) :
    Carries(stack[u][i], m) =>
      \/ stack[u][i].op = "sync" /\ Origin(stack[u][i], m)
      \/ \E j \in i..Len(stack[u]) :
           /\ Carries(stack[u][j], m) /\ IsInside(stack[u][j]) /\ Origin(stack[u][j], m)

SentInv == \A m \in Msg : sent[m] # None => sock[sent[m].from] # "new"

RelayInv == CarrierInv /\ ServersInv /\ OriginInv /\ SentInv

LEMMA SentTypes ==
  ASSUME TypeOK, NEW m \in Msg, sent[m] # None
  PROVE  /\ sent[m].from \in Conn /\ sent[m].to \in Jid
         /\ SenderThread(m) \in Thread /\ At(sent[m].from) \in Server
         /\ JidOf(sent[m].from) \in Jid
<1>1. sent[m] \in [from : Conn, to : Jid]  BY DEF TypeOK
<1> QED  BY <1>1, ConnTypes, JidTypes DEF SenderThread

\* While a thread is in a call, its connections do not log in or bind.
LEMMA JidStable ==
  ASSUME TypeOK, [Next]_vars, NEW c \in Conn, stack[Client[c].thread] # <<>>
  PROVE  who'[c] = who[c] /\ res'[c] = res[c]
<1> USE DEF table
<1>1. ASSUME NEW d \in Conn, Stanzas(d) PROVE who'[c] = who[c] /\ res'[c] = res[c]
  <2>1. CASE Login(d)
    <3>1. c # d  BY <2>1 DEF Login, Ready
    <3> QED  BY <2>1, <3>1 DEF Login, TypeOK
  <2>2. CASE Bind(d)
    <3>1. c # d  BY <2>2 DEF Bind, Ready
    <3> QED  BY <2>2, <3>1 DEF Bind, TypeOK
  <2>3. CASE ~ Login(d) /\ ~ Bind(d)
    BY <1>1, <2>3 DEF Stanzas, Accept, Presence, Unavailable, StreamEnd, EndOfFile, Message
  <2> QED  BY <2>1, <2>2, <2>3
<1>2. CASE UNCHANGED <<who, res>>  BY <1>2
<1> QED  BY <1>1, <1>2, OtherStep, StepSessions

\* The sender of a message is settled once it is sent.
LEMMA SentKept ==
  ASSUME TypeOK, [Next]_vars, NEW m \in Msg, sent[m] # None
  PROVE  sent'[m] = sent[m]
<1>1. ASSUME NEW d \in Conn, Stanzas(d) PROVE sent'[m] = sent[m]
  <2>1. CASE sent' = sent  BY <2>1
  <2>2. ASSUME NEW k \in Msg, NEW to \in Targets, Sending(d, k, to)
        PROVE  sent'[m] = sent[m]
    BY <2>2 DEF Sending, TypeOK
  <2>3. sent' = sent \/ \E k \in Msg, to \in Targets : Sending(d, k, to)
    <3>1. UNCHANGED <<stack, history>> => sent' = sent  BY DEF history
    <3> QED  BY <1>1, <3>1, StanzaNew
  <2> QED  BY <2>1, <2>2, <2>3
<1> QED  BY <1>1, OtherStep, StepSessions

\* The only frame of a message that a handler starts with.
LEMMA CarrierStart ==
  ASSUME TypeOK, NEW c \in Conn, Stanzas(c), ~ UNCHANGED stack,
         NEW m \in Msg, NEW i \in 1..Len(stack'[Client[c].thread]),
         Carries(stack'[Client[c].thread][i], m)
  PROVE  LET g == stack'[Client[c].thread][i]
         IN  /\ i = 1 /\ Len(stack'[Client[c].thread]) = 1
             /\ g.op = "sync" /\ g.at = At(c) /\ CallOf(g).notify
             /\ CallOf(g).what.from = JidOf(c)
             /\ sent[m] = None /\ sent'[m] # None
             /\ sent'[m].from = c /\ CallOf(g).to = sent'[m].to /\ sent'[m].to \in Targets
             /\ UNCHANGED <<who, res>>
<1> DEFINE T == Client[c].thread
           g == stack'[T][i]
<1>1. ~ Starting(c, g)
  <2>1. ~ Carries(SyncFrame(DestroyFrame(c)), m)
    BY DEF Carries, Sends, SyncFrame, DestroyFrame
  <2>2. g.op \notin {"broadcast", "probe"}  BY DEF Carries, Sends
  <2> QED  BY <2>1, <2>2 DEF Starting
<1>2. PICK k \in Msg, to \in Targets : Sending(c, k, to) /\ UNCHANGED <<who, res>>
  <2>1. ~ UNCHANGED <<stack, history>>  OBVIOUS
  <2>2. ~ \A k \in 1..Len(stack'[T]) : Starting(c, stack'[T][k])  BY <1>1
  <2>3. UNCHANGED <<table, remote, lock, owed, missed, bounced, written>>
          => UNCHANGED <<who, res>>
    BY DEF table
  <2> HIDE DEF g
  <2> QED  BY <2>1, <2>2, <2>3, StanzaNew
<1>3. i = 1  BY <1>2 DEF Sending
<1>4. g = SyncFrame(SendFrame(At(c), to, Chat(k, JidOf(c)), TRUE))  BY <1>2, <1>3 DEF Sending
<1> HIDE DEF g
<1>5. /\ g.op = "sync" /\ g.at = At(c) /\ CallOf(g).notify
      /\ CallOf(g).what.from = JidOf(c) /\ CallOf(g).to = to /\ CallOf(g).what.msg = k
  BY <1>4 DEF SyncFrame, SendFrame, Chat, CallOf
<1>6. k = m  BY <1>5 DEF Carries, g
<1>7. sent'[m] = [from |-> c, to |-> to] /\ sent[m] = None /\ Len(stack'[T]) = 1
  BY <1>2, <1>6 DEF TypeOK, Sending
<1>8. sent'[m] # None /\ sent'[m].from = c /\ sent'[m].to = to
  <2>1. to \in Jid  BY TargetAssumption DEF Jid
  <2>2. [from |-> c, to |-> to] # None  BY <2>1, NoneAssumption
  <2> QED  BY <1>7, <2>2
<1> QED  BY <1>2, <1>3, <1>5, <1>7, <1>8 DEF g

\* The same of the next state.
CarriedNext(u, f, m) ==
  /\ sent'[m] # None /\ u = Client[sent'[m].from].thread
  /\ CallOf(f).to = sent'[m].to
  /\ CallOf(f).what.from = [user |-> who'[sent'[m].from], res |-> res'[sent'[m].from]]

LEMMA CarriedKept ==
  ASSUME TypeOK, CarrierInv, [Next]_vars, NEW u \in Thread, NEW i \in 1..Len(stack[u]),
         NEW m \in Msg, Carries(stack[u][i], m)
  PROVE  /\ CarriedFor(u, stack[u][i], m) /\ CarriedNext(u, stack[u][i], m)
         /\ sent[m] # None /\ sent'[m] = sent[m]
<1>1. CarriedFor(u, stack[u][i], m)  BY DEF CarrierInv
<1>2. sent[m] # None /\ sent'[m] = sent[m]  BY <1>1, SentKept DEF CarriedFor
<1>3. stack[u] # <<>>
  <2>1. stack[u] = <<>> => Len(stack[u]) = 0  OBVIOUS
  <2> QED  BY <2>1
<1>4. u = Client[sent[m].from].thread /\ sent[m].from \in Conn
  BY <1>1, SentTypes DEF CarriedFor, SenderThread
<1>5. who'[sent[m].from] = who[sent[m].from] /\ res'[sent[m].from] = res[sent[m].from]
  <2>1. JidOf(sent[m].from) = [user |-> who[sent[m].from], res |-> res[sent[m].from]]
    BY DEF JidOf
  <2> DEFINE c == sent[m].from
  <2> HIDE DEF c
  <2>2. c \in Conn /\ stack[Client[c].thread] # <<>>  BY <1>3, <1>4 DEF c
  <2>3. who'[c] = who[c] /\ res'[c] = res[c]  BY <2>2, JidStable
  <2> QED  BY <2>3 DEF c
<1> QED  BY <1>1, <1>2, <1>5 DEF CarriedFor, CarriedNext, SenderThread, JidOf

LEMMA CarrierStep ==
  ASSUME TypeOK, PlaceInv, PresenceInv, CarrierInv, [Next]_vars
  PROVE  CarrierInv'
<1>c. ASSUME \A m \in Msg : \A u \in Thread : \A i \in 1..Len(stack'[u]) :
               Carries(stack'[u][i], m) => CarriedNext(u, stack'[u][i], m)
      PROVE  CarrierInv'
  BY <1>c DEF CarrierInv, CarriedFor, CarriedNext, SenderThread, JidOf, Carries, Sends, CallOf
<1>1. ASSUME NEW t \in Thread, Step(t) PROVE CarrierInv'
  <2>0. Moved(t, New(t))  BY <1>1, Moves
  <2>1. ASSUME NEW m \in Msg, NEW u \in Thread, NEW i \in 1..Len(stack'[u]),
               Carries(stack'[u][i], m)
        PROVE  CarriedNext(u, stack'[u][i], m)
    <3>1. CASE u # t  BY <2>0, <2>1, <3>1, CarriedKept DEF Moved
    <3>2. CASE u = t /\ i > New(t)
      <4>1. i - New(t) + 1 \in 1..Len(stack[t]) /\ stack'[t][i] = stack[t][i - New(t) + 1]
        BY <2>0, <3>2 DEF Moved
      <4> QED  BY <2>1, <3>2, <4>1, CarriedKept
    <3>3. CASE u = t /\ ~ (i > New(t))
      <4>1. i \in 1..New(t)  BY <2>0, <3>3 DEF Moved
      <4>2. /\ Carries(Top(t), m)
            /\ CallOf(stack'[t][i]).to = CallOf(Top(t)).to
            /\ CallOf(stack'[t][i]).what = CallOf(Top(t)).what
        BY <1>1, <2>1, <3>3, <4>1, RelayNew DEF GoesOn, CallsOut
      <4>3. Top(t) = stack[t][1] /\ 1 \in 1..Len(stack[t])  BY <2>0 DEF Moved
      <4>4. CarriedNext(t, Top(t), m)  BY <4>2, <4>3, CarriedKept
      <4> QED  BY <3>3, <4>2, <4>4 DEF CarriedNext
    <3> QED  BY <3>1, <3>2, <3>3
  <2> QED  BY <1>c, <2>1
<1>2. ASSUME NEW c \in Conn, Stanzas(c) PROVE CarrierInv'
  <2>1. CASE UNCHANGED stack  BY <1>c, <2>1, CarriedKept
  <2>2. CASE ~ UNCHANGED stack
    <3>1. ASSUME NEW m \in Msg, NEW u \in Thread, NEW i \in 1..Len(stack'[u]),
                 Carries(stack'[u][i], m)
          PROVE  CarriedNext(u, stack'[u][i], m)
      <4>1. CASE u # Client[c].thread
        <5>1. stack'[u] = stack[u]  BY <1>2, <2>2, <4>1, StartNew
        <5> QED  BY <3>1, <5>1, CarriedKept
      <4>2. CASE u = Client[c].thread
        <5>1. i \in 1..Len(stack'[Client[c].thread]) /\ Carries(stack'[Client[c].thread][i], m)
          BY <3>1, <4>2
        <5>2. /\ CallOf(stack'[u][i]).what.from = JidOf(c)
              /\ sent'[m] # None /\ sent'[m].from = c /\ CallOf(stack'[u][i]).to = sent'[m].to
              /\ who' = who /\ res' = res
          BY <1>2, <2>2, <4>2, <5>1, CarrierStart
        <5> QED  BY <4>2, <5>2 DEF CarriedNext, JidOf
      <4> QED  BY <4>1, <4>2
    <3> QED  BY <1>c, <3>1
  <2> QED  BY <2>1, <2>2
<1>3. CASE UNCHANGED stack  BY <1>c, <1>3, CarriedKept
<1> QED  BY <1>1, <1>2, <1>3, OtherStep

LEMMA ServersStep ==
  ASSUME TypeOK, PlaceInv, HeldInv, PresenceInv, ServersInv, [Next]_vars
  PROVE  ServersInv'
<1> DEFINE Apart(f, g) == \A m \in Msg :
             Carries(f, m) /\ IsInside(f) /\ Carries(g, m) /\ IsInside(g) => f.at # g.at
<1>a. ASSUME NEW u \in Thread, NEW i \in 1..Len(stack[u]), NEW j \in 1..Len(stack[u]), i < j
      PROVE  Apart(stack[u][i], stack[u][j])
  BY <1>a DEF ServersInv
<1>c. ASSUME \A u \in Thread : \A i, j \in 1..Len(stack'[u]) :
               i < j => Apart(stack'[u][i], stack'[u][j])
      PROVE  ServersInv'
  BY <1>c DEF ServersInv, Carries, Sends, CallOf, IsInside
<1> HIDE DEF Apart
<1>1. ASSUME NEW t \in Thread, Step(t) PROVE ServersInv'
  <2> DEFINE n == New(t)
  <2>0. Moved(t, n)  BY <1>1, Moves
  <2>r. ASSUME NEW k \in 1..n, NEW m \in Msg, Carries(stack'[t][k], m), IsInside(stack'[t][k])
        PROVE  /\ Carries(Top(t), m) /\ stack'[t][k].at = Top(t).at
               /\ IsInside(Top(t)) \/ lock[Top(t).at] = None
               /\ \A l \in 1..n : l # k /\ Carries(stack'[t][l], m) => ~ IsInside(stack'[t][l])
    BY <1>1, <2>r, RelayNew DEF GoesOn, IsInside
  <2> HIDE DEF n
  <2>1. ASSUME NEW u \in Thread, NEW i \in 1..Len(stack'[u]), NEW j \in 1..Len(stack'[u]), i < j
        PROVE  Apart(stack'[u][i], stack'[u][j])
    <3>t. n \in Nat /\ Len(stack[t]) \in Nat /\ Len(stack'[t]) \in Nat  BY <2>0 DEF Moved
    <3>1. CASE u # t  BY <1>a, <2>0, <2>1, <3>1 DEF Moved
    <3>2. CASE u = t /\ j > n
      <4> DEFINE l == j - n + 1
      <4>1. l \in 2..Len(stack[t]) /\ stack'[t][j] = stack[t][l]
        BY <2>0, <3>2 DEF Moved
      <4>2. CASE i > n
        <5> DEFINE k == i - n + 1
        <5>1. k \in 2..Len(stack[t]) /\ stack'[t][i] = stack[t][k]
          BY <2>0, <3>2, <4>2 DEF Moved
        <5>2. k < l /\ k \in 1..Len(stack[t]) /\ l \in 1..Len(stack[t])
          BY <2>1, <3>t, <4>1, <5>1, <3>2
        <5> QED  BY <1>a, <3>2, <4>1, <5>1, <5>2
      <4>3. CASE ~ (i > n)
        <5>1. i \in 1..n  BY <3>t, <3>2, <4>3
        <5> HIDE DEF l
        <5>2. l \in 1..Len(stack[t]) /\ 1 < l /\ 1 \in 1..Len(stack[t]) /\ Top(t) = stack[t][1]
          BY <2>0, <4>1 DEF Moved
        <5>3. Apart(Top(t), stack[t][l])  BY <1>a, <5>2
        <5>4. ASSUME NEW m \in Msg, Carries(stack'[t][i], m), IsInside(stack'[t][i]),
                     Carries(stack[t][l], m), IsInside(stack[t][l])
              PROVE  stack'[t][i].at # stack[t][l].at
          <6>1. /\ Carries(Top(t), m) /\ stack'[t][i].at = Top(t).at
                /\ IsInside(Top(t)) \/ lock[Top(t).at] = None
            BY <2>r, <5>1, <5>4
          <6>2. CASE IsInside(Top(t))  BY <5>3, <5>4, <6>1, <6>2 DEF Apart
          <6>3. CASE lock[Top(t).at] = None
            <7>1. lock[stack[t][l].at] = t  BY <5>2, <5>4 DEF HeldInv
            <7>2. t # None  BY ClientAssumption
            <7> QED  BY <6>1, <6>3, <7>1, <7>2
          <6> QED  BY <6>1, <6>2, <6>3
        <5> QED  BY <3>2, <4>1, <5>4 DEF Apart
      <4> QED  BY <4>2, <4>3
    <3>3. CASE u = t /\ ~ (j > n)
      <4>1. i \in 1..n /\ j \in 1..n /\ i # j  BY <2>1, <3>t, <3>3
      <4> QED  BY <2>r, <3>3, <4>1 DEF Apart
    <3> QED  BY <3>1, <3>2, <3>3
  <2> QED  BY <1>c, <2>1
<1>2. ASSUME NEW c \in Conn, Stanzas(c) PROVE ServersInv'
  <2>1. CASE UNCHANGED stack  BY <1>a, <1>c, <2>1
  <2>2. CASE ~ UNCHANGED stack
    <3>1. ASSUME NEW u \in Thread, NEW i \in 1..Len(stack'[u]), NEW j \in 1..Len(stack'[u]), i < j
          PROVE  Apart(stack'[u][i], stack'[u][j])
      <4>1. CASE u # Client[c].thread
        <5>1. stack'[u] = stack[u]  BY <1>2, <2>2, <4>1, StartNew
        <5> QED  BY <1>a, <3>1, <5>1
      <4>2. CASE u = Client[c].thread
        <5>1. ASSUME NEW m \in Msg, Carries(stack'[u][i], m), Carries(stack'[u][j], m)
              PROVE  FALSE
          <6>1. i = 1  BY <1>2, <2>2, <4>2, <5>1, CarrierStart
          <6>2. j = 1  BY <1>2, <2>2, <4>2, <5>1, CarrierStart
          <6> QED  BY <3>1, <6>1, <6>2
        <5> QED  BY <5>1 DEF Apart
      <4> QED  BY <4>1, <4>2
    <3> QED  BY <1>c, <3>1
  <2> QED  BY <2>1, <2>2
<1>3. CASE UNCHANGED stack  BY <1>3, <1>a, <1>c
<1> QED  BY <1>1, <1>2, <1>3, OtherStep

\* The frame at place i of the stack s is the origin of the message m, that
\* came from the connection c, or has it below.
FromOrigin(s, i, m, c) ==
  \/ s[i].op = "sync" /\ s[i].at = At(c) /\ CallOf(s[i]).notify
  \/ \E j \in i..Len(s) : /\ Carries(s[j], m) /\ IsInside(s[j])
                          /\ s[j].at = At(c) /\ CallOf(s[j]).notify

LEMMA OriginStep ==
  ASSUME TypeOK, PlaceInv, PresenceInv, CarrierInv, OriginInv, [Next]_vars
  PROVE  OriginInv'
<1>a. ASSUME NEW m \in Msg, NEW u \in Thread, NEW i \in 1..Len(stack[u]), Carries(stack[u][i], m)
      PROVE  FromOrigin(stack[u], i, m, sent[m].from) /\ sent'[m] = sent[m]
  <2>1. sent'[m] = sent[m]  BY <1>a, CarriedKept
  <2> QED  BY <1>a, <2>1 DEF OriginInv, Origin, FromOrigin
<1>c. ASSUME \A m \in Msg : \A u \in Thread : \A i \in 1..Len(stack'[u]) :
               Carries(stack'[u][i], m) => FromOrigin(stack'[u], i, m, sent'[m].from)
      PROVE  OriginInv'
  BY <1>c DEF OriginInv, Origin, FromOrigin, Carries, Sends, CallOf, IsInside, At
<1>1. ASSUME NEW t \in Thread, Step(t) PROVE OriginInv'
  <2> DEFINE n == New(t)
  <2>0. Moved(t, n)  BY <1>1, Moves
  <2> HIDE DEF n
  <2>t. n \in Nat /\ Len(stack[t]) \in Nat /\ Len(stack'[t]) \in Nat  BY <2>0 DEF Moved
  <2>1. ASSUME NEW m \in Msg, NEW u \in Thread, NEW i \in 1..Len(stack'[u]),
               Carries(stack'[u][i], m)
        PROVE  FromOrigin(stack'[u], i, m, sent'[m].from)
    <3>1. CASE u # t
      <4>1. stack'[u] = stack[u]  BY <2>0, <3>1 DEF Moved
      <4> QED  BY <1>a, <2>1, <4>1
    <3>2. CASE u = t /\ i > n
      <4> DEFINE l == i - n + 1
      <4>1. l \in 2..Len(stack[t]) /\ stack'[t][i] = stack[t][l]
        BY <2>0, <3>2 DEF Moved
      <4>2. FromOrigin(stack[t], l, m, sent[m].from) /\ sent'[m] = sent[m]
        <5>1. l \in 1..Len(stack[t])  BY <4>1
        <5> HIDE DEF l
        <5> QED  BY <1>a, <2>1, <3>2, <4>1, <5>1
      <4>3. ASSUME NEW j \in l..Len(stack[t])
            PROVE  j + n - 1 \in i..Len(stack'[t]) /\ stack'[t][j + n - 1] = stack[t][j]
        <5>1. j \in 2..Len(stack[t]) /\ j + n - 1 >= i  BY <2>t, <3>2, <4>1
        <5>2. j + n - 1 \in (n+1)..Len(stack'[t]) /\ stack'[t][j + n - 1] = stack[t][j]
          BY <2>0, <5>1 DEF Moved
        <5> QED  BY <2>t, <3>2, <5>1, <5>2
      <4> HIDE DEF l
      <4> QED  BY <3>2, <4>1, <4>2, <4>3 DEF FromOrigin
    <3>3. CASE u = t /\ ~ (i > n)
      <4>1. i \in 1..n  BY <2>t, <3>3
      <4>2. Top(t) = stack[t][1] /\ 1 \in 1..Len(stack[t])  BY <2>0 DEF Moved
      <4>3. \/ IsInside(stack'[t][i]) /\ GoesOn(t, Top(t), stack'[t][i], i, m)
            \/ CallsOut(t, Top(t), stack'[t][i], i, m)
        BY <1>1, <2>1, <3>3, <4>1, RelayNew DEF n
      <4>4. Carries(Top(t), m)  BY <4>3 DEF GoesOn, CallsOut
      <4>5. FromOrigin(stack[t], 1, m, sent[m].from) /\ sent'[m] = sent[m]
        BY <1>a, <4>2, <4>4
      <4>6. CASE \E j \in 2..Len(stack[t]) :
                   /\ Carries(stack[t][j], m) /\ IsInside(stack[t][j])
                   /\ stack[t][j].at = At(sent[m].from) /\ CallOf(stack[t][j]).notify
        <5>1. PICK j \in 2..Len(stack[t]) :
                   /\ Carries(stack[t][j], m) /\ IsInside(stack[t][j])
                   /\ stack[t][j].at = At(sent[m].from) /\ CallOf(stack[t][j]).notify
          BY <4>6
        <5>2. j + n - 1 \in (n+1)..Len(stack'[t]) /\ stack'[t][j + n - 1] = stack[t][j]
          BY <2>0 DEF Moved
        <5>3. j + n - 1 \in i..Len(stack'[t])  BY <2>t, <4>1, <5>2
        <5> QED  BY <3>3, <4>5, <5>1, <5>2, <5>3 DEF FromOrigin
      <4>7. CASE Top(t).at = At(sent[m].from) /\ CallOf(Top(t)).notify
        <5>1. CASE IsInside(stack'[t][i]) /\ GoesOn(t, Top(t), stack'[t][i], i, m)
          <6>1. i \in i..Len(stack'[t])  BY <3>3
          <6> QED  BY <2>1, <3>3, <4>5, <4>7, <5>1, <6>1 DEF FromOrigin, GoesOn
        <5>2. CASE CallsOut(t, Top(t), stack'[t][i], i, m)
          <6>1. i = 1 /\ n = 2  BY <5>2 DEF CallsOut, n
          <6>2. 2 \in i..Len(stack'[t])  BY <2>0, <6>1 DEF Moved
          <6> QED  BY <3>3, <4>5, <4>7, <5>2, <6>2 DEF FromOrigin, CallsOut, IsInside
        <5> QED  BY <4>3, <5>1, <5>2
      <4>8. \A j \in 1..Len(stack[t]) : j = 1 \/ j \in 2..Len(stack[t])  BY <2>t
      <4> QED  BY <4>2, <4>5, <4>6, <4>7, <4>8 DEF FromOrigin
    <3> QED  BY <3>1, <3>2, <3>3
  <2> QED  BY <1>c, <2>1
<1>2. ASSUME NEW c \in Conn, Stanzas(c) PROVE OriginInv'
  <2>1. CASE UNCHANGED stack  BY <1>c, <1>a, <2>1
  <2>2. CASE ~ UNCHANGED stack
    <3>1. ASSUME NEW m \in Msg, NEW u \in Thread, NEW i \in 1..Len(stack'[u]),
                 Carries(stack'[u][i], m)
          PROVE  FromOrigin(stack'[u], i, m, sent'[m].from)
      <4>1. CASE u # Client[c].thread
        <5>1. stack'[u] = stack[u]  BY <1>2, <2>2, <4>1, StartNew
        <5> QED  BY <1>a, <3>1, <5>1
      <4>2. CASE u = Client[c].thread
        BY <1>2, <2>2, <3>1, <4>2, CarrierStart DEF FromOrigin
      <4> QED  BY <4>1, <4>2
    <3> QED  BY <1>c, <3>1
  <2> QED  BY <2>1, <2>2
<1>3. CASE UNCHANGED stack  BY <1>c, <1>a, <1>3
<1> QED  BY <1>1, <1>2, <1>3, OtherStep

LEMMA SentStep ==
  ASSUME TypeOK, SentInv, [Next]_vars
  PROVE  SentInv'
<1>1. ASSUME NEW m \in Msg, sent'[m] # None PROVE sock'[sent'[m].from] # "new"
  <2>1. CASE sent[m] # None
    <3>1. sent'[m] = sent[m] /\ sent[m].from \in Conn /\ sock[sent[m].from] # "new"
      BY <2>1, SentKept, SentTypes DEF SentInv
    <3> DEFINE c == sent[m].from
    <3> HIDE DEF c
    <3>2. c \in Conn /\ sock[c] # "new"  BY <3>1 DEF c
    <3>3. sock'[c] # "new"  BY <3>2, OnceListed
    <3> QED  BY <3>1, <3>3 DEF c
  <2>2. ASSUME NEW c \in Conn, Stanzas(c), sent[m] = None PROVE sock'[sent'[m].from] # "new"
    <3>1. ~ UNCHANGED <<stack, history>>  BY <1>1, <2>2 DEF history
    <3>2. sent' # sent  BY <1>1, <2>2
    <3>3. PICK k \in Msg, to \in Targets : Sending(c, k, to) /\ UNCHANGED table
      BY <2>2, <3>1, <3>2, StanzaNew
    <3>4. k = m /\ sent'[m] = [from |-> c, to |-> to]
      BY <1>1, <2>2, <3>3 DEF Sending, TypeOK
    <3>5. sock[c] # "new" /\ sock' = sock  BY <2>2, <3>1, <3>3, StanzaNew DEF table
    <3> QED  BY <3>4, <3>5
  <2>3. CASE sent' = sent /\ sent[m] = None  BY <1>1, <2>3
  <2> QED  BY <2>1, <2>2, <2>3, OtherStep, StepSessions
<1> QED  BY <1>1 DEF SentInv

LEMMA RelayStep ==
  IInv /\ CascadeInv /\ RelayInv /\ [Next]_vars => RelayInv'
BY CarrierStep, ServersStep, OriginStep, SentStep DEF IInv, CascadeInv, RelayInv

-----------------------------------------------------------------------------
(* No listed session misses a message.                                     *)

\* What the histories of a message become in a step of a call.
LEMMA StepHistory ==
  ASSUME TypeOK, NEW t \in Thread, Step(t), NEW m \in Msg
  PROVE  /\ \A c \in Conn : written'[c][m] >= written[c][m]
         /\ bounced[m] \subseteq bounced'[m]
         /\ owed'[m] = owed[m] \/ (GetOutChannels(t) /\ Carries(Top(t), m))
         /\ missed'[m] = missed[m] \/ (WriteFails(t) /\ Carries(Top(t), m))
<1>h. \A c \in Conn : written[c][m] \in Nat  BY DEF TypeOK
<1>1. CASE Write(t)
  <2> DEFINE what == Top(t).call.what
  <2>1. /\ UNCHANGED <<owed, missed>>
        /\ \E c \in Top(t).left :
             /\ written' = IF what.kind = "chat"
                           THEN [written EXCEPT ![c][what.msg] = @ + 1] ELSE written
             /\ bounced' = IF what.kind = "error"
                           THEN [bounced EXCEPT ![what.msg] = @ \cup {c}] ELSE bounced
    BY <1>1, WriteNew DEF Write
  <2> HIDE DEF what
  <2>2. PICK c \in Top(t).left :
             /\ written' = IF what.kind = "chat"
                           THEN [written EXCEPT ![c][what.msg] = @ + 1] ELSE written
             /\ bounced' = IF what.kind = "error"
                           THEN [bounced EXCEPT ![what.msg] = @ \cup {c}] ELSE bounced
    BY <2>1
  <2>3. bounced[m] \subseteq bounced'[m]  BY <2>2 DEF TypeOK
  <2>4. ASSUME NEW d \in Conn PROVE written'[d][m] >= written[d][m]
    <3>1. CASE written' = written  BY <1>h, <3>1
    <3>2. CASE written' = [written EXCEPT ![c][what.msg] = @ + 1]
      <4>1. written'[d][m] = written[d][m] \/ written'[d][m] = written[d][m] + 1
        BY <3>2 DEF TypeOK
      <4> QED  BY <1>h, <4>1
    <3> QED  BY <2>2, <3>1, <3>2
  <2> QED  BY <2>1, <2>3, <2>4
<1>2. CASE WriteFails(t)
  <2>1. /\ Top(t).op = "writes"
        /\ missed' = missed \/
             (Top(t).call.what.kind = "chat" /\
              \E c : missed' = [missed EXCEPT ![Top(t).call.what.msg] = @ \cup {c}])
        /\ UNCHANGED <<owed, bounced, written>>
    BY <1>2 DEF WriteFails, Running
  <2>2. missed'[m] = missed[m] \/ Carries(Top(t), m)
    BY <2>1 DEF Carries, Sends, CallOf, TypeOK
  <2> QED  BY <1>2, <1>h, <2>1, <2>2
<1>3. CASE GetOutChannels(t)
  <2>1. /\ Top(t).op = "send"
        /\ owed' = owed \/
             (Top(t).call.what.kind = "chat" /\
              \E S : owed' = [owed EXCEPT ![Top(t).call.what.msg] = @ \cup S])
        /\ UNCHANGED <<missed, bounced, written>>
    BY <1>3 DEF GetOutChannels, Running
  <2>2. owed'[m] = owed[m] \/ Carries(Top(t), m)
    BY <2>1 DEF Carries, Sends, CallOf, TypeOK
  <2> QED  BY <1>3, <1>h, <2>1, <2>2
<1>4. CASE ~ Write(t) /\ ~ WriteFails(t) /\ ~ GetOutChannels(t)
  <2>1. UNCHANGED <<owed, missed, bounced, written>>
    BY <1>4 DEF Step, EnterMonitor, LeaveMonitor, GetForeignChannels, Deliver, DeliverFails,
       SendReturns, DestroySession, TellFriend, AllTold, CloseChannel, Probe, Broadcast, LoopEnds,
       history
  <2> QED  BY <1>h, <2>1
<1> QED  BY <1>1, <1>2, <1>3, <1>4

\* What a call is about is settled by its name.
LEMMA StepByOp ==
  ASSUME NEW t \in Thread, Step(t)
  PROVE  /\ Top(t).op = "destroy" => DestroySession(t)
         /\ Top(t).op = "send" => GetOutChannels(t)
         /\ Top(t).op = "writes" => Write(t) \/ WriteFails(t) \/ GetForeignChannels(t)
         /\ Top(t).op = "delivers" => Deliver(t) \/ DeliverFails(t) \/ SendReturns(t)
BY DEF Step, Running, EnterMonitor, LeaveMonitor, GetOutChannels, Write, WriteFails,
   GetForeignChannels, Deliver, DeliverFails, SendReturns, DestroySession, TellFriend, AllTold,
   CloseChannel, Probe, Broadcast, LoopEnds

\* The call f still has to serve the channel c with the message m, or to
\* destroy its session because that failed.
Serving(f, m, c) ==
  \/ f.op = "destroy" /\ f.conn = c
  \/ f.op = "writes" /\ Carries(f, m) /\ c \in f.left
Awaits(s, m, c) == \E i \in 1..Len(s) : Serving(s[i], m, c)

OwedInv ==
  \A m \in Msg : \A c \in owed[m] :
    /\ sent[m] # None /\ sock[c] # "new"
    /\ written[c][m] > 0 \/ c \notin sessions \/ Awaits(stack[SenderThread(m)], m, c)

LEMMA ServingStep ==
  ASSUME TypeOK, NEW t \in Thread, Step(t), NEW m \in Msg, NEW c \in Conn,
         Serving(Top(t), m, c)
  PROVE  \/ written'[c][m] > 0
         \/ c \notin sessions'
         \/ \E k \in 1..New(t) : Serving(stack'[t][k], m, c)
<1> DEFINE f == Top(t)
<1>0. sessions' \subseteq sessions  BY StepSessions
<1>1. CASE f.op = "destroy"
  <2>1. DestroySession(t) /\ f.conn = c  BY <1>1, StepByOp DEF Serving, Carries
  <2> QED  BY <2>1, DestroySessionNew
<1>2. CASE f.op = "writes" /\ Write(t)
  <2>1. f.call.what.kind = "chat" /\ f.call.what.msg = m /\ c \in f.left
    BY <1>2 DEF Serving, Carries, CallOf
  <2>2. PICK d \in f.left :
          /\ stack'[t][1] = WritesFrame(f.at, f.call, f.left \ {d})
          /\ written' = [written EXCEPT ![d][m] = @ + 1]
    BY <1>2, <2>1, WriteNew
  <2>3. CASE d = c
    <3>1. written'[c][m] = written[c][m] + 1 /\ written[c][m] \in Nat
      BY <2>2, <2>3 DEF TypeOK
    <3> QED  BY <3>1
  <2>4. CASE d # c
    <3> DEFINE a == WritesFrame(f.at, f.call, f.left \ {d})
    <3>1. Serving(a, m, c)
      BY <2>1, <2>4 DEF Serving, Carries, Sends, CallOf, WritesFrame
    <3>2. stack'[t][1] = a /\ 1 \in 1..New(t)  BY <1>2, <2>2, WriteNew
    <3> HIDE DEF a
    <3> QED  BY <3>1, <3>2
  <2> QED  BY <2>3, <2>4
<1>3. CASE f.op = "writes" /\ WriteFails(t)
  <2>1. f.call.what.kind = "chat" /\ f.call.what.msg = m /\ c \in f.left
    BY <1>3 DEF Serving, Carries, CallOf
  <2>2. PICK d \in f.left :
          /\ stack'[t][New(t)] = WritesFrame(f.at, f.call, f.left \ {d})
          /\ d \in sessions => \E k \in 1..(New(t)-1) : stack'[t][k] = DestroyFrame(d)
    BY <1>3, WriteFailsNew
  <2>n. New(t) \in Nat /\ New(t) >= 1  BY <1>3, WriteFailsNew
  <2>3. CASE d = c
    <3>1. CASE c \notin sessions  BY <1>0, <3>1
    <3>2. CASE c \in sessions
      <4>1. PICK k \in 1..(New(t)-1) : stack'[t][k] = DestroyFrame(c)  BY <2>2, <2>3, <3>2
      <4>2. k \in 1..New(t) /\ Serving(DestroyFrame(c), m, c)
        BY <2>n DEF Serving, DestroyFrame
      <4> QED  BY <4>1, <4>2
    <3> QED  BY <3>1, <3>2
  <2>4. CASE d # c
    <3> DEFINE a == WritesFrame(f.at, f.call, f.left \ {d})
    <3>1. Serving(a, m, c)
      BY <2>1, <2>4 DEF Serving, Carries, Sends, CallOf, WritesFrame
    <3>2. stack'[t][New(t)] = a /\ New(t) \in 1..New(t)  BY <2>2, <2>n
    <3> HIDE DEF a
    <3> QED  BY <3>1, <3>2
  <2> QED  BY <2>3, <2>4
<1>4. CASE f.op = "writes" /\ GetForeignChannels(t)
  BY <1>4 DEF Serving, GetForeignChannels
<1> QED  BY <1>1, <1>2, <1>3, <1>4, StepByOp DEF Serving

LEMMA OwedStep ==
  ASSUME TypeOK, ListedInv, CarrierInv, OwedInv, [Next]_vars
  PROVE  OwedInv'
<1> DEFINE Fine(m, c) ==
             /\ sent'[m] # None /\ sock'[c] # "new"
             /\ \/ written'[c][m] > 0 \/ c \notin sessions'
                \/ Awaits(stack'[Client[sent'[m].from].thread], m, c)
<1>c. ASSUME \A m \in Msg : \A c \in owed'[m] : Fine(m, c) PROVE OwedInv'
  BY <1>c DEF OwedInv, SenderThread, Awaits, Serving, Carries, Sends, CallOf
<1>a. ASSUME NEW m \in Msg, NEW c \in owed[m]
      PROVE  /\ c \in Conn /\ sent[m] # None /\ sent'[m] = sent[m] /\ sock'[c] # "new"
             /\ c \notin sessions => c \notin sessions'
             /\ SenderThread(m) \in Thread /\ SenderThread(m) = Client[sent'[m].from].thread
             /\ written[c][m] > 0 \/ c \notin sessions \/ Awaits(stack[SenderThread(m)], m, c)
  <2>1. c \in Conn /\ sent[m] # None /\ sock[c] # "new"  BY DEF OwedInv, TypeOK
  <2>2. sent'[m] = sent[m] /\ SenderThread(m) \in Thread  BY <2>1, SentKept, SentTypes
  <2> QED  BY <2>1, <2>2, OnceListed DEF OwedInv, SenderThread
<1>1. ASSUME NEW t \in Thread, Step(t) PROVE OwedInv'
  <2>0. Moved(t, New(t))  BY <1>1, Moves
  <2>1. ASSUME NEW m \in Msg, NEW c \in owed[m] PROVE Fine(m, c)
    <3> DEFINE T == SenderThread(m)
    <3>1. CASE written[c][m] > 0
      <4>1. written'[c][m] >= written[c][m]  BY <1>1, <1>a, <2>1, StepHistory
      <4>2. written'[c][m] \in Int /\ written[c][m] \in Int
        BY <1>a, <2>1, TypeStep DEF TypeOK
      <4> QED  BY <1>a, <2>1, <3>1, <4>1, <4>2
    <3>2. CASE c \notin sessions  BY <1>a, <2>1, <3>2
    <3>3. CASE Awaits(stack[T], m, c)
      <4>1. PICK i \in 1..Len(stack[T]) : Serving(stack[T][i], m, c)  BY <3>3 DEF Awaits
      <4>2. CASE T # t
        <5>1. stack'[T] = stack[T]  BY <1>a, <2>0, <2>1, <4>2 DEF Moved
        <5> QED  BY <1>a, <2>1, <3>3, <5>1
      <4>3. CASE T = t /\ i # 1
        <5>1. i \in 2..Len(stack[t])  BY <2>0, <4>3 DEF Moved
        <5>2. i + New(t) - 1 \in 1..Len(stack'[t]) /\ stack'[t][i + New(t) - 1] = stack[t][i]
          BY <2>0, <5>1 DEF Moved
        <5>3. Awaits(stack'[t], m, c)  BY <4>1, <4>3, <5>2 DEF Awaits
        <5> QED  BY <1>a, <2>1, <4>3, <5>3
      <4>4. CASE T = t /\ i = 1
        <5>1. Serving(Top(t), m, c)  BY <2>0, <4>1, <4>4 DEF Moved
        <5>2. \/ written'[c][m] > 0 \/ c \notin sessions'
              \/ \E k \in 1..New(t) : Serving(stack'[t][k], m, c)
          BY <1>1, <1>a, <2>1, <5>1, ServingStep
        <5>3. \A k \in 1..New(t) : k \in 1..Len(stack'[t])  BY <2>0 DEF Moved
        <5> HIDE DEF T
        <5>4. \/ written'[c][m] > 0 \/ c \notin sessions' \/ Awaits(stack'[t], m, c)
          BY <5>2, <5>3 DEF Awaits
        <5> QED  BY <1>a, <2>1, <4>4, <5>4 DEF T
      <4> QED  BY <4>2, <4>3, <4>4
    <3> QED  BY <1>a, <2>1, <3>1, <3>2, <3>3
  <2>2. ASSUME NEW m \in Msg, NEW c \in owed'[m], c \notin owed[m] PROVE Fine(m, c)
    <3> DEFINE f == Top(t)
               left == Matching(f.at, f.call.to)
               a == WritesFrame(f.at, f.call, left)
    <3>1. GetOutChannels(t) /\ Carries(f, m)  BY <1>1, <2>2, StepHistory
    <3>2. f.op = "send" /\ f = stack[t][1] /\ 1 \in 1..Len(stack[t])
      BY <2>0, <3>1, GetOutChannelsNew DEF Moved
    <3>3. f.call.what.kind = "chat" /\ f.call.what.msg = m
      BY <3>1, <3>2 DEF Carries, CallOf
    <3>4. c \in left
      <4>1. owed' = [owed EXCEPT ![m] = @ \cup left]  BY <3>1, <3>3 DEF GetOutChannels
      <4> QED  BY <2>2, <4>1 DEF TypeOK
    <3>5. c \in sessions /\ c \in Conn  BY <3>4 DEF Matching, TypeOK
    <3>6. sock'[c] # "new"
      <4>1. sock[c] # "new"  BY <3>5 DEF ListedInv
      <4> QED  BY <3>5, <4>1, OnceListed
    <3>7. CarriedFor(t, f, m) /\ sent'[m] = sent[m] /\ sent[m] # None
      BY <3>1, <3>2, CarriedKept
    <3>8. stack'[t][1] = a /\ New(t) = 1  BY <3>1, GetOutChannelsNew
    <3>9. Serving(a, m, c)
      BY <3>3, <3>4 DEF Serving, Carries, Sends, CallOf, WritesFrame
    <3> HIDE DEF a
    <3>10. 1 \in 1..Len(stack'[t])  BY <2>0, <3>8 DEF Moved
    <3>11. Awaits(stack'[t], m, c)  BY <3>8, <3>9, <3>10 DEF Awaits
    <3> QED  BY <3>6, <3>7, <3>11 DEF CarriedFor, SenderThread
  <2> HIDE DEF Fine
  <2> QED  BY <1>c, <2>1, <2>2
<1>2. ASSUME UNCHANGED <<stack, owed, written>> PROVE OwedInv'
  <2>1. ASSUME NEW m \in Msg, NEW c \in owed[m] PROVE Fine(m, c)
    BY <1>a, <1>2, <2>1
  <2> HIDE DEF Fine
  <2> QED  BY <1>c, <1>2, <2>1
<1>3. ASSUME NEW d \in Conn, Stanzas(d), ~ UNCHANGED <<stack, history>> PROVE OwedInv'
  <2>0. /\ stack[Client[d].thread] = <<>>
        /\ \A u \in Thread : u # Client[d].thread => stack'[u] = stack[u]
        /\ UNCHANGED <<owed, written>>
    BY <1>3, StanzaNew
  <2>1. ASSUME NEW m \in Msg, NEW c \in owed[m] PROVE Fine(m, c)
    <3> DEFINE T == SenderThread(m)
    <3>1. CASE T = Client[d].thread
      <4>1. ~ Awaits(stack[T], m, c)  BY <2>0, <3>1 DEF Awaits
      <4> QED  BY <1>a, <2>0, <2>1, <4>1
    <3>2. CASE T # Client[d].thread
      <4>1. stack'[T] = stack[T]  BY <1>a, <2>0, <2>1, <3>2
      <4> QED  BY <1>a, <2>0, <2>1, <4>1
    <3> QED  BY <3>1, <3>2
  <2> HIDE DEF Fine
  <2> QED  BY <1>c, <2>0, <2>1
<1> QED  BY <1>1, <1>2, <1>3, OtherStep DEF history

\* What has to hold for a message to be followed.
FollowInv == IInv /\ CascadeInv /\ RelayInv

LEMMA FollowInit == Init => FollowInv
<1> SUFFICES ASSUME Init PROVE FollowInv  OBVIOUS
<1>1. IInv  BY IInvInit
<1>2. \A t \in Thread : Len(stack[t]) = 0 /\ 1..Len(stack[t]) = {}  BY DEF Init
<1>3. CascadeInv
  BY <1>2 DEF Init, CascadeInv, PresenceInv, ListedInv, OnceInv
<1>4. RelayInv
  BY <1>2 DEF Init, RelayInv, CarrierInv, ServersInv, OriginInv, SentInv
<1> QED  BY <1>1, <1>3, <1>4 DEF FollowInv

LEMMA FollowStep == FollowInv /\ [Next]_vars => FollowInv'
BY IInvStep, CascadeStep, RelayStep DEF FollowInv

\* No session that is still listed has silently missed a message once it has
\* been sent: every channel that getOutChannels took for it was written to, or
\* its session has left the table, whichever sessions were destroyed in the
\* middle of the send and whatever the other threads did.
THEOREM NoneMissesAMessage == Spec => []ServedOrPurged
<1>1. Init => FollowInv /\ OwedInv
  <2>1. Init => OwedInv  BY DEF Init, OwedInv
  <2> QED  BY <2>1, FollowInit
<1>2. FollowInv /\ OwedInv /\ [Next]_vars => (FollowInv /\ OwedInv)'
  BY FollowStep, OwedStep DEF FollowInv, IInv, CascadeInv, RelayInv
<1>3. FollowInv /\ OwedInv => ServedOrPurged
  <2> SUFFICES ASSUME FollowInv, OwedInv, NEW m \in Msg, Sent(m), NEW c \in owed[m]
               PROVE  written[c][m] > 0 \/ c \notin sessions
    BY DEF ServedOrPurged
  <2>1. stack[SenderThread(m)] = <<>>  BY DEF Sent, SenderThread
  <2>2. ~ Awaits(stack[SenderThread(m)], m, c)  BY <2>1 DEF Awaits
  <2> QED  BY <2>2 DEF OwedInv
<1> QED  BY <1>1, <1>2, <1>3, PTL DEF Spec

-----------------------------------------------------------------------------
(* The sender learns of a failure on its own server.                       *)

\* The call f still has to write the error about m to the channel c, that of
\* jid, or to destroy its session because that failed.
Reporting(f, m, c, jid) ==
  \/ f.op = "destroy" /\ f.conn = c
  \/ f.op = "send" /\ Complains(f, m) /\ f.at = At(c) /\ f.call.to = jid
  \/ f.op = "writes" /\ Complains(f, m) /\ c \in f.left
Reports(s, m, c, jid) == \E i \in 1..Len(s) : Reporting(s[i], m, c, jid)

MissedInv ==
  \A m \in Msg : \A c \in missed[m] :
    /\ sent[m] # None
    /\ At(c) = At(sent[m].from) =>
         \/ sent[m].from \in bounced[m]
         \/ sent[m].from \notin sessions
         \/ Reports(stack[SenderThread(m)], m, sent[m].from, JidOf(sent[m].from))

\* A session has the jid it has.
LEMMA OwnJid == ASSUME TypeOK, NEW c \in Conn PROVE StartsWith(JidOf(c), JidOf(c))
<1>1. res[c] = None \/ res[c] \in Resource  BY DEF TypeOK
<1> QED  BY <1>1, ExtendsAssumption DEF StartsWith, JidOf

LEMMA ReportingStep ==
  ASSUME TypeOK, NEW t \in Thread, Step(t), NEW m \in Msg, NEW c \in Conn,
         Reporting(Top(t), m, c, JidOf(c))
  PROVE  \/ c \in bounced'[m]
         \/ c \notin sessions'
         \/ \E k \in 1..New(t) : Reporting(stack'[t][k], m, c, JidOf(c))
<1> DEFINE f == Top(t)
           jid == JidOf(c)
<1> HIDE DEF jid
<1>0. sessions' \subseteq sessions  BY StepSessions
<1>r. Reporting(f, m, c, jid)  BY DEF jid
<1>g. SUFFICES \/ c \in bounced'[m]
               \/ c \notin sessions'
               \/ \E k \in 1..New(t) : Reporting(stack'[t][k], m, c, jid)
  BY DEF jid
<1>1. CASE f.op = "destroy"
  <2>1. DestroySession(t) /\ f.conn = c  BY <1>1, <1>r, StepByOp DEF Reporting
  <2> QED  BY <2>1, DestroySessionNew
<1>w. f.op = "writes" => f.call.what.kind = "error" /\ f.call.what.msg = m /\ c \in f.left
  BY <1>r DEF Reporting, Complains, CallOf
<1>2. CASE f.op = "writes" /\ Write(t)
  <2>1. f.call.what.kind = "error" /\ f.call.what.msg = m /\ c \in f.left  BY <1>2, <1>w
  <2>2. PICK d \in f.left :
          /\ stack'[t][1] = WritesFrame(f.at, f.call, f.left \ {d})
          /\ bounced' = [bounced EXCEPT ![m] = @ \cup {d}]
    BY <1>2, <2>1, WriteNew
  <2>3. CASE d = c  BY <2>2, <2>3 DEF TypeOK
  <2>4. CASE d # c
    <3> DEFINE a == WritesFrame(f.at, f.call, f.left \ {d})
    <3>1. Reporting(a, m, c, jid)
      BY <2>1, <2>4 DEF Reporting, Complains, Sends, CallOf, WritesFrame
    <3>2. stack'[t][1] = a /\ 1 \in 1..New(t)  BY <1>2, <2>2, WriteNew
    <3> HIDE DEF a
    <3> QED  BY <3>1, <3>2
  <2> QED  BY <2>3, <2>4
<1>3. CASE f.op = "writes" /\ WriteFails(t)
  <2>1. f.call.what.kind = "error" /\ f.call.what.msg = m /\ c \in f.left  BY <1>3, <1>w
  <2>2. PICK d \in f.left :
          /\ stack'[t][New(t)] = WritesFrame(f.at, f.call, f.left \ {d})
          /\ d \in sessions => \E k \in 1..(New(t)-1) : stack'[t][k] = DestroyFrame(d)
    BY <1>3, WriteFailsNew
  <2>n. New(t) \in Nat /\ New(t) >= 1  BY <1>3, WriteFailsNew
  <2>3. CASE d = c
    <3>1. CASE c \notin sessions  BY <1>0, <3>1
    <3>2. CASE c \in sessions
      <4>1. PICK k \in 1..(New(t)-1) : stack'[t][k] = DestroyFrame(c)  BY <2>2, <2>3, <3>2
      <4>2. k \in 1..New(t) /\ Reporting(DestroyFrame(c), m, c, jid)
        BY <2>n DEF Reporting, DestroyFrame
      <4> QED  BY <4>1, <4>2
    <3> QED  BY <3>1, <3>2
  <2>4. CASE d # c
    <3> DEFINE a == WritesFrame(f.at, f.call, f.left \ {d})
    <3>1. Reporting(a, m, c, jid)
      BY <2>1, <2>4 DEF Reporting, Complains, Sends, CallOf, WritesFrame
    <3>2. stack'[t][New(t)] = a /\ New(t) \in 1..New(t)  BY <2>2, <2>n
    <3> HIDE DEF a
    <3> QED  BY <3>1, <3>2
  <2> QED  BY <2>3, <2>4
<1>4. CASE f.op = "writes" /\ GetForeignChannels(t)
  BY <1>4, <1>w DEF GetForeignChannels
<1>5. CASE f.op = "send"
  <2>1. /\ GetOutChannels(t) /\ f.at = At(c) /\ f.call.to = jid
        /\ f.call.what.kind = "error" /\ f.call.what.msg = m
    BY <1>5, <1>r, StepByOp DEF Reporting, Complains, CallOf
  <2> DEFINE left == Matching(f.at, f.call.to)
             a == WritesFrame(f.at, f.call, left)
  <2>2. stack'[t][1] = a /\ 1 \in 1..New(t)  BY <2>1, GetOutChannelsNew
  <2>3. CASE c \notin sessions  BY <1>0, <2>3
  <2>4. CASE c \in sessions
    <3>1. c \in left  BY <2>1, <2>4, OwnJid DEF Matching, jid
    <3> HIDE DEF left
    <3>2. Reporting(a, m, c, jid)
      BY <2>1, <3>1 DEF Reporting, Complains, Sends, CallOf, WritesFrame
    <3> HIDE DEF a
    <3> QED  BY <2>2, <3>2
  <2> QED  BY <2>3, <2>4
<1> QED  BY <1>1, <1>2, <1>3, <1>4, <1>5, <1>r, StepByOp DEF Reporting

\* A send that fails on the sender's server is the one it started, which is
\* to notify it.
LEMMA MissedAtHome ==
  ASSUME TypeOK, PlaceInv, RelayInv, NEW t \in Thread, WriteFails(t), NEW m \in Msg,
         Carries(Top(t), m), NEW c \in Conn, missed'[m] \ missed[m] = {c},
         At(c) = At(sent[m].from)
  PROVE  \E k \in 1..New(t) :
           Reporting(stack'[t][k], m, sent[m].from, JidOf(sent[m].from))
<1> DEFINE f == Top(t)
<1>0. stack[t] # <<>> /\ f = stack[t][1] /\ 1 \in 1..Len(stack[t]) /\ f.op = "writes"
  <2>1. stack[t] # <<>>  BY DEF WriteFails, Running
  <2> QED  BY <2>1, TopType, WriteFailsNew DEF TypeOK
<1>1. f.call.what.kind = "chat" /\ f.call.what.msg = m /\ IsInside(f) /\ CallOf(f) = f.call
  BY <1>0 DEF Carries, CallOf, IsInside
<1>2. PICK d \in f.left :
        /\ \A k \in 1..(New(t)-1) :
             \/ d \in sessions /\ stack'[t][k] = DestroyFrame(d)
             \/ stack'[t][k] = ErrorFrame(f)
        /\ f.call.notify => \E k \in 1..(New(t)-1) : stack'[t][k] = ErrorFrame(f)
        /\ missed' = [missed EXCEPT ![m] = @ \cup {d}]
  BY <1>1, WriteFailsNew
<1>3. d = c  BY <1>2 DEF TypeOK
<1>4. f.at = At(sent[m].from)  BY <1>0, <1>2, <1>3 DEF PlaceInv, InPlace
<1>5. f.call.notify
  <2>1. \E j \in 1..Len(stack[t]) :
           /\ Carries(stack[t][j], m) /\ IsInside(stack[t][j])
           /\ stack[t][j].at = At(sent[m].from) /\ CallOf(stack[t][j]).notify
    <3>1. \/ stack[t][1].op = "sync" /\ Origin(stack[t][1], m)
          \/ \E j \in 1..Len(stack[t]) :
               /\ Carries(stack[t][j], m) /\ IsInside(stack[t][j]) /\ Origin(stack[t][j], m)
      BY <1>0 DEF RelayInv, OriginInv
    <3> QED  BY <1>0, <3>1 DEF Origin
  <2>2. PICK j \in 1..Len(stack[t]) :
           /\ Carries(stack[t][j], m) /\ IsInside(stack[t][j])
           /\ stack[t][j].at = At(sent[m].from) /\ CallOf(stack[t][j]).notify
    BY <2>1
  <2>3. CASE j = 1  BY <1>0, <1>1, <2>2, <2>3
  <2>4. CASE 1 < j
    BY <1>0, <1>1, <1>4, <2>2, <2>4 DEF RelayInv, ServersInv
  <2> QED  BY <2>3, <2>4
<1>6. PICK k \in 1..(New(t)-1) : stack'[t][k] = ErrorFrame(f)  BY <1>2, <1>5
<1>7. CarriedFor(t, f, m)  BY <1>0 DEF RelayInv, CarrierInv
<1>8. f.call.what.from = JidOf(sent[m].from)  BY <1>1, <1>7 DEF CarriedFor
<1>9. f.call \in Call  BY WriteFailsNew
<1>10. Reporting(ErrorFrame(f), m, sent[m].from, JidOf(sent[m].from))
  <2> DEFINE e == ErrorFrame(f)
             jid == JidOf(sent[m].from)
  <2>1. f.call.what \in Stanza  BY <1>9 DEF Call
  <2>2. ErrorOf(f.call.what).kind = "error" /\ ErrorOf(f.call.what).msg = m
    BY <1>1, <2>1 DEF ErrorOf, Stanza
  <2>3. e.op = "send" /\ e.at = f.at /\ e.call.to = f.call.what.from
        /\ e.call.what = ErrorOf(f.call.what)
    BY DEF ErrorFrame, SendFrame
  <2> HIDE DEF e
  <2>4. Complains(e, m)  BY <2>2, <2>3 DEF Complains, Sends, CallOf
  <2>5. e.call.to = jid  BY <1>8, <2>3
  <2> HIDE DEF jid
  <2>6. Reporting(e, m, sent[m].from, jid)  BY <1>4, <2>3, <2>4, <2>5 DEF Reporting
  <2> QED  BY <2>6 DEF e, jid
<1>11. k \in 1..New(t)  BY WriteFailsNew
<1> QED  BY <1>6, <1>10, <1>11

LEMMA MissedStep ==
  ASSUME TypeOK, PlaceInv, ListedInv, RelayInv, MissedInv, [Next]_vars
  PROVE  MissedInv'
<1> DEFINE Jid1(c) == [user |-> who'[c], res |-> res'[c]]
           Told1(m) ==
             \/ sent'[m].from \in bounced'[m]
             \/ sent'[m].from \notin sessions'
             \/ Reports(stack'[Client[sent'[m].from].thread], m, sent'[m].from,
                        Jid1(sent'[m].from))
           Fine(m, c) == sent'[m] # None /\ (At(c) = At(sent'[m].from) => Told1(m))
<1>c. ASSUME \A m \in Msg : \A c \in missed'[m] : Fine(m, c) PROVE MissedInv'
  BY <1>c DEF MissedInv, SenderThread, Reports, Reporting, Complains, Sends, CallOf, JidOf, At
<1>s. ASSUME NEW m \in Msg, sent[m] # None
      PROVE  /\ sent'[m] = sent[m] /\ sent[m].from \in Conn
             /\ sent[m].from \notin sessions => sent[m].from \notin sessions'
             /\ SenderThread(m) \in Thread /\ SenderThread(m) = Client[sent'[m].from].thread
             /\ stack[SenderThread(m)] # <<>> => Jid1(sent'[m].from) = JidOf(sent[m].from)
  <2>1. sent'[m] = sent[m] /\ sent[m].from \in Conn /\ SenderThread(m) \in Thread
    BY <1>s, SentKept, SentTypes
  <2> DEFINE c == sent[m].from
  <2>2. sock[c] # "new"  BY <1>s DEF RelayInv, SentInv
  <2>3. SenderThread(m) = Client[c].thread  BY DEF SenderThread
  <2>4. c \notin sessions => c \notin sessions'
    <3> HIDE DEF c
    <3>1. c \in Conn  BY <2>1 DEF c
    <3> QED  BY <2>2, <3>1, OnceListed
  <2>5. stack[Client[c].thread] # <<>> => Jid1(c) = JidOf(c)
    <3> HIDE DEF c
    <3>1. c \in Conn  BY <2>1 DEF c
    <3>2. CASE stack[Client[c].thread] # <<>>
      <4>1. who'[c] = who[c] /\ res'[c] = res[c]  BY <3>1, <3>2, JidStable
      <4> QED  BY <4>1 DEF JidOf
    <3> QED  BY <3>2
  <2> QED  BY <2>1, <2>3, <2>4, <2>5
<1>a. ASSUME NEW m \in Msg, NEW c \in missed[m]
      PROVE  sent[m] # None /\
             (At(c) = At(sent[m].from) =>
               \/ sent[m].from \in bounced[m]
               \/ sent[m].from \notin sessions
               \/ /\ Reports(stack[SenderThread(m)], m, sent[m].from, Jid1(sent'[m].from))
                  /\ Reports(stack[SenderThread(m)], m, sent[m].from, JidOf(sent[m].from)))
  <2>1. sent[m] # None  BY DEF MissedInv
  <2>2. ASSUME Reports(stack[SenderThread(m)], m, sent[m].from, JidOf(sent[m].from))
        PROVE  stack[SenderThread(m)] # <<>>
    BY <2>2 DEF Reports
  <2> HIDE DEF Jid1
  <2> QED  BY <1>s, <2>1, <2>2 DEF MissedInv
<1> HIDE DEF Jid1
<1>1. ASSUME NEW t \in Thread, Step(t) PROVE MissedInv'
  <2>0. Moved(t, New(t))  BY <1>1, Moves
  <2>r. \A k \in 1..New(t) : k \in 1..Len(stack'[t])  BY <2>0 DEF Moved
  <2>1. ASSUME NEW m \in Msg, NEW c \in missed[m] PROVE Fine(m, c)
    <3> DEFINE T == SenderThread(m)
               from == sent[m].from
    <3>0. sent[m] # None  BY <1>a, <2>1
    <3>s. /\ sent'[m] = sent[m] /\ from \in Conn /\ T \in Thread
          /\ T = Client[sent'[m].from].thread
          /\ from \notin sessions => from \notin sessions'
      BY <1>s, <3>0
    <3>g. SUFFICES ASSUME At(c) = At(from) PROVE Told1(m)
      BY <3>0, <3>s
    <3>1. CASE from \in bounced[m]
      <4>1. bounced[m] \subseteq bounced'[m]  BY <1>1, StepHistory
      <4> QED  BY <3>s, <3>1, <4>1
    <3>2. CASE from \notin sessions  BY <3>s, <3>2
    <3>3. CASE /\ Reports(stack[T], m, from, Jid1(sent'[m].from))
               /\ Reports(stack[T], m, from, JidOf(from))
      <4> DEFINE jid == Jid1(sent'[m].from)
      <4>j. jid = JidOf(from)
        <5>1. stack[T] # <<>>  BY <3>3 DEF Reports
        <5> QED  BY <1>s, <3>0, <5>1
      <4>1. PICK i \in 1..Len(stack[T]) : Reporting(stack[T][i], m, from, jid)
        BY <3>3 DEF Reports
      <4>2. CASE T # t
        <5>1. stack'[T] = stack[T]  BY <2>0, <3>s, <4>2 DEF Moved
        <5> QED  BY <3>s, <3>3, <5>1
      <4>3. CASE T = t /\ i # 1
        <5>1. i \in 2..Len(stack[t])  BY <2>0, <4>3 DEF Moved
        <5>2. i + New(t) - 1 \in 1..Len(stack'[t]) /\ stack'[t][i + New(t) - 1] = stack[t][i]
          BY <2>0, <5>1 DEF Moved
        <5>3. Reports(stack'[t], m, from, jid)  BY <4>1, <4>3, <5>2 DEF Reports
        <5> QED  BY <3>s, <4>3, <5>3
      <4>4. CASE T = t /\ i = 1
        <5>1. Reporting(Top(t), m, from, JidOf(from))
          BY <2>0, <4>j, <4>1, <4>4 DEF Moved
        <5>2. \/ from \in bounced'[m] \/ from \notin sessions'
              \/ \E k \in 1..New(t) : Reporting(stack'[t][k], m, from, JidOf(from))
          BY <1>1, <3>s, <5>1, ReportingStep
        <5>3. \/ from \in bounced'[m] \/ from \notin sessions'
              \/ Reports(stack'[t], m, from, jid)
          BY <2>r, <4>j, <5>2 DEF Reports
        <5> QED  BY <3>s, <4>4, <5>3
      <4> QED  BY <4>2, <4>3, <4>4
    <3> QED  BY <1>a, <2>1, <3>g, <3>1, <3>2, <3>3
  <2>2. ASSUME NEW m \in Msg, NEW c \in missed'[m], c \notin missed[m] PROVE Fine(m, c)
    <3>1. WriteFails(t) /\ Carries(Top(t), m)  BY <1>1, <2>2, StepHistory
    <3>2. Top(t) = stack[t][1] /\ 1 \in 1..Len(stack[t]) /\ Top(t).op = "writes"
      BY <2>0, <3>1, WriteFailsNew DEF Moved
    <3>3. CarriedFor(t, Top(t), m) /\ sent[m] # None
      BY <3>1, <3>2 DEF RelayInv, CarrierInv, CarriedFor
    <3>4. missed'[m] \ missed[m] = {c} /\ c \in Conn
      <4>1. Top(t).call.what.kind = "chat" /\ Top(t).call.what.msg = m
        BY <3>1, <3>2 DEF Carries, CallOf
      <4>2. PICK d \in Top(t).left : missed' = [missed EXCEPT ![m] = @ \cup {d}]
        BY <3>1, <4>1, WriteFailsNew
      <4>3. d \in Conn  BY <3>1, WriteFailsNew
      <4> QED  BY <2>2, <4>2, <4>3 DEF TypeOK
    <3>5. CASE At(c) = At(sent[m].from)
      <4> DEFINE jid == JidOf(sent[m].from)
      <4>1. PICK k \in 1..New(t) : Reporting(stack'[t][k], m, sent[m].from, jid)
        BY <3>1, <3>4, <3>5, MissedAtHome
      <4>2. Reports(stack'[t], m, sent[m].from, jid)  BY <2>r, <4>1 DEF Reports
      <4>3. t = SenderThread(m)  BY <3>3 DEF CarriedFor
      <4>4. stack[t] # <<>>  BY <2>0 DEF Moved
      <4>5. Jid1(sent'[m].from) = jid  BY <1>s, <3>3, <4>3, <4>4
      <4> QED  BY <1>s, <3>3, <4>2, <4>3, <4>5
    <3>6. CASE At(c) # At(sent[m].from)  BY <1>s, <3>3, <3>6
    <3> QED  BY <3>5, <3>6
  <2> HIDE DEF Fine
  <2> QED  BY <1>c, <2>1, <2>2
<1>2. ASSUME UNCHANGED <<stack, missed, bounced>> PROVE MissedInv'
  <2>1. ASSUME NEW m \in Msg, NEW c \in missed[m] PROVE Fine(m, c)
    <3>1. sent[m] # None  BY <1>a, <2>1
    <3> QED  BY <1>a, <1>s, <1>2, <2>1, <3>1
  <2> HIDE DEF Fine
  <2> QED  BY <1>c, <1>2, <2>1
<1>3. ASSUME NEW d \in Conn, Stanzas(d), ~ UNCHANGED <<stack, history>> PROVE MissedInv'
  <2>0. /\ stack[Client[d].thread] = <<>>
        /\ \A u \in Thread : u # Client[d].thread => stack'[u] = stack[u]
        /\ UNCHANGED <<missed, bounced>>
    BY <1>3, StanzaNew
  <2>1. ASSUME NEW m \in Msg, NEW c \in missed[m] PROVE Fine(m, c)
    <3> DEFINE T == SenderThread(m)
    <3>0. sent[m] # None  BY <1>a, <2>1
    <3>1. CASE T = Client[d].thread
      <4>1. ~ Reports(stack[T], m, sent[m].from, JidOf(sent[m].from))
        BY <2>0, <3>1 DEF Reports
      <4> QED  BY <1>a, <1>s, <2>0, <2>1, <3>0, <4>1
    <3>2. CASE T # Client[d].thread
      <4>1. stack'[T] = stack[T]  BY <1>s, <2>0, <3>0, <3>2
      <4> QED  BY <1>a, <1>s, <2>0, <2>1, <3>0, <4>1
    <3> QED  BY <3>1, <3>2
  <2> HIDE DEF Fine
  <2> QED  BY <1>c, <2>0, <2>1
<1> QED  BY <1>1, <1>2, <1>3, OtherStep DEF history

\* When the write of a message fails on the sender's own server, the sender
\* has been written an error by the time its handler returns, unless its own
\* session has left the table: only the send it started is on that server,
\* and errorNotification is on for that one.
THEOREM FailureIsReported == Spec => []FailureReported
<1>1. Init => FollowInv /\ MissedInv
  <2>1. Init => MissedInv  BY DEF Init, MissedInv
  <2> QED  BY <2>1, FollowInit
<1>2. FollowInv /\ MissedInv /\ [Next]_vars => (FollowInv /\ MissedInv)'
  BY FollowStep, MissedStep DEF FollowInv, IInv, CascadeInv
<1>3. FollowInv /\ MissedInv => FailureReported
  <2> SUFFICES ASSUME FollowInv, MissedInv, NEW m \in Msg, Sent(m), NEW c \in missed[m],
                      At(c) = At(sent[m].from)
               PROVE  sent[m].from \in bounced[m] \/ sent[m].from \notin sessions
    BY DEF FailureReported
  <2>1. stack[SenderThread(m)] = <<>>  BY DEF Sent, SenderThread
  <2>2. ~ Reports(stack[SenderThread(m)], m, sent[m].from, JidOf(sent[m].from))
    BY <2>1 DEF Reports
  <2> QED  BY <2>2 DEF MissedInv
<1> QED  BY <1>1, <1>2, <1>3, PTL DEF Spec

-----------------------------------------------------------------------------
(* A message for a full jid.  A table has one server for it at most, so    *)
(* that the servers it is relayed through form a chain; the monitors keep  *)
(* the chain from coming back to a server it is still in, and it never     *)
(* comes back to one it has left.                                          *)

TableInv == \A s \in Server : IsTable(remote[s])

Full(m) == sent[m] # None /\ Sole(sent[m].to)
\* A call that has no server left to deliver to.
Over(f) == f.op = "delivers" /\ f.left = {}

ChainInv ==
  \A m \in Msg : Full(m) => \A u \in Thread : \A i \in 1..Len(stack[u]) :
    Carries(stack[u][i], m) =>
      /\ stack[u][i].op = "delivers" => \A r, q \in stack[u][i].left : r = q
      /\ \A j \in 1..Len(stack[u]) : i < j /\ Carries(stack[u][j], m) => Over(stack[u][j])

\* Seen from place i of the stack s, the channel c has had its turn with m.
Passed(s, i, m, c) ==
  \/ /\ s[i].at = At(c)
     /\ (s[i].op = "writes" /\ c \notin s[i].left) \/ s[i].op = "delivers"
  \/ \E j \in (i+1)..Len(s) : Carries(s[j], m) /\ IsInside(s[j]) /\ s[j].at = At(c)

VisitedInv ==
  \A m \in Msg :
    /\ sent[m] = None => \A c \in Conn : written[c][m] = 0
    /\ Full(m) => \A c \in Conn : written[c][m] <= 1
    /\ Full(m) => \A u \in Thread : \A i \in 1..Len(stack[u]) :
         Carries(stack[u][i], m) /\ ~ Over(stack[u][i]) =>
           \A c \in Conn : written[c][m] = 0 \/ Passed(stack[u], i, m, c)

LEMMA TableStays ==
  ASSUME TableInv, [Next]_vars
  PROVE  TableInv'
<1>1. ASSUME NEW s \in Server, UpdateSessions(s) PROVE TableInv'
  <2>1. PICK R : IsTable(R) /\ remote' = [remote EXCEPT ![s] = R]
    BY <1>1 DEF UpdateSessions
  <2> HIDE DEF IsTable
  <2>2. \A r \in Server : remote'[r] = remote[r] \/ remote'[r] = R  BY <2>1
  <2>3. \A r \in Server : IsTable(remote'[r])  BY <2>1, <2>2 DEF TableInv
  <2> QED  BY <2>3 DEF TableInv, IsTable
<1>2. CASE remote' = remote  BY <1>2 DEF TableInv, IsTable
<1>3. remote' = remote \/ \E s \in Server : UpdateSessions(s)
  BY DEF Next, Step, EnterMonitor, LeaveMonitor, GetOutChannels, Write, WriteFails,
     GetForeignChannels, Deliver, DeliverFails, SendReturns, DestroySession, TellFriend, AllTold,
     CloseChannel, Probe, Broadcast, LoopEnds, Stanzas, Accept, Login, Bind, Presence, Unavailable,
     StreamEnd, EndOfFile, Message, PeerVanishes, vars
<1> QED  BY <1>1, <1>2, <1>3

\* The routes of a table to a full jid.
LEMMA OneRoute ==
  ASSUME TypeOK, TableInv, NEW s \in Server, NEW to \in Jid, Sole(to),
         NEW r \in remote[s], StartsWith(r.jid, to), NEW q \in remote[s], StartsWith(q.jid, to)
  PROVE  r = q
<1>1. r \in Route /\ q \in Route  BY DEF TypeOK
<1>2. r.jid = to /\ q.jid = to  BY <1>1 DEF Route, Jid, StartsWith, Sole
<1> QED  BY <1>2 DEF TableInv, IsTable

LEMMA ChainStep ==
  ASSUME TypeOK, PlaceInv, PresenceInv, CarrierInv, TableInv, ChainInv, [Next]_vars
  PROVE  ChainInv'
<1> DEFINE Narrow(f) == f.op = "delivers" => \A r, q \in f.left : r = q
           Next1(m) == sent'[m] # None /\ Sole(sent'[m].to)
           Fine(s, i, m) ==
             /\ Narrow(s[i])
             /\ \A j \in 1..Len(s) : i < j /\ Carries(s[j], m) => Over(s[j])
<1>c. ASSUME \A m \in Msg : Next1(m) => \A u \in Thread : \A i \in 1..Len(stack'[u]) :
               Carries(stack'[u][i], m) => Fine(stack'[u], i, m)
      PROVE  ChainInv'
  BY <1>c DEF ChainInv, Full, Over, Carries, Sends, CallOf
<1>a. ASSUME NEW m \in Msg, Next1(m), NEW u \in Thread, NEW i \in 1..Len(stack[u]),
             Carries(stack[u][i], m)
      PROVE  Fine(stack[u], i, m) /\ sent[m] # None /\ Sole(sent[m].to)
  <2>1. sent[m] # None /\ sent'[m] = sent[m]  BY <1>a, CarriedKept
  <2> QED  BY <1>a, <2>1 DEF ChainInv, Full
<1> HIDE DEF Next1
<1>1. ASSUME NEW t \in Thread, Step(t) PROVE ChainInv'
  <2> DEFINE n == New(t)
  <2>0. Moved(t, n)  BY <1>1, Moves
  <2> HIDE DEF n
  <2>t. n \in Nat /\ Len(stack[t]) \in Nat /\ Len(stack'[t]) \in Nat  BY <2>0 DEF Moved
  <2>1. ASSUME NEW m \in Msg, Next1(m), NEW u \in Thread, NEW i \in 1..Len(stack'[u]),
               Carries(stack'[u][i], m)
        PROVE  Fine(stack'[u], i, m)
    <3>1. CASE u # t
      <4>1. stack'[u] = stack[u]  BY <2>0, <3>1 DEF Moved
      <4> QED  BY <1>a, <2>1, <4>1
    <3>2. CASE u = t /\ i > n
      <4> DEFINE l == i - n + 1
      <4>1. l \in 1..Len(stack[t]) /\ stack'[t][i] = stack[t][l]  BY <2>0, <3>2 DEF Moved
      <4>2. Fine(stack[t], l, m)
        <5> HIDE DEF l
        <5> QED  BY <1>a, <2>1, <3>2, <4>1
      <4>3. ASSUME NEW j \in 1..Len(stack'[t]), i < j, Carries(stack'[t][j], m)
            PROVE  Over(stack'[t][j])
        <5>1. j > n  BY <2>t, <3>2, <4>3
        <5>2. j - n + 1 \in 2..Len(stack[t]) /\ stack'[t][j] = stack[t][j - n + 1]
          BY <2>0, <5>1 DEF Moved
        <5>3. l < j - n + 1 /\ j - n + 1 \in 1..Len(stack[t])  BY <2>t, <3>2, <4>3, <5>2
        <5> HIDE DEF l
        <5> QED  BY <4>2, <4>3, <5>2, <5>3
      <4> HIDE DEF l
      <4> QED  BY <3>2, <4>1, <4>2, <4>3
    <3>3. CASE u = t /\ ~ (i > n)
      <4> DEFINE f == Top(t)
                 g == stack'[t][i]
      <4>1. i \in 1..n  BY <2>t, <3>3
      <4>2. f = stack[t][1] /\ 1 \in 1..Len(stack[t])  BY <2>0 DEF Moved
      <4>3. \/ IsInside(g) /\ GoesOn(t, f, g, i, m)
            \/ g.op = "sync" /\ CallsOut(t, f, g, i, m)
        BY <1>1, <2>1, <3>3, <4>1, RelayNew DEF n
      <4>4. Carries(f, m)  BY <4>3 DEF GoesOn, CallsOut
      <4>5. Fine(stack[t], 1, m) /\ sent[m] # None /\ Sole(sent[m].to)
        BY <1>a, <2>1, <4>2, <4>4
      <4>6. CallOf(f).to = sent[m].to /\ sent[m].to \in Jid
        BY <4>2, <4>4, <4>5, SentTypes DEF CarrierInv, CarriedFor
      <4>f. f.op = "delivers" => \A r, q \in f.left : r = q  BY <4>2, <4>5
      <4>7. ASSUME NEW j \in 1..Len(stack'[t]), j > n, Carries(stack'[t][j], m)
            PROVE  Over(stack'[t][j])
        <5>1. j - n + 1 \in 2..Len(stack[t]) /\ stack'[t][j] = stack[t][j - n + 1]
          BY <2>0, <4>7 DEF Moved
        <5>2. 1 < j - n + 1 /\ j - n + 1 \in 1..Len(stack[t])  BY <2>t, <5>1
        <5> QED  BY <4>5, <4>7, <5>1, <5>2
      <4> HIDE DEF f, g
      <4>8. CASE IsInside(g) /\ GoesOn(t, f, g, i, m)
        <5>1. Narrow(g)
          <6>1. ASSUME f.op = "writes", g.left = {r \in remote[f.at] : StartsWith(r.jid, f.call.to)}
                PROVE  \A r, q \in g.left : r = q
            <7>1. f.call.to = sent[m].to  BY <4>6, <6>1 DEF CallOf
            <7>2. f.at \in Server  BY <2>0, FrameFields DEF Moved, f
            <7>3. ASSUME NEW r \in g.left, NEW q \in g.left PROVE r = q
              BY <4>5, <4>6, <6>1, <7>1, <7>2, <7>3, OneRoute
            <7> QED  BY <7>3
          <6>2. ASSUME f.op = "delivers", \E r \in f.left : g.left = f.left \ {r}
                PROVE  \A r, q \in g.left : r = q
            BY <4>f, <6>2
          <6> QED  BY <4>8, <6>1, <6>2 DEF GoesOn
        <5>2. ASSUME NEW j \in 1..Len(stack'[t]), i < j, Carries(stack'[t][j], m)
              PROVE  Over(stack'[t][j])
          <6>1. CASE j > n  BY <4>7, <5>2, <6>1
          <6>2. CASE ~ (j > n)
            <7>1. j \in 1..New(t) /\ j # i /\ ~ (j < i)  BY <2>t, <4>1, <5>2, <6>2 DEF n
            <7> QED  BY <4>8, <5>2, <7>1 DEF GoesOn
          <6> QED  BY <6>1, <6>2
        <5> HIDE DEF Narrow
        <5> QED  BY <3>3, <5>1, <5>2 DEF g
      <4>9. CASE g.op = "sync" /\ CallsOut(t, f, g, i, m)
        <5>1. ASSUME NEW j \in 1..Len(stack'[t]), i < j, Carries(stack'[t][j], m)
              PROVE  Over(stack'[t][j])
          <6>1. CASE j > n  BY <4>7, <5>1, <6>1
          <6>2. CASE ~ (j > n)
            <7>1. i = 1 /\ n = 2  BY <4>9 DEF CallsOut, n
            <7>2. j = 2  BY <5>1, <6>2, <7>1
            <7>3. f.op = "delivers" /\ stack'[t][2].op = "delivers"
                  /\ \E r \in f.left : stack'[t][2].left = f.left \ {r}
              BY <4>9 DEF CallsOut
            <7>4. stack'[t][2].left = {}  BY <4>f, <7>3
            <7> QED  BY <7>2, <7>3, <7>4 DEF Over
          <6> QED  BY <6>1, <6>2
        <5> QED  BY <3>3, <4>9, <5>1 DEF g
      <4> QED  BY <4>3, <4>8, <4>9
    <3> QED  BY <3>1, <3>2, <3>3
  <2> HIDE DEF Fine
  <2> QED  BY <1>c, <2>1
<1>2. ASSUME NEW c \in Conn, Stanzas(c), ~ UNCHANGED stack PROVE ChainInv'
  <2>1. ASSUME NEW m \in Msg, Next1(m), NEW u \in Thread, NEW i \in 1..Len(stack'[u]),
               Carries(stack'[u][i], m)
        PROVE  Fine(stack'[u], i, m)
    <3>1. CASE u # Client[c].thread
      <4>1. stack'[u] = stack[u]  BY <1>2, <3>1, StartNew
      <4> QED  BY <1>a, <2>1, <4>1
    <3>2. CASE u = Client[c].thread
      <4>1. i = 1 /\ Len(stack'[u]) = 1 /\ stack'[u][i].op = "sync"
        BY <1>2, <2>1, <3>2, CarrierStart
      <4> QED  BY <4>1
    <3> QED  BY <3>1, <3>2
  <2> HIDE DEF Fine
  <2> QED  BY <1>c, <2>1
<1>3. CASE UNCHANGED stack
  <2> HIDE DEF Fine
  <2> QED  BY <1>c, <1>a, <1>3
<1> QED  BY <1>1, <1>2, <1>3, OtherStep

\* A message is counted as written by the write of one channel.
LEMMA WrittenStep ==
  ASSUME TypeOK, NEW t \in Thread, Step(t), NEW m \in Msg, NEW c \in Conn
  PROVE  \/ written'[c][m] = written[c][m]
         \/ /\ Top(t).op = "writes" /\ Carries(Top(t), m) /\ c \in Top(t).left
            /\ written'[c][m] = written[c][m] + 1
            /\ New(t) = 1 /\ stack'[t][1].at = Top(t).at
            /\ stack'[t][1].op = "writes" /\ c \notin stack'[t][1].left
<1>1. CASE Write(t)
  <2> DEFINE f == Top(t)
  <2>1. PICK d \in f.left :
          /\ stack'[t][1] = WritesFrame(f.at, f.call, f.left \ {d})
          /\ written' = IF f.call.what.kind = "chat"
                        THEN [written EXCEPT ![d][f.call.what.msg] = @ + 1] ELSE written
    BY <1>1, WriteNew
  <2>2. CASE f.call.what.kind = "chat" /\ f.call.what.msg = m /\ c = d
    <3>1. written'[c][m] = written[c][m] + 1  BY <2>1, <2>2 DEF TypeOK
    <3>2. Top(t).op = "writes" /\ New(t) = 1  BY <1>1, WriteNew
    <3>3. Carries(Top(t), m)  BY <2>2, <3>2 DEF Carries, Sends, CallOf
    <3>4. stack'[t][1].at = Top(t).at /\ stack'[t][1].op = "writes" /\ c \notin stack'[t][1].left
      BY <2>1, <2>2 DEF WritesFrame
    <3> QED  BY <2>2, <3>1, <3>2, <3>3, <3>4
  <2>3. CASE ~ (f.call.what.kind = "chat" /\ f.call.what.msg = m /\ c = d)
    BY <2>1, <2>3 DEF TypeOK
  <2> QED  BY <2>2, <2>3
<1>2. CASE ~ Write(t)
  BY <1>2 DEF Step, EnterMonitor, LeaveMonitor, GetOutChannels, WriteFails, GetForeignChannels,
     Deliver, DeliverFails, SendReturns, DestroySession, TellFriend, AllTold, CloseChannel, Probe,
     Broadcast, LoopEnds, history
<1> QED  BY <1>1, <1>2

\* The top of a stack that is about to write a message to a channel: it has
\* not been written before.
LEMMA FirstWrite ==
  ASSUME TypeOK, PlaceInv, ServersInv, VisitedInv, NEW t \in Thread, stack[t] # <<>>,
         NEW m \in Msg, Full(m), Top(t).op = "writes", Carries(Top(t), m),
         NEW c \in Conn, c \in Top(t).left
  PROVE  written[c][m] = 0
<1> DEFINE f == stack[t][1]
<1>1. f = Top(t) /\ 1 \in 1..Len(stack[t]) /\ Len(stack[t]) \in Nat  BY TopType DEF TypeOK
<1>2. f.at = At(c)  BY <1>1 DEF PlaceInv, InPlace
<1>3. written[c][m] = 0 \/ Passed(stack[t], 1, m, c)
  <2>1. ~ Over(f)  BY <1>1 DEF Over
  <2> QED  BY <1>1, <2>1 DEF VisitedInv
<1>4. ASSUME NEW j \in 2..Len(stack[t]), Carries(stack[t][j], m), IsInside(stack[t][j]),
             stack[t][j].at = At(c)
      PROVE  FALSE
  <2>1. j \in 1..Len(stack[t]) /\ 1 < j  BY <1>1, <1>4
  <2>2. IsInside(f)  BY <1>1 DEF IsInside
  <2> QED  BY <1>1, <1>2, <1>4, <2>1, <2>2 DEF ServersInv
<1> QED  BY <1>1, <1>3, <1>4 DEF Passed

LEMMA VisitedStep ==
  ASSUME TypeOK, PlaceInv, PresenceInv, CarrierInv, ServersInv, ChainInv, VisitedInv, [Next]_vars
  PROVE  VisitedInv'
<1> DEFINE Next1(m) == sent'[m] # None /\ Sole(sent'[m].to)
           Seen(s, i, m, c) == written'[c][m] = 0 \/ Passed(s, i, m, c)
<1>c. ASSUME \A m \in Msg :
               /\ sent'[m] = None => \A c \in Conn : written'[c][m] = 0
               /\ Next1(m) => \A c \in Conn : written'[c][m] <= 1
               /\ Next1(m) => \A u \in Thread : \A i \in 1..Len(stack'[u]) :
                    Carries(stack'[u][i], m) /\ ~ Over(stack'[u][i]) =>
                      \A c \in Conn : Seen(stack'[u], i, m, c)
      PROVE  VisitedInv'
  BY <1>c DEF VisitedInv, Full, Passed, Over, Carries, Sends, CallOf, IsInside, At
<1>s. ASSUME NEW m \in Msg, sent[m] # None
      PROVE  sent'[m] = sent[m] /\ (Next1(m) => Full(m))
  BY <1>s, SentKept DEF Full
<1>n. ASSUME NEW m \in Msg, sent[m] = None, NEW c \in Conn PROVE written[c][m] = 0
  BY <1>n DEF VisitedInv
<1>a. ASSUME NEW m \in Msg, Next1(m), NEW u \in Thread, NEW i \in 1..Len(stack[u]),
             Carries(stack[u][i], m), ~ Over(stack[u][i]), NEW c \in Conn
      PROVE  Full(m) /\ (written[c][m] = 0 \/ Passed(stack[u], i, m, c))
  <2>1. Full(m)  BY <1>a, <1>s, CarriedKept
  <2> QED  BY <1>a, <2>1 DEF VisitedInv
<1>f. ASSUME NEW m \in Msg, Full(m), NEW c \in Conn PROVE written[c][m] <= 1
  BY <1>f DEF VisitedInv
<1> HIDE DEF Next1
<1>1. ASSUME NEW t \in Thread, Step(t) PROVE VisitedInv'
  <2> DEFINE n == New(t)
             f == Top(t)
  <2>0. Moved(t, n)  BY <1>1, Moves
  <2>t. /\ n \in Nat /\ Len(stack[t]) \in Nat /\ Len(stack'[t]) \in Nat
        /\ f = stack[t][1] /\ 1 \in 1..Len(stack[t]) /\ stack[t] # <<>>
    BY <2>0 DEF Moved
  <2>x. sent' = sent  BY <1>1, StepSessions
  <2>k. ASSUME NEW m \in Msg, Carries(f, m)
        PROVE  sent[m] # None /\ t = SenderThread(m)
    BY <2>k, <2>t, CarriedKept DEF CarriedFor
  <2>w. ASSUME NEW m \in Msg, NEW c \in Conn
        PROVE  \/ written'[c][m] = written[c][m]
               \/ /\ f.op = "writes" /\ Carries(f, m) /\ c \in f.left
                  /\ written'[c][m] = written[c][m] + 1
                  /\ n = 1 /\ stack'[t][1].at = f.at
                  /\ stack'[t][1].op = "writes" /\ c \notin stack'[t][1].left
    BY <1>1, WrittenStep
  <2>r. ASSUME NEW i \in 1..n, NEW m \in Msg, Carries(stack'[t][i], m)
        PROVE  \/ IsInside(stack'[t][i]) /\ GoesOn(t, f, stack'[t][i], i, m)
               \/ stack'[t][i].op = "sync" /\ CallsOut(t, f, stack'[t][i], i, m)
    BY <1>1, <2>r, RelayNew
  <2>z. ASSUME NEW m \in Msg, Full(m), f.op = "writes", Carries(f, m), NEW c \in Conn, c \in f.left
        PROVE  written[c][m] = 0
    BY <2>t, <2>z, FirstWrite
  <2> HIDE DEF n, f
  <2>1. ASSUME NEW m \in Msg, sent'[m] = None, NEW c \in Conn PROVE written'[c][m] = 0
    BY <1>n, <2>1, <2>k, <2>w, <2>x
  <2>2. ASSUME NEW m \in Msg, Next1(m), NEW c \in Conn PROVE written'[c][m] <= 1
    <3>1. Full(m)  BY <2>2, <2>x DEF Next1, Full
    <3> QED  BY <1>f, <2>w, <2>z, <3>1
  <2>3. ASSUME NEW m \in Msg, Next1(m), NEW u \in Thread, NEW i \in 1..Len(stack'[u]),
               Carries(stack'[u][i], m), ~ Over(stack'[u][i]), NEW c \in Conn
        PROVE  Seen(stack'[u], i, m, c)
    <3>1. CASE u # t
      <4>1. stack'[u] = stack[u]  BY <2>0, <3>1 DEF Moved
      <4>2. u = SenderThread(m)  BY <2>3, <4>1, CarriedKept DEF CarriedFor
      <4>3. written'[c][m] = written[c][m]  BY <2>k, <2>w, <3>1, <4>2
      <4> QED  BY <1>a, <2>3, <4>1, <4>3
    <3>2. CASE u = t /\ i > n
      <4> DEFINE l == i - n + 1
      <4>0. l \in 2..Len(stack[t]) /\ stack'[t][i] = stack[t][l]  BY <2>0, <3>2 DEF Moved
      <4>1. l \in 2..Len(stack[t]) /\ l \in 1..Len(stack[t]) /\ stack'[t][i] = stack[t][l]
        BY <2>t, <4>0
      <4>2. l + n - 1 = i  BY <2>t, <3>2
      <4> HIDE DEF l
      <4>3. Full(m) /\ (written[c][m] = 0 \/ Passed(stack[t], l, m, c))
        BY <1>a, <2>3, <3>2, <4>1
      <4>4. written'[c][m] = written[c][m]
        <5>1. ASSUME Carries(f, m) PROVE FALSE
          <6>1. 1 < l  BY <4>1
          <6>2. Carries(stack[t][1], m) /\ Carries(stack[t][l], m)
            BY <2>3, <2>t, <3>2, <4>1, <5>1
          <6>3. Over(stack[t][l])  BY <2>t, <4>1, <4>3, <6>1, <6>2 DEF ChainInv
          <6> QED  BY <2>3, <3>2, <4>1, <6>3
        <5> QED  BY <2>w, <5>1
      <4>5. ASSUME Passed(stack[t], l, m, c) PROVE Passed(stack'[t], i, m, c)
        <5>1. ASSUME NEW j \in (l+1)..Len(stack[t])
              PROVE  j + n - 1 \in (i+1)..Len(stack'[t]) /\ stack'[t][j + n - 1] = stack[t][j]
          <6>1. j \in 2..Len(stack[t]) /\ j + n - 1 >= i + 1  BY <2>t, <4>1, <4>2, <5>1
          <6>2. j + n - 1 \in (n+1)..Len(stack'[t]) /\ stack'[t][j + n - 1] = stack[t][j]
            BY <2>0, <6>1 DEF Moved
          <6> QED  BY <2>t, <3>2, <6>1, <6>2
        <5> QED  BY <4>1, <4>5, <5>1 DEF Passed
      <4> QED  BY <3>2, <4>3, <4>4, <4>5
    <3>3. CASE u = t /\ ~ (i > n)
      <4> DEFINE g == stack'[t][i]
      <4>1. i \in 1..n  BY <2>t, <3>3
      <4>2. \/ IsInside(g) /\ GoesOn(t, f, g, i, m)
            \/ g.op = "sync" /\ CallsOut(t, f, g, i, m)
        BY <2>3, <2>r, <3>3, <4>1
      <4>g. Carries(g, m) /\ ~ Over(g)  BY <2>3, <3>3
      <4> HIDE DEF g
      <4>3. Carries(f, m)  BY <4>2 DEF GoesOn, CallsOut
      <4>4. ~ Over(f)
        <5>1. CASE IsInside(g) /\ GoesOn(t, f, g, i, m)
          <6>1. g.op = "delivers" \/ g.op \in {"send", "writes"}
            BY <4>g, <5>1 DEF Carries, Sends, IsInside
          <6> QED  BY <5>1, <6>1 DEF GoesOn, Over
        <5>2. CASE CallsOut(t, f, g, i, m)  BY <5>2 DEF CallsOut, Over
        <5> QED  BY <4>2, <5>1, <5>2
      <4>5. Full(m) /\ (written[c][m] = 0 \/ Passed(stack[t], 1, m, c))
        BY <1>a, <2>3, <2>t, <4>3, <4>4
      <4>6. ASSUME NEW j \in 2..Len(stack[t]), Carries(stack[t][j], m), IsInside(stack[t][j]),
                   stack[t][j].at = At(c)
            PROVE  Passed(stack'[t], i, m, c)
        <5>1. j + n - 1 \in (n+1)..Len(stack'[t]) /\ stack'[t][j + n - 1] = stack[t][j]
          BY <2>0 DEF Moved
        <5>2. j + n - 1 \in (i+1)..Len(stack'[t])  BY <2>t, <4>1, <5>1
        <5> QED  BY <4>6, <5>1, <5>2 DEF Passed
      <4>7. ASSUME f.at = At(c), (f.op = "writes" /\ c \notin f.left) \/ f.op = "delivers"
            PROVE  Passed(stack'[t], i, m, c)
        <5>1. CASE IsInside(g) /\ GoesOn(t, f, g, i, m)
          <6>1. g.op \in {"send", "writes", "delivers"}
            BY <4>g, <5>1 DEF Carries, Sends, IsInside
          <6>2. g.at = At(c) /\ ((g.op = "writes" /\ c \notin g.left) \/ g.op = "delivers")
            BY <4>7, <5>1, <6>1 DEF GoesOn
          <6> QED  BY <6>2 DEF Passed, g
        <5>2. CASE g.op = "sync" /\ CallsOut(t, f, g, i, m)
          <6>1. i = 1 /\ n = 2  BY <5>2 DEF CallsOut, n
          <6>2. 2 \in (i+1)..Len(stack'[t])  BY <2>0, <6>1 DEF Moved
          <6>3. Carries(stack'[t][2], m) /\ IsInside(stack'[t][2]) /\ stack'[t][2].at = At(c)
            BY <4>7, <5>2 DEF CallsOut, IsInside
          <6> QED  BY <6>2, <6>3 DEF Passed
        <5> QED  BY <4>2, <5>1, <5>2
      <4>8. CASE Passed(stack[t], 1, m, c)
        <5>1. \/ f.at = At(c) /\ ((f.op = "writes" /\ c \notin f.left) \/ f.op = "delivers")
              \/ \E j \in 2..Len(stack[t]) :
                   Carries(stack[t][j], m) /\ IsInside(stack[t][j]) /\ stack[t][j].at = At(c)
          BY <2>t, <4>8 DEF Passed
        <5> QED  BY <3>3, <4>6, <4>7, <5>1
      <4>9. CASE written[c][m] = 0
        <5>1. CASE written'[c][m] = written[c][m]  BY <4>9, <5>1
        <5>2. CASE /\ f.op = "writes" /\ c \in f.left
                   /\ n = 1 /\ stack'[t][1].at = f.at
                   /\ stack'[t][1].op = "writes" /\ c \notin stack'[t][1].left
          <6>1. i = 1  BY <4>1, <5>2
          <6>2. f.at = At(c)  BY <2>t, <5>2 DEF PlaceInv, InPlace
          <6> QED  BY <3>3, <5>2, <6>1, <6>2 DEF Passed
        <5> QED  BY <2>w, <5>1, <5>2
      <4> QED  BY <4>5, <4>8, <4>9, <3>3
    <3> QED  BY <3>1, <3>2, <3>3
  <2> HIDE DEF Seen
  <2> QED  BY <1>c, <2>1, <2>2, <2>3
<1>2. ASSUME NEW d \in Conn, Stanzas(d), ~ UNCHANGED stack PROVE VisitedInv'
  <2>0. written' = written  BY <1>2, StanzaNew
  <2>1. ASSUME NEW m \in Msg, sent'[m] = None, NEW c \in Conn PROVE written'[c][m] = 0
    BY <1>n, <1>s, <2>0, <2>1
  <2>2. ASSUME NEW m \in Msg, Next1(m), NEW c \in Conn PROVE written'[c][m] <= 1
    <3>1. CASE sent[m] = None  BY <1>n, <2>0, <3>1
    <3>2. CASE sent[m] # None  BY <1>f, <1>s, <2>0, <2>2, <3>2
    <3> QED  BY <3>1, <3>2
  <2>3. ASSUME NEW m \in Msg, Next1(m), NEW u \in Thread, NEW i \in 1..Len(stack'[u]),
               Carries(stack'[u][i], m), ~ Over(stack'[u][i]), NEW c \in Conn
        PROVE  Seen(stack'[u], i, m, c)
    <3>1. CASE u # Client[d].thread
      <4>1. stack'[u] = stack[u]  BY <1>2, <3>1, StartNew
      <4> QED  BY <1>a, <2>0, <2>3, <4>1
    <3>2. CASE u = Client[d].thread
      <4>1. sent[m] = None  BY <1>2, <2>3, <3>2, CarrierStart
      <4> QED  BY <1>n, <2>0, <4>1
    <3> QED  BY <3>1, <3>2
  <2> HIDE DEF Seen
  <2> QED  BY <1>c, <2>1, <2>2, <2>3
<1>3. CASE UNCHANGED <<stack, written, sent>>
  <2>1. ASSUME NEW m \in Msg, Next1(m) PROVE Full(m)
    BY <1>3, <2>1 DEF Next1, Full
  <2>2. ASSUME NEW m \in Msg, Next1(m), NEW u \in Thread, NEW i \in 1..Len(stack'[u]),
               Carries(stack'[u][i], m), ~ Over(stack'[u][i]), NEW c \in Conn
        PROVE  Seen(stack'[u], i, m, c)
    BY <1>3, <1>a, <2>2
  <2> HIDE DEF Seen
  <2>3. \A m \in Msg : sent'[m] = None => \A c \in Conn : written'[c][m] = 0  BY <1>3, <1>n
  <2>4. \A m \in Msg : Next1(m) => \A c \in Conn : written'[c][m] <= 1  BY <1>3, <1>f, <2>1
  <2> QED  BY <1>c, <2>2, <2>3, <2>4
<1>4. ASSUME NEW d \in Conn, Stanzas(d), UNCHANGED stack
      PROVE  UNCHANGED <<stack, written, sent>>
  <2>1. CASE UNCHANGED <<stack, history>>  BY <2>1 DEF history
  <2>2. ASSUME stack[Client[d].thread] = <<>>, NEW m \in Msg, NEW to \in Targets, Sending(d, m, to)
        PROVE  FALSE
    BY <1>4, <2>2 DEF Sending
  <2> QED  BY <1>4, <2>1, <2>2, StanzaNew
<1> QED  BY <1>1, <1>2, <1>3, <1>4, OtherStep

\* A message for a full jid is written at most once to any channel, through
\* however many servers it is relayed and however old their tables are.
THEOREM FullJidArrivesOnce == Spec => []FullJidOnce
<1> DEFINE Inv == FollowInv /\ TableInv /\ ChainInv /\ VisitedInv
<1>1. Init => Inv
  <2> SUFFICES ASSUME Init PROVE Inv  OBVIOUS
  <2>1. \A t \in Thread : 1..Len(stack[t]) = {}  BY DEF Init
  <2>2. TableInv  BY DEF Init, TableInv, IsTable
  <2>3. ChainInv  BY <2>1 DEF ChainInv
  <2>4. VisitedInv  BY <2>1 DEF Init, VisitedInv, Full
  <2> QED  BY <2>2, <2>3, <2>4, FollowInit
<1>2. Inv /\ [Next]_vars => Inv'
  BY FollowStep, TableStays, ChainStep, VisitedStep
  DEF FollowInv, IInv, CascadeInv, RelayInv
<1>3. Inv => FullJidOnce  BY DEF FullJidOnce, VisitedInv, Full
<1> QED  BY <1>1, <1>2, <1>3, PTL DEF Spec

-----------------------------------------------------------------------------
(* That the servers do together what Delivery promises.  A frame of an     *)
(* error, as one of a message, goes on as what the call above it said, or  *)
(* is new because a call with errorNotification failed.                    *)

\* g is a frame of the same send as f, or of one that f asks a server for.
SameSend(f, g) ==
  /\ Sends(f) /\ CallOf(g).what = CallOf(f).what /\ CallOf(g).to = CallOf(f).to
  /\ CallOf(g).notify => CallOf(f).notify
  /\ g.op = "writes" => \/ f.op = "send" /\ g.left = Matching(f.at, f.call.to)
                        \/ f.op = "writes" /\ g.left \subseteq f.left
\* g is the error that the failure of f gives rise to.
FirstError(f, g) ==
  /\ f.op \in {"writes", "delivers"} /\ f.call.notify /\ f.call \in Call /\ g = ErrorFrame(f)

LEMMA SendsNew ==
  ASSUME TypeOK, PlaceInv, PresenceInv, NEW t \in Thread, Step(t),
         NEW k \in 1..New(t), Sends(stack'[t][k])
  PROVE  \/ SameSend(Top(t), stack'[t][k])
         \/ FirstError(Top(t), stack'[t][k]) /\ (WriteFails(t) \/ DeliverFails(t)) /\ k < New(t)
         \/ SendsPresence(stack'[t][k])
<1> DEFINE f == Top(t)
           g == stack'[t][k]
<1> SUFFICES \/ SameSend(f, g)
             \/ FirstError(f, g) /\ (WriteFails(t) \/ DeliverFails(t)) /\ k < New(t)
             \/ SendsPresence(g)
  OBVIOUS
<1>1. CASE EnterMonitor(t)
  <2>1. /\ f.op = "sync" /\ f.body.op \in {"send", "destroy"}
        /\ New(t) = 2 /\ stack'[t][1] = f.body /\ stack'[t][2] = UnlockFrame(f.at)
    BY <1>1, EnterNew
  <2>2. ~ Sends(UnlockFrame(f.at))  BY DEF UnlockFrame, Sends
  <2>3. Sends(g) /\ (k = 1 \/ k = 2)  BY <2>1
  <2> HIDE DEF f
  <2>4. g = f.body /\ Sends(f.body)  BY <2>1, <2>2, <2>3
  <2> HIDE DEF g
  <2> QED  BY <2>1, <2>4 DEF SameSend, Sends, CallOf
<1>2. CASE GetOutChannels(t)
  <2> DEFINE a == WritesFrame(f.at, f.call, Matching(f.at, f.call.to))
  <2>1. f.op = "send" /\ New(t) = 1 /\ stack'[t][1] = a  BY <1>2, GetOutChannelsNew
  <2>2. g = a  BY <2>1
  <2> HIDE DEF f, g
  <2>3. a.op = "writes" /\ a.call = f.call /\ a.left = Matching(f.at, f.call.to)
    BY DEF WritesFrame
  <2> HIDE DEF a
  <2> QED  BY <2>1, <2>2, <2>3 DEF SameSend, Sends, CallOf
<1>3. CASE Write(t)
  <2>1. PICK c \in f.left : stack'[t][1] = WritesFrame(f.at, f.call, f.left \ {c})
    BY <1>3, WriteNew
  <2> DEFINE a == WritesFrame(f.at, f.call, f.left \ {c})
  <2>2. f.op = "writes" /\ New(t) = 1 /\ stack'[t][1] = a  BY <1>3, <2>1, WriteNew
  <2>3. g = a  BY <2>2
  <2> HIDE DEF f, g
  <2>4. a.op = "writes" /\ a.call = f.call /\ a.left \subseteq f.left  BY DEF WritesFrame
  <2> HIDE DEF a
  <2> QED  BY <2>2, <2>3, <2>4 DEF SameSend, Sends, CallOf
<1>4. CASE WriteFails(t)
  <2>1. PICK c \in f.left :
          /\ stack'[t][New(t)] = WritesFrame(f.at, f.call, f.left \ {c})
          /\ \A i \in 1..(New(t)-1) :
               \/ c \in sessions /\ stack'[t][i] = DestroyFrame(c)
               \/ f.call.notify /\ stack'[t][i] = ErrorFrame(f)
    BY <1>4, WriteFailsNew
  <2> DEFINE a == WritesFrame(f.at, f.call, f.left \ {c})
  <2>2. /\ f.op = "writes" /\ f.call \in Call /\ New(t) \in Nat /\ New(t) >= 1
        /\ stack'[t][New(t)] = a
    BY <1>4, <2>1, WriteFailsNew
  <2>3. Sends(g) /\ ~ Sends(DestroyFrame(c))  BY DEF DestroyFrame, Sends
  <2>4. k = New(t) \/ (k \in 1..(New(t)-1) /\ k < New(t))  BY <2>2
  <2> HIDE DEF f
  <2>5. CASE k = New(t)
    <3>1. g = a  BY <2>2, <2>5
    <3> HIDE DEF g
    <3>2. a.op = "writes" /\ a.call = f.call /\ a.left \subseteq f.left  BY DEF WritesFrame
    <3> HIDE DEF a
    <3> QED  BY <2>2, <3>1, <3>2 DEF SameSend, Sends, CallOf
  <2>6. CASE k \in 1..(New(t)-1) /\ k < New(t)
    <3>1. f.call.notify /\ g = ErrorFrame(f)  BY <2>1, <2>3, <2>6
    <3> QED  BY <1>4, <2>2, <2>6, <3>1 DEF FirstError
  <2> QED  BY <2>4, <2>5, <2>6
<1>5. CASE GetForeignChannels(t)
  <2> DEFINE a == DeliversFrame(f.at, f.call, {r \in remote[f.at] : StartsWith(r.jid, f.call.to)})
  <2>1. f.op = "writes" /\ New(t) = 1 /\ stack'[t][1] = a  BY <1>5, GetForeignChannelsNew
  <2>2. g = a  BY <2>1
  <2> HIDE DEF f, g
  <2>3. a.op = "delivers" /\ a.call = f.call  BY DEF DeliversFrame
  <2> HIDE DEF a
  <2> QED  BY <2>1, <2>2, <2>3 DEF SameSend, Sends, CallOf
<1>6. CASE Deliver(t)
  <2>1. PICK r \in f.left :
          /\ stack'[t][1] = SyncFrame(SendFrame(r.at, f.call.to, f.call.what, FALSE))
          /\ stack'[t][2] = DeliversFrame(f.at, f.call, f.left \ {r})
    BY <1>6, DeliverNew
  <2> DEFINE a == SyncFrame(SendFrame(r.at, f.call.to, f.call.what, FALSE))
             b == DeliversFrame(f.at, f.call, f.left \ {r})
  <2>2. f.op = "delivers" /\ New(t) = 2  BY <1>6, DeliverNew
  <2>3. g = a \/ g = b
    <3>1. k = 1 \/ k = 2  BY <2>2
    <3> QED  BY <2>1, <3>1
  <2> HIDE DEF f, g
  <2>4. /\ a.op = "sync" /\ CallOf(a).to = f.call.to /\ CallOf(a).what = f.call.what
        /\ CallOf(a).notify = FALSE
        /\ b.op = "delivers" /\ CallOf(b) = f.call
    BY DEF SyncFrame, SendFrame, DeliversFrame, CallOf
  <2> HIDE DEF a, b
  <2>5. CallOf(f) = f.call /\ Sends(f)  BY <2>2 DEF CallOf, Sends
  <2> QED  BY <2>3, <2>4, <2>5 DEF SameSend
<1>7. CASE DeliverFails(t)
  <2>1. PICK r \in f.left : stack'[t][New(t)] = DeliversFrame(f.at, f.call, f.left \ {r})
    BY <1>7, DeliverFailsNew
  <2> DEFINE a == DeliversFrame(f.at, f.call, f.left \ {r})
  <2>2. /\ f.op = "delivers" /\ f.call \in Call /\ New(t) \in Nat /\ New(t) >= 1
        /\ stack'[t][New(t)] = a
        /\ \A i \in 1..(New(t)-1) : f.call.notify /\ stack'[t][i] = ErrorFrame(f)
    BY <1>7, <2>1, DeliverFailsNew
  <2>4. k = New(t) \/ (k \in 1..(New(t)-1) /\ k < New(t))  BY <2>2
  <2> HIDE DEF f
  <2>5. CASE k = New(t)
    <3>1. g = a  BY <2>2, <2>5
    <3> HIDE DEF g
    <3>2. a.op = "delivers" /\ a.call = f.call  BY DEF DeliversFrame
    <3> HIDE DEF a
    <3> QED  BY <2>2, <3>1, <3>2 DEF SameSend, Sends, CallOf
  <2>6. CASE k \in 1..(New(t)-1) /\ k < New(t)
    <3>1. f.call.notify /\ g = ErrorFrame(f)  BY <2>2, <2>6
    <3> QED  BY <1>7, <2>2, <2>6, <3>1 DEF FirstError
  <2> QED  BY <2>4, <2>5, <2>6
<1>8. CASE DestroySession(t)
  <2>1. /\ New(t) = 2 /\ stack'[t][1].op = "tell" /\ stack'[t][2] = ShutFrame(f.conn)
    BY <1>8, DestroySessionNew
  <2>2. k = 1 \/ k = 2  BY <2>1
  <2>3. ~ Sends(stack'[t][1])  BY <2>1 DEF Sends
  <2>4. ~ Sends(stack'[t][2])  BY <2>1 DEF Sends, ShutFrame
  <2> QED  BY <2>2, <2>3, <2>4
<1>9. CASE \/ LeaveMonitor(t) \/ SendReturns(t) \/ AllTold(t) \/ CloseChannel(t)
           \/ LoopEnds(t) \/ TellFriend(t) \/ Probe(t) \/ Broadcast(t)
  BY <1>9, QuietStep DEF Quiet
<1> QED  BY <1>1, <1>2, <1>3, <1>4, <1>5, <1>6, <1>7, <1>8, <1>9, LoudStep

-----------------------------------------------------------------------------
(* What has to hold for a step of the servers to be one of Delivery.       *)

\* Only a message asks for an error, and an error is about a message.
KindInv ==
  \A u \in Thread : \A i \in 1..Len(stack[u]) : Sends(stack[u][i]) =>
    /\ CallOf(stack[u][i]).what.kind \in {"chat", "error"} => CallOf(stack[u][i]).what.msg \in Msg
    /\ CallOf(stack[u][i]).notify => CallOf(stack[u][i]).what.kind = "chat"

\* Below a call that carries a message are others that do, and the monitors
\* they have: nothing else waits for it.
BelowInv ==
  \A m \in Msg : \A u \in Thread : \A i, j \in 1..Len(stack[u]) :
    i < j /\ Carries(stack[u][i], m) => Carries(stack[u][j], m) \/ stack[u][j].op = "unlock"

\* A message is written to channels that were taken for it.
TakenInv ==
  /\ \A m \in Msg : missed[m] \subseteq owed[m]
  /\ \A m \in Msg : \A u \in Thread : \A i \in 1..Len(stack[u]) :
       Carries(stack[u][i], m) /\ stack[u][i].op = "writes" => stack[u][i].left \subseteq owed[m]

\* An error about a message has a cause and goes to the sessions of its
\* sender's jid, while the call that failed waits.
Blamed(f, m, j) ==
  /\ missed[m] # {} \/ Faulty # {}
  /\ j.user # None /\ CallOf(f).to = j
  /\ f.op = "writes" => \A c \in f.left : StartsWith(JidOf(c), j)
ComplaintInv ==
  \A m \in Msg : \A u \in Thread : \A i \in 1..Len(stack[u]) :
    Complains(stack[u][i], m) =>
      /\ Blamed(stack[u][i], m, JidOf(sent[m].from))
      /\ \E j \in 1..Len(stack[u]) : i < j /\ Carries(stack[u][j], m)

\* Who has sent a message has logged in.
NamedInv == \A m \in Msg : sent[m] # None => who[sent[m].from] # None

\* The session of a channel that failed has left the table, or is about to.
PurgedInv ==
  \A m \in Msg : \A c \in missed[m] :
    c \notin sessions \/ \E i \in 1..Len(stack[SenderThread(m)]) :
                           LET f == stack[SenderThread(m)][i] IN f.op = "destroy" /\ f.conn = c

PromiseInv ==
  /\ FollowInv /\ OwedInv /\ MissedInv /\ TableInv /\ ChainInv /\ VisitedInv
  /\ KindInv /\ BelowInv /\ TakenInv /\ ComplaintInv /\ NamedInv /\ PurgedInv

\* What was taken or missed stays so.
LEMMA HistoryGrows ==
  ASSUME TypeOK, [Next]_vars, NEW m \in Msg
  PROVE  owed[m] \subseteq owed'[m] /\ missed[m] \subseteq missed'[m]
<1> USE DEF history
<1>1. ASSUME NEW t \in Thread, Step(t)
      PROVE  owed[m] \subseteq owed'[m] /\ missed[m] \subseteq missed'[m]
  <2>1. CASE GetOutChannels(t)
    <3>1. /\ missed' = missed
          /\ owed' = owed \/ \E k, S : owed' = [owed EXCEPT ![k] = @ \cup S]
      BY <2>1 DEF GetOutChannels
    <3> QED  BY <3>1 DEF TypeOK
  <2>2. CASE WriteFails(t)
    <3>1. /\ owed' = owed
          /\ missed' = missed \/ \E k, c : missed' = [missed EXCEPT ![k] = @ \cup {c}]
      BY <2>2 DEF WriteFails
    <3> QED  BY <3>1 DEF TypeOK
  <2>3. CASE ~ GetOutChannels(t) /\ ~ WriteFails(t)
    BY <1>1, <2>3 DEF Step, EnterMonitor, LeaveMonitor, Write, GetForeignChannels, Deliver,
       DeliverFails, SendReturns, DestroySession, TellFriend, AllTold, CloseChannel, Probe,
       Broadcast, LoopEnds
  <2> QED  BY <2>1, <2>2, <2>3
<1>2. ASSUME NEW c \in Conn, Stanzas(c) PROVE UNCHANGED <<owed, missed>>
  BY <1>2 DEF Stanzas, Accept, Login, Bind, Presence, Unavailable, StreamEnd, EndOfFile, Message
<1> QED  BY <1>1, <1>2, OtherStep

\* A connection logs in once, and binds once.
LEMMA NameStep ==
  ASSUME TypeOK, [Next]_vars, NEW c \in Conn
  PROVE  /\ who'[c] = who[c] \/ who[c] = None
         /\ res'[c] = res[c] \/ res[c] = None
<1> USE DEF table
<1>1. ASSUME NEW d \in Conn, Stanzas(d)
      PROVE  (who'[c] = who[c] \/ who[c] = None) /\ (res'[c] = res[c] \/ res[c] = None)
  <2>1. CASE Login(d)  BY <2>1 DEF Login, TypeOK
  <2>2. CASE Bind(d)  BY <2>2 DEF Bind, TypeOK
  <2>3. CASE ~ Login(d) /\ ~ Bind(d)
    BY <1>1, <2>3 DEF Stanzas, Accept, Presence, Unavailable, StreamEnd, EndOfFile, Message
  <2> QED  BY <2>1, <2>2, <2>3
<1> QED  BY <1>1, OtherStep, StepSessions

\* The sends a handler starts with are those of a message.
LEMMA StartSends ==
  ASSUME TypeOK, NEW c \in Conn, Stanzas(c), ~ UNCHANGED stack,
         NEW i \in 1..Len(stack'[Client[c].thread]), Sends(stack'[Client[c].thread][i])
  PROVE  /\ CallOf(stack'[Client[c].thread][i]).what.kind = "chat"
         /\ CallOf(stack'[Client[c].thread][i]).what.msg \in Msg
<1> DEFINE T == Client[c].thread
           g == stack'[T][i]
<1>1. ~ Starting(c, g)
  <2>1. ~ Sends(SyncFrame(DestroyFrame(c)))  BY DEF Sends, SyncFrame, DestroyFrame
  <2>2. g.op \notin {"broadcast", "probe"}  BY DEF Sends
  <2> QED  BY <2>1, <2>2 DEF Starting
<1>2. PICK k \in Msg, to \in Targets : Sending(c, k, to)
  <2>1. ~ UNCHANGED <<stack, history>>  OBVIOUS
  <2>2. ~ \A j \in 1..Len(stack'[T]) : Starting(c, stack'[T][j])  BY <1>1
  <2> HIDE DEF g
  <2> QED  BY <2>1, <2>2, StanzaNew
<1>3. i = 1  BY <1>2 DEF Sending
<1>4. g = SyncFrame(SendFrame(At(c), to, Chat(k, JidOf(c)), TRUE))  BY <1>2, <1>3 DEF Sending
<1> HIDE DEF g
<1>5. CallOf(g).what.kind = "chat" /\ CallOf(g).what.msg = k
  BY <1>4 DEF SyncFrame, SendFrame, Chat, CallOf
<1> QED  BY <1>5 DEF g

LEMMA KindStep ==
  ASSUME TypeOK, PlaceInv, PresenceInv, KindInv, [Next]_vars
  PROVE  KindInv'
<1> DEFINE Fine(f) == Sends(f) =>
             /\ CallOf(f).what.kind \in {"chat", "error"} => CallOf(f).what.msg \in Msg
             /\ CallOf(f).notify => CallOf(f).what.kind = "chat"
<1>a. ASSUME NEW u \in Thread, NEW i \in 1..Len(stack[u]) PROVE Fine(stack[u][i])
  BY DEF KindInv
<1>c. ASSUME \A u \in Thread : \A i \in 1..Len(stack'[u]) : Fine(stack'[u][i])
      PROVE  KindInv'
  BY <1>c DEF KindInv, Sends, CallOf
<1> HIDE DEF Fine
<1>1. ASSUME NEW t \in Thread, Step(t) PROVE KindInv'
  <2>0. Moved(t, New(t))  BY <1>1, Moves
  <2>f. Fine(Top(t))  BY <1>a, <2>0 DEF Moved
  <2>1. ASSUME NEW u \in Thread, NEW i \in 1..Len(stack'[u]) PROVE Fine(stack'[u][i])
    <3>1. CASE u # t  BY <1>a, <2>0, <3>1 DEF Moved
    <3>2. CASE u = t /\ i > New(t)
      <4>1. i - New(t) + 1 \in 1..Len(stack[t]) /\ stack'[t][i] = stack[t][i - New(t) + 1]
        BY <2>0, <3>2 DEF Moved
      <4> QED  BY <1>a, <3>2, <4>1
    <3>3. CASE u = t /\ ~ (i > New(t))
      <4> DEFINE f == Top(t)
                 g == stack'[t][i]
      <4>1. i \in 1..New(t)  BY <2>0, <3>3 DEF Moved
      <4>2. Sends(g) => SameSend(f, g) \/ FirstError(f, g) \/ SendsPresence(g)
        BY <1>1, <4>1, SendsNew
      <4>g. SUFFICES Fine(g)  BY <3>3
      <4> HIDE DEF f, g
      <4>3. CASE SameSend(f, g)  BY <2>f, <4>3 DEF Fine, SameSend, f
      <4>4. CASE SendsPresence(g)  BY <4>4 DEF Fine, SendsPresence
      <4>5. CASE FirstError(f, g)
        <5>1. Sends(f) /\ CallOf(f) = f.call  BY <4>5 DEF FirstError, Sends, CallOf
        <5>2. f.call.what.msg \in Msg /\ f.call \in Call
          BY <2>f, <4>5, <5>1 DEF Fine, FirstError, f
        <5>3. g = SendFrame(f.at, f.call.what.from, ErrorOf(f.call.what), FALSE)
          BY <4>5 DEF FirstError, ErrorFrame
        <5>4. ErrorOf(f.call.what).msg = f.call.what.msg  BY <5>2 DEF ErrorOf, Call, Stanza
        <5>5. CallOf(g).what.msg = f.call.what.msg /\ ~ CallOf(g).notify
          BY <5>3, <5>4 DEF SendFrame, CallOf
        <5> QED  BY <5>2, <5>5 DEF Fine
      <4>6. CASE ~ Sends(g)  BY <4>6 DEF Fine
      <4> QED  BY <4>2, <4>3, <4>4, <4>5, <4>6
    <3> QED  BY <3>1, <3>2, <3>3
  <2> QED  BY <1>c, <2>1
<1>2. ASSUME NEW c \in Conn, Stanzas(c), ~ UNCHANGED stack PROVE KindInv'
  <2>1. ASSUME NEW u \in Thread, NEW i \in 1..Len(stack'[u]) PROVE Fine(stack'[u][i])
    <3>1. CASE u # Client[c].thread
      <4>1. stack'[u] = stack[u]  BY <1>2, <3>1, StartNew
      <4> QED  BY <1>a, <4>1
    <3>2. CASE u = Client[c].thread  BY <1>2, <3>2, StartSends DEF Fine
    <3> QED  BY <3>1, <3>2
  <2> QED  BY <1>c, <2>1
<1>3. CASE UNCHANGED stack  BY <1>3, <1>a, <1>c
<1> QED  BY <1>1, <1>2, <1>3, OtherStep

LEMMA BelowStep ==
  ASSUME TypeOK, PlaceInv, PresenceInv, BelowInv, [Next]_vars
  PROVE  BelowInv'
<1> DEFINE Fine(f, g) == \A m \in Msg : Carries(f, m) => Carries(g, m) \/ g.op = "unlock"
<1>a. ASSUME NEW u \in Thread, NEW i \in 1..Len(stack[u]), NEW j \in 1..Len(stack[u]), i < j
      PROVE  Fine(stack[u][i], stack[u][j])
  BY <1>a DEF BelowInv
<1>c. ASSUME \A u \in Thread : \A i, j \in 1..Len(stack'[u]) :
               i < j => Fine(stack'[u][i], stack'[u][j])
      PROVE  BelowInv'
  BY <1>c DEF BelowInv, Carries, Sends, CallOf
<1> HIDE DEF Fine
<1>1. ASSUME NEW t \in Thread, Step(t) PROVE BelowInv'
  <2> DEFINE n == New(t)
  <2>0. Moved(t, n)  BY <1>1, Moves
  <2>r. ASSUME NEW k \in 1..n, NEW m \in Msg, Carries(stack'[t][k], m)
        PROVE  /\ Carries(Top(t), m)
               /\ \A l \in 1..n : l > k => Carries(stack'[t][l], m) \/ stack'[t][l].op = "unlock"
    <3>1. CASE GoesOn(t, Top(t), stack'[t][k], k, m)  BY <3>1 DEF GoesOn
    <3>2. CASE CallsOut(t, Top(t), stack'[t][k], k, m)
      <4>1. Carries(Top(t), m) /\ k = 1 /\ n = 2 /\ Carries(stack'[t][2], m)
        BY <3>2 DEF CallsOut
      <4> HIDE DEF n
      <4>2. \A l \in 1..n : l > k => l = 2  BY <4>1
      <4> QED  BY <4>1, <4>2
    <3> QED  BY <1>1, <2>r, <3>1, <3>2, RelayNew
  <2> HIDE DEF n
  <2>t. n \in Nat /\ Len(stack[t]) \in Nat /\ Len(stack'[t]) \in Nat  BY <2>0 DEF Moved
  <2>1. ASSUME NEW u \in Thread, NEW i \in 1..Len(stack'[u]), NEW j \in 1..Len(stack'[u]), i < j
        PROVE  Fine(stack'[u][i], stack'[u][j])
    <3>1. CASE u # t
      <4>1. stack'[u] = stack[u]  BY <2>0, <3>1 DEF Moved
      <4> QED  BY <1>a, <2>1, <4>1
    <3>2. CASE u = t /\ j > n
      <4> DEFINE l == j - n + 1
      <4>1. l \in 2..Len(stack[t]) /\ stack'[t][j] = stack[t][l]  BY <2>0, <3>2 DEF Moved
      <4>2. CASE i > n
        <5> DEFINE k == i - n + 1
        <5>1. k \in 2..Len(stack[t]) /\ stack'[t][i] = stack[t][k]  BY <2>0, <3>2, <4>2 DEF Moved
        <5>2. k < l /\ k \in 1..Len(stack[t]) /\ l \in 1..Len(stack[t])
          BY <2>1, <2>t, <3>2, <4>1, <5>1
        <5> HIDE DEF k, l
        <5> QED  BY <1>a, <3>2, <4>1, <5>1, <5>2
      <4>3. CASE ~ (i > n)
        <5>1. i \in 1..n  BY <2>t, <3>2, <4>3
        <5>2. l \in 1..Len(stack[t]) /\ 1 < l /\ 1 \in 1..Len(stack[t]) /\ Top(t) = stack[t][1]
          BY <2>0, <2>t, <4>1 DEF Moved
        <5> HIDE DEF l
        <5>3. Fine(Top(t), stack[t][l])  BY <1>a, <5>2
        <5> QED  BY <2>r, <3>2, <4>1, <5>1, <5>3 DEF Fine
      <4> QED  BY <4>2, <4>3
    <3>3. CASE u = t /\ ~ (j > n)
      <4>1. i \in 1..n /\ j \in 1..n /\ j > i  BY <2>1, <2>t, <3>3
      <4> QED  BY <2>r, <3>3, <4>1 DEF Fine
    <3> QED  BY <3>1, <3>2, <3>3
  <2> QED  BY <1>c, <2>1
<1>2. ASSUME NEW c \in Conn, Stanzas(c), ~ UNCHANGED stack PROVE BelowInv'
  <2>1. ASSUME NEW u \in Thread, NEW i \in 1..Len(stack'[u]), NEW j \in 1..Len(stack'[u]), i < j
        PROVE  Fine(stack'[u][i], stack'[u][j])
    <3>1. CASE u # Client[c].thread
      <4>1. stack'[u] = stack[u]  BY <1>2, <3>1, StartNew
      <4> QED  BY <1>a, <2>1, <4>1
    <3>2. CASE u = Client[c].thread
      <4>1. ASSUME NEW m \in Msg, Carries(stack'[u][i], m) PROVE FALSE
        <5>1. i = 1 /\ Len(stack'[u]) = 1  BY <1>2, <3>2, <4>1, CarrierStart
        <5> QED  BY <2>1, <5>1
      <4> QED  BY <4>1 DEF Fine
    <3> QED  BY <3>1, <3>2
  <2> QED  BY <1>c, <2>1
<1>3. CASE UNCHANGED stack  BY <1>3, <1>a, <1>c
<1> QED  BY <1>1, <1>2, <1>3, OtherStep

LEMMA TakenStep ==
  ASSUME TypeOK, PlaceInv, PresenceInv, TakenInv, [Next]_vars
  PROVE  TakenInv'
<1> DEFINE Fine(f) == \A m \in Msg :
             Carries(f, m) /\ f.op = "writes" => f.left \subseteq owed'[m]
<1>g. \A m \in Msg : owed[m] \subseteq owed'[m]  BY HistoryGrows
<1>a. ASSUME NEW u \in Thread, NEW i \in 1..Len(stack[u]) PROVE Fine(stack[u][i])
  BY <1>g DEF TakenInv
<1>c. ASSUME \A u \in Thread : \A i \in 1..Len(stack'[u]) : Fine(stack'[u][i]),
             \A m \in Msg : missed'[m] \subseteq owed'[m]
      PROVE  TakenInv'
  BY <1>c DEF TakenInv, Carries, Sends, CallOf
<1>m. ASSUME \A m \in Msg : missed'[m] = missed[m]
      PROVE  \A m \in Msg : missed'[m] \subseteq owed'[m]
  BY <1>g, <1>m DEF TakenInv
<1> HIDE DEF Fine
<1>1. ASSUME NEW t \in Thread, Step(t) PROVE TakenInv'
  <2>0. Moved(t, New(t))  BY <1>1, Moves
  <2>t. Top(t) = stack[t][1] /\ 1 \in 1..Len(stack[t])  BY <2>0 DEF Moved
  <2>f. Fine(Top(t))  BY <1>a, <2>t
  <2>1. ASSUME NEW u \in Thread, NEW i \in 1..Len(stack'[u]) PROVE Fine(stack'[u][i])
    <3>1. CASE u # t  BY <1>a, <2>0, <3>1 DEF Moved
    <3>2. CASE u = t /\ i > New(t)
      <4>1. i - New(t) + 1 \in 1..Len(stack[t]) /\ stack'[t][i] = stack[t][i - New(t) + 1]
        BY <2>0, <3>2 DEF Moved
      <4> QED  BY <1>a, <3>2, <4>1
    <3>3. CASE u = t /\ ~ (i > New(t))
      <4> DEFINE f == Top(t)
                 g == stack'[t][i]
      <4>1. i \in 1..New(t)  BY <2>0, <3>3 DEF Moved
      <4>2. ASSUME NEW m \in Msg, Carries(g, m), g.op = "writes" PROVE g.left \subseteq owed'[m]
        <5>1. /\ Carries(f, m)
              /\ f.op = "send" \/ (f.op = "writes" /\ g.left \subseteq f.left)
          BY <1>1, <4>1, <4>2, RelayNew DEF GoesOn, IsInside
        <5>2. CASE f.op = "writes" /\ g.left \subseteq f.left
          BY <2>f, <5>1, <5>2 DEF Fine
        <5>3. CASE f.op = "send"
          <6>1. GetOutChannels(t)  BY <1>1, <5>3, StepByOp
          <6>2. g = WritesFrame(f.at, f.call, Matching(f.at, f.call.to))
            <7>1. New(t) = 1  BY <6>1, GetOutChannelsNew
            <7>2. i = 1  BY <4>1, <7>1
            <7> QED  BY <6>1, <7>2, GetOutChannelsNew
          <6>3. g.left = Matching(f.at, f.call.to)  BY <6>2 DEF WritesFrame
          <6>4. f.call.what.kind = "chat" /\ f.call.what.msg = m
            BY <5>1, <5>3 DEF Carries, CallOf
          <6>5. owed' = [owed EXCEPT ![m] = @ \cup Matching(f.at, f.call.to)]
            BY <6>1, <6>4 DEF GetOutChannels
          <6>6. owed'[m] = owed[m] \cup Matching(f.at, f.call.to)  BY <6>5 DEF TypeOK
          <6> QED  BY <6>3, <6>6
        <5> QED  BY <5>1, <5>2, <5>3
      <4>3. Fine(g)  BY <4>2 DEF Fine
      <4> QED  BY <3>3, <4>3
    <3> QED  BY <3>1, <3>2, <3>3
  <2>2. ASSUME NEW m \in Msg PROVE missed'[m] \subseteq owed'[m]
    <3>1. CASE missed'[m] = missed[m]  BY <1>g, <3>1 DEF TakenInv
    <3>2. CASE WriteFails(t) /\ Carries(Top(t), m)
      <4> DEFINE f == Top(t)
      <4>1. f.op = "writes"  BY <3>2, WriteFailsNew
      <4>2. f.call.what.kind = "chat" /\ f.call.what.msg = m
        BY <3>2, <4>1 DEF Carries, CallOf
      <4>3. PICK c \in f.left : missed' = [missed EXCEPT ![m] = @ \cup {c}]
        BY <3>2, <4>2, WriteFailsNew
      <4>4. f.left \subseteq owed'[m]  BY <2>f, <3>2, <4>1 DEF Fine
      <4>5. missed'[m] = missed[m] \cup {c}  BY <4>3 DEF TypeOK
      <4>6. missed[m] \subseteq owed[m]  BY DEF TakenInv
      <4> QED  BY <1>g, <4>3, <4>4, <4>5, <4>6
    <3> QED  BY <1>1, <3>1, <3>2, StepHistory
  <2> QED  BY <1>c, <2>1, <2>2
<1>2. ASSUME NEW c \in Conn, Stanzas(c), ~ UNCHANGED stack PROVE TakenInv'
  <2>1. ASSUME NEW u \in Thread, NEW i \in 1..Len(stack'[u]) PROVE Fine(stack'[u][i])
    <3>1. CASE u # Client[c].thread
      <4>1. stack'[u] = stack[u]  BY <1>2, <3>1, StartNew
      <4> QED  BY <1>a, <4>1
    <3>2. CASE u = Client[c].thread  BY <1>2, <3>2, CarrierStart DEF Fine
    <3> QED  BY <3>1, <3>2
  <2>2. missed' = missed  BY <1>2, StanzaNew
  <2> QED  BY <1>c, <1>m, <2>1, <2>2
<1>3. CASE UNCHANGED stack /\ UNCHANGED missed  BY <1>3, <1>a, <1>c, <1>m
<1>4. ASSUME NEW c \in Conn, Stanzas(c) PROVE UNCHANGED missed
  BY <1>4, StanzaNew DEF history
<1> QED  BY <1>1, <1>2, <1>3, <1>4, OtherStep

LEMMA NamedStep ==
  ASSUME TypeOK, NamedInv, [Next]_vars
  PROVE  NamedInv'
<1>1. ASSUME NEW m \in Msg, sent'[m] # None PROVE who'[sent'[m].from] # None
  <2>1. CASE sent[m] # None
    <3> DEFINE c == sent[m].from
    <3>1. sent'[m] = sent[m] /\ c \in Conn /\ who[c] # None
      BY <2>1, SentKept, SentTypes DEF NamedInv
    <3> HIDE DEF c
    <3>2. who'[c] = who[c]  BY <3>1, NameStep
    <3> QED  BY <3>1, <3>2 DEF c
  <2>2. CASE sent[m] = None
    <3>1. \/ sent' = sent
          \/ \E c \in Conn, k \in Msg, to \in Targets : Message(c, k, to)
      BY DEF Next, Step, EnterMonitor, LeaveMonitor, GetOutChannels, Write, WriteFails,
         GetForeignChannels, Deliver, DeliverFails, SendReturns, DestroySession, TellFriend,
         AllTold, CloseChannel, Probe, Broadcast, LoopEnds, Stanzas, Accept, Login, Bind, Presence,
         Unavailable, StreamEnd, EndOfFile, PeerVanishes, UpdateSessions, vars, history
    <3>2. PICK c \in Conn, k \in Msg, to \in Targets : Message(c, k, to)  BY <1>1, <2>2, <3>1
    <3>3. /\ who[c] # None /\ who' = who
          /\ sent' = [sent EXCEPT ![k] = [from |-> c, to |-> to]]
      BY <3>2 DEF Message, table
    <3>4. sent'[m].from = c  BY <1>1, <2>2, <3>3 DEF TypeOK
    <3> QED  BY <3>3, <3>4
  <2> QED  BY <2>1, <2>2
<1> QED  BY <1>1 DEF NamedInv

\* A session that matched the prefix of a user goes on to match it.
LEMMA JidGrows ==
  ASSUME TypeOK, [Next]_vars, NEW c \in Conn, NEW j \in Jid, j.user # None,
         StartsWith(JidOf(c), j)
  PROVE  StartsWith([user |-> who'[c], res |-> res'[c]], j)
<1>1. who[c] = j.user /\ (j.res = None \/ res[c] \in Extends[j.res])
  BY DEF StartsWith, JidOf
<1>2. who'[c] = j.user /\ (res'[c] = res[c] \/ res[c] = None)  BY <1>1, NameStep
<1>3. j.res = None \/ res[c] # None
  BY <1>1, ExtendsAssumption, ClientAssumption DEF Jid
<1> QED  BY <1>1, <1>2, <1>3 DEF StartsWith

LEMMA ComplaintStep ==
  ASSUME TypeOK, PlaceInv, PresenceInv, CarrierInv, KindInv, NamedInv, ComplaintInv, [Next]_vars
  PROVE  ComplaintInv'
<1> DEFINE Jid1(c) == [user |-> who'[c], res |-> res'[c]]
           Blamed1(f, m, j) ==
             /\ missed'[m] # {} \/ Faulty # {}
             /\ j.user # None /\ CallOf(f).to = j
             /\ f.op = "writes" => \A c \in f.left : StartsWith(Jid1(c), j)
           Waits(s, i, m) == \E j \in 1..Len(s) : i < j /\ Carries(s[j], m)
<1>c. ASSUME \A m \in Msg : \A u \in Thread : \A i \in 1..Len(stack'[u]) :
               Complains(stack'[u][i], m) =>
                 Blamed1(stack'[u][i], m, Jid1(sent'[m].from)) /\ Waits(stack'[u], i, m)
      PROVE  ComplaintInv'
  BY <1>c DEF ComplaintInv, Blamed, JidOf, Complains, Carries, Sends, CallOf, StartsWith
<1> HIDE DEF Waits
\* The jid of the sender stays as it is while its call waits.
<1>j. ASSUME NEW m \in Msg, NEW u \in Thread, NEW i \in 1..Len(stack[u]), Carries(stack[u][i], m)
      PROVE  Jid1(sent'[m].from) = JidOf(sent[m].from) /\ sent[m] # None
  BY <1>j, CarriedKept DEF CarriedFor, CarriedNext
<1>b. ASSUME NEW m \in Msg, NEW u \in Thread, NEW i \in 1..Len(stack[u]),
             Complains(stack[u][i], m)
      PROVE  /\ Blamed1(stack[u][i], m, Jid1(sent'[m].from)) /\ Waits(stack[u], i, m)
             /\ Jid1(sent'[m].from) = JidOf(sent[m].from)
  <2> DEFINE f == stack[u][i]
             j == JidOf(sent[m].from)
  <2>1. Blamed(f, m, j) /\ Waits(stack[u], i, m)  BY <1>b DEF ComplaintInv, Waits
  <2>2. Jid1(sent'[m].from) = j  BY <1>j, <2>1 DEF Waits
  <2>3. stack[u] \in Seq(Frame)  BY DEF TypeOK
  <2>4. f \in Frame  BY <2>3
  <2> HIDE DEF f, j
  <2>5. f.op = "writes" => f.left \subseteq Conn  BY <2>4, FrameFields
  <2>6. missed[m] \subseteq missed'[m]  BY HistoryGrows
  <2>j. j \in Jid  BY <1>j, <2>1, SentTypes DEF Waits, j
  <2>7. f.op = "writes" => \A c \in f.left : StartsWith(Jid1(c), j)
    BY <2>1, <2>5, <2>j, JidGrows DEF Blamed
  <2>8. Blamed1(f, m, j)  BY <2>1, <2>6, <2>7 DEF Blamed
  <2> QED  BY <2>1, <2>2, <2>8 DEF f, j
<1> HIDE DEF Blamed1
<1>1. ASSUME NEW t \in Thread, Step(t) PROVE ComplaintInv'
  <2> DEFINE n == New(t)
  <2>0. Moved(t, n)  BY <1>1, Moves
  <2>t. /\ n \in Nat /\ Len(stack[t]) \in Nat /\ Len(stack'[t]) \in Nat
        /\ Top(t) = stack[t][1] /\ 1 \in 1..Len(stack[t]) /\ Top(t) \in Frame
    BY <2>0 DEF Moved
  <2>n. who' = who /\ res' = res  BY <1>1, StepSessions
  \* What waited below the first frame still does.
  <2>w. ASSUME NEW m \in Msg, NEW i \in 1..Len(stack[t]), Waits(stack[t], i, m),
               NEW k \in 1..Len(stack'[t]), k <= i + n - 1
        PROVE  Waits(stack'[t], k, m)
    <3>1. PICK j \in 1..Len(stack[t]) : i < j /\ Carries(stack[t][j], m)  BY <2>w DEF Waits
    <3>2. j \in 2..Len(stack[t])  BY <2>t, <3>1
    <3>3. j + n - 1 \in 1..Len(stack'[t]) /\ stack'[t][j + n - 1] = stack[t][j]
      BY <2>0, <2>t, <3>2 DEF Moved
    <3>4. k < j + n - 1
      <4>1. k \in Int /\ i \in Int /\ j \in Int /\ n \in Int  BY <2>t
      <4> QED  BY <2>w, <3>1, <4>1
    <3> QED  BY <3>1, <3>3, <3>4 DEF Waits
  <2>1. ASSUME NEW m \in Msg, NEW u \in Thread, NEW i \in 1..Len(stack'[u]),
               Complains(stack'[u][i], m)
        PROVE  Blamed1(stack'[u][i], m, Jid1(sent'[m].from)) /\ Waits(stack'[u], i, m)
    <3>1. CASE u # t
      <4>1. stack'[u] = stack[u]  BY <2>0, <3>1 DEF Moved
      <4> QED  BY <1>b, <2>1, <4>1
    <3>2. CASE u = t /\ i > n
      <4> DEFINE l == i - n + 1
      <4> HIDE DEF n
      <4>0. l \in 2..Len(stack[t]) /\ stack'[t][i] = stack[t][l]  BY <2>0, <3>2 DEF Moved
      <4>1. l \in 1..Len(stack[t]) /\ i <= l + n - 1  BY <2>t, <3>2, <4>0
      <4> HIDE DEF l
      <4>2. Blamed1(stack[t][l], m, Jid1(sent'[m].from)) /\ Waits(stack[t], l, m)
        BY <1>b, <2>1, <3>2, <4>0, <4>1
      <4>3. Waits(stack'[t], i, m)  BY <2>w, <3>2, <4>1, <4>2
      <4> QED  BY <3>2, <4>0, <4>2, <4>3
    <3>3. CASE u = t /\ ~ (i > n)
      <4> DEFINE f == Top(t)
                 g == stack'[t][i]
                 j == Jid1(sent'[m].from)
      <4>1. i \in 1..n /\ i <= 1 + n - 1  BY <2>t, <3>3
      <4>2. Sends(g) /\ CallOf(g).what.kind = "error" /\ CallOf(g).what.msg = m
        BY <2>1, <3>3 DEF Complains
      <4>3. \/ SameSend(f, g)
            \/ FirstError(f, g) /\ (WriteFails(t) \/ DeliverFails(t)) /\ i < New(t)
            \/ SendsPresence(g)
        BY <1>1, <4>1, <4>2, SendsNew
      <4>s. i \in 1..Len(stack'[t])  BY <3>3
      <4>g. SUFFICES Blamed1(g, m, j) /\ Waits(stack'[t], i, m)  BY <3>3
      <4> HIDE DEF f, g, j
      <4>4. CASE SameSend(f, g)
        <5>1. Complains(f, m)  BY <4>2, <4>4 DEF SameSend, Complains
        <5>2. Blamed1(f, m, j) /\ Waits(stack[t], 1, m)  BY <1>b, <2>t, <5>1 DEF f, j
        <5>3. Waits(stack'[t], i, m)  BY <2>t, <2>w, <4>1, <4>s, <5>2
        <5>4. ASSUME g.op = "writes", NEW c \in g.left PROVE StartsWith(Jid1(c), j)
          <6>1. CASE f.op = "writes" /\ g.left \subseteq f.left
            BY <5>2, <5>4, <6>1 DEF Blamed1
          <6>2. CASE f.op = "send" /\ g.left = Matching(f.at, f.call.to)
            <7>1. StartsWith(JidOf(c), f.call.to)  BY <5>4, <6>2 DEF Matching
            <7>2. f.call.to = j  BY <5>2, <6>2 DEF Blamed1, CallOf
            <7> QED  BY <2>n, <7>1, <7>2 DEF JidOf
          <6> QED  BY <4>4, <5>4, <6>1, <6>2 DEF SameSend
        <5> QED  BY <4>4, <5>2, <5>3, <5>4 DEF Blamed1, SameSend
      <4>5. CASE FirstError(f, g) /\ (WriteFails(t) \/ DeliverFails(t)) /\ i < New(t)
        <5>1. Sends(f) /\ CallOf(f) = f.call /\ f.call.notify /\ f.call \in Call
          BY <4>5 DEF FirstError, Sends, CallOf
        <5>2. f.call.what.kind = "chat" /\ f.call.what.msg \in Msg
          BY <2>t, <5>1 DEF KindInv, f
        <5>3. g.op = "send" /\ g.call.to = f.call.what.from /\ g.call.what = ErrorOf(f.call.what)
          BY <4>5 DEF FirstError, ErrorFrame, SendFrame
        <5>4. f.call.what.msg = m
          <6>1. ErrorOf(f.call.what).msg = f.call.what.msg  BY <5>1 DEF ErrorOf, Call, Stanza
          <6> QED  BY <4>2, <5>3, <6>1 DEF CallOf
        <5>5. Carries(f, m)  BY <5>1, <5>2, <5>4 DEF Carries
        <5>6. /\ j = JidOf(sent[m].from) /\ sent[m] # None
              /\ f.call.what.from = JidOf(sent[m].from)
          BY <1>j, <2>t, <5>1, <5>5, CarriedKept DEF f, j, CarriedFor
        <5>7. j.user # None  BY <5>6 DEF NamedInv, JidOf
        <5>8. missed'[m] # {} \/ Faulty # {}
          <6>1. CASE WriteFails(t)
            <7>1. \E c : missed' = [missed EXCEPT ![m] = @ \cup {c}]
              BY <5>2, <5>4, <6>1, WriteFailsNew DEF f
            <7> QED  BY <7>1 DEF TypeOK
          <6>2. CASE DeliverFails(t)  BY <6>2 DEF DeliverFails
          <6> QED  BY <4>5, <6>1, <6>2
        <5>9. Waits(stack'[t], i, m)
          <6>1. n \in 1..Len(stack'[t]) /\ i < n
            BY <2>0, <2>t, <4>1, <4>5 DEF Moved
          <6>2. stack'[t][n].op \in {"writes", "delivers"} /\ stack'[t][n].call = f.call
            <7>1. CASE WriteFails(t)
              <8>1. \E c : stack'[t][New(t)] = WritesFrame(f.at, f.call, f.left \ {c})
                BY <7>1, WriteFailsNew DEF f
              <8> QED  BY <8>1 DEF WritesFrame
            <7>2. CASE DeliverFails(t)
              <8>1. \E r : stack'[t][New(t)] = DeliversFrame(f.at, f.call, f.left \ {r})
                BY <7>2, DeliverFailsNew DEF f
              <8> QED  BY <8>1 DEF DeliversFrame
            <7> QED  BY <4>5, <7>1, <7>2
          <6> HIDE DEF n
          <6>3. Carries(stack'[t][n], m)  BY <5>2, <5>4, <6>2 DEF Carries, Sends, CallOf
          <6> QED  BY <6>1, <6>3 DEF Waits
        <5> QED  BY <5>3, <5>6, <5>7, <5>8, <5>9 DEF Blamed1, CallOf
      <4>6. CASE SendsPresence(g)  BY <4>2, <4>6 DEF SendsPresence
      <4> QED  BY <4>3, <4>4, <4>5, <4>6
    <3> QED  BY <3>1, <3>2, <3>3
  <2> QED  BY <1>c, <2>1
<1>2. ASSUME NEW c \in Conn, Stanzas(c), ~ UNCHANGED stack PROVE ComplaintInv'
  <2>1. ASSUME NEW m \in Msg, NEW u \in Thread, NEW i \in 1..Len(stack'[u]),
               Complains(stack'[u][i], m)
        PROVE  Blamed1(stack'[u][i], m, Jid1(sent'[m].from)) /\ Waits(stack'[u], i, m)
    <3>1. CASE u # Client[c].thread
      <4>1. stack'[u] = stack[u]  BY <1>2, <3>1, StartNew
      <4> QED  BY <1>b, <2>1, <4>1
    <3>2. CASE u = Client[c].thread  BY <1>2, <2>1, <3>2, StartSends DEF Complains
    <3> QED  BY <3>1, <3>2
  <2> QED  BY <1>c, <2>1
<1>3. CASE UNCHANGED stack  BY <1>c, <1>b, <1>3
<1> QED  BY <1>1, <1>2, <1>3, OtherStep

LEMMA PurgedStep ==
  ASSUME TypeOK, CarrierInv, OwedInv, TakenInv, PurgedInv, [Next]_vars
  PROVE  PurgedInv'
<1> DEFINE Doomed(s, c) == \E i \in 1..Len(s) : s[i].op = "destroy" /\ s[i].conn = c
           Fine(m, c) == c \notin sessions' \/ Doomed(stack'[Client[sent'[m].from].thread], c)
<1>c. ASSUME \A m \in Msg : \A c \in missed'[m] : Fine(m, c) PROVE PurgedInv'
  BY <1>c DEF PurgedInv, SenderThread
<1> HIDE DEF Doomed
<1>a. ASSUME NEW m \in Msg, NEW c \in missed[m]
      PROVE  /\ c \in Conn /\ sent'[m] = sent[m] /\ SenderThread(m) \in Thread
             /\ c \notin sessions => c \notin sessions'
             /\ c \notin sessions \/ Doomed(stack[SenderThread(m)], c)
  <2>1. c \in owed[m]  BY DEF TakenInv
  <2>2. c \in Conn /\ sent[m] # None /\ sock[c] # "new"  BY <2>1 DEF OwedInv, TypeOK
  <2> QED  BY <2>2, SentKept, SentTypes, OnceListed DEF PurgedInv, Doomed
<1>s. ASSUME NEW m \in Msg, sent'[m] = sent[m]
      PROVE  Client[sent'[m].from].thread = SenderThread(m)
  BY <1>s DEF SenderThread
<1>1. ASSUME NEW t \in Thread, Step(t) PROVE PurgedInv'
  <2>0. Moved(t, New(t))  BY <1>1, Moves
  <2>t. Top(t) = stack[t][1] /\ 1 \in 1..Len(stack[t])  BY <2>0 DEF Moved
  <2>1. ASSUME NEW m \in Msg, NEW c \in missed[m] PROVE Fine(m, c)
    <3> DEFINE T == SenderThread(m)
    <3>a. /\ c \notin sessions => c \notin sessions'
          /\ c \notin sessions \/ Doomed(stack[T], c)
          /\ T \in Thread /\ T = Client[sent'[m].from].thread
      BY <1>a, <1>s, <2>1
    <3> HIDE DEF T
    <3>1. CASE c \notin sessions  BY <3>1, <3>a
    <3>2. CASE T # t /\ Doomed(stack[T], c)
      <4>1. stack'[T] = stack[T]  BY <2>0, <3>2, <3>a DEF Moved
      <4> QED  BY <3>2, <3>a, <4>1
    <3>3. CASE T = t /\ Doomed(stack[t], c)
      <4>1. PICK i \in 1..Len(stack[t]) : stack[t][i].op = "destroy" /\ stack[t][i].conn = c
        BY <3>3 DEF Doomed
      <4>2. CASE i = 1
        <5>1. DestroySession(t) /\ Top(t).conn = c  BY <1>1, <2>t, <4>1, <4>2, StepByOp
        <5>2. c \notin sessions'  BY <5>1, DestroySessionNew
        <5> QED  BY <5>2
      <4>3. CASE i # 1
        <5>1. i \in 2..Len(stack[t])  BY <2>0, <4>3 DEF Moved
        <5>2. i + New(t) - 1 \in 1..Len(stack'[t]) /\ stack'[t][i + New(t) - 1] = stack[t][i]
          BY <2>0, <5>1 DEF Moved
        <5>3. Doomed(stack'[t], c)  BY <4>1, <5>2 DEF Doomed
        <5> QED  BY <3>3, <3>a, <5>3
      <4> QED  BY <4>2, <4>3
    <3> QED  BY <3>1, <3>2, <3>3, <3>a
  <2>2. ASSUME NEW m \in Msg, NEW c \in missed'[m], c \notin missed[m] PROVE Fine(m, c)
    <3> DEFINE f == Top(t)
    <3>1. WriteFails(t) /\ Carries(f, m)  BY <1>1, <2>2, StepHistory
    <3>2. f.call.what.kind = "chat" /\ f.call.what.msg = m
      <4>1. f.op = "writes"  BY <3>1, WriteFailsNew
      <4> QED  BY <3>1, <4>1 DEF Carries, CallOf
    <3>3. PICK d \in f.left :
            /\ d \in sessions => \E k \in 1..(New(t)-1) : stack'[t][k] = DestroyFrame(d)
            /\ missed' = [missed EXCEPT ![m] = @ \cup {d}]
      BY <3>1, <3>2, WriteFailsNew
    <3>4. d = c  BY <2>2, <3>3 DEF TypeOK
    <3>5. sent'[m] = sent[m] /\ t = SenderThread(m)
      BY <2>t, <3>1, CarriedKept DEF CarriedFor
    <3>6. CASE c \notin sessions
      <4>1. sessions' \subseteq sessions  BY <1>1, StepSessions
      <4> QED  BY <3>6, <4>1
    <3>7. CASE c \in sessions
      <4>1. PICK k \in 1..(New(t)-1) : stack'[t][k] = DestroyFrame(c)  BY <3>3, <3>4, <3>7
      <4>2. DestroyFrame(c).op = "destroy" /\ DestroyFrame(c).conn = c  BY DEF DestroyFrame
      <4>3. k \in 1..Len(stack'[t])  BY <2>0, <4>1 DEF Moved
      <4>4. Doomed(stack'[t], c)  BY <4>1, <4>2, <4>3 DEF Doomed
      <4>5. Client[sent'[m].from].thread = t  BY <1>s, <3>5
      <4> HIDE DEF f
      <4> QED  BY <4>4, <4>5
    <3> QED  BY <3>6, <3>7
  <2> HIDE DEF Fine
  <2> QED  BY <1>c, <2>1, <2>2
<1>2. ASSUME UNCHANGED <<stack, missed>> PROVE PurgedInv'
  <2>1. ASSUME NEW m \in Msg, NEW c \in missed[m] PROVE Fine(m, c)
    BY <1>a, <1>2, <1>s, <2>1
  <2> HIDE DEF Fine
  <2> QED  BY <1>c, <1>2, <2>1
<1>3. ASSUME NEW d \in Conn, Stanzas(d), ~ UNCHANGED <<stack, history>> PROVE PurgedInv'
  <2>0. /\ stack[Client[d].thread] = <<>>
        /\ \A u \in Thread : u # Client[d].thread => stack'[u] = stack[u]
        /\ UNCHANGED missed
    BY <1>3, StanzaNew
  <2>1. ASSUME NEW m \in Msg, NEW c \in missed[m] PROVE Fine(m, c)
    <3> DEFINE T == SenderThread(m)
    <3>a. /\ c \notin sessions => c \notin sessions'
          /\ c \notin sessions \/ Doomed(stack[T], c)
          /\ T \in Thread /\ T = Client[sent'[m].from].thread
      BY <1>a, <1>s, <2>1
    <3> HIDE DEF T
    <3>1. CASE T = Client[d].thread
      <4>1. ~ Doomed(stack[T], c)  BY <2>0, <3>1 DEF Doomed
      <4> QED  BY <3>a, <4>1
    <3>2. CASE T # Client[d].thread
      <4>1. stack'[T] = stack[T]  BY <2>0, <3>2, <3>a
      <4> QED  BY <3>a, <4>1
    <3> QED  BY <3>1, <3>2
  <2> HIDE DEF Fine
  <2> QED  BY <1>c, <2>0, <2>1
<1> QED  BY <1>1, <1>2, <1>3, OtherStep DEF history

LEMMA PromiseInit == Init => PromiseInv
<1> SUFFICES ASSUME Init PROVE PromiseInv  OBVIOUS
<1>1. \A t \in Thread : 1..Len(stack[t]) = {}  BY DEF Init
<1>2. FollowInv  BY FollowInit
<1>3. OwedInv /\ MissedInv /\ TakenInv /\ PurgedInv /\ NamedInv
  BY <1>1 DEF Init, OwedInv, MissedInv, TakenInv, PurgedInv, NamedInv
<1>4. TableInv /\ ChainInv /\ VisitedInv
  BY <1>1 DEF Init, TableInv, IsTable, ChainInv, VisitedInv, Full
<1>5. KindInv /\ BelowInv /\ ComplaintInv  BY <1>1 DEF KindInv, BelowInv, ComplaintInv
<1> QED  BY <1>2, <1>3, <1>4, <1>5 DEF PromiseInv

LEMMA PromiseStep == PromiseInv /\ [Next]_vars => PromiseInv'
<1> SUFFICES ASSUME PromiseInv, [Next]_vars PROVE PromiseInv'  OBVIOUS
<1> USE DEF FollowInv, IInv, CascadeInv, RelayInv
<1>1. FollowInv'  BY FollowStep DEF PromiseInv
<1>2. OwedInv' /\ MissedInv'  BY OwedStep, MissedStep DEF PromiseInv
<1>3. TableInv' /\ ChainInv' /\ VisitedInv'  BY TableStays, ChainStep, VisitedStep DEF PromiseInv
<1>4. KindInv' /\ BelowInv' /\ TakenInv'  BY KindStep, BelowStep, TakenStep DEF PromiseInv
<1>5. ComplaintInv' /\ NamedInv' /\ PurgedInv'
  BY ComplaintStep, NamedStep, PurgedStep DEF PromiseInv
<1> QED  BY <1>1, <1>2, <1>3, <1>4, <1>5 DEF PromiseInv

-----------------------------------------------------------------------------
(* The state of Delivery that the servers are in, and how a step moves it. *)

Phases == [c \in Conn |-> PhaseOf(c)]
Jids == [c \in Conn |-> JidOf(c)]

LEMMA PhaseIs ==
  ASSUME NEW c \in Conn
  PROVE  /\ Phases[c] = IF c \in sessions THEN "listed"
                        ELSE IF sock[c] = "new" THEN "new" ELSE "gone"
         /\ Phases'[c] = IF c \in sessions' THEN "listed"
                         ELSE IF sock'[c] = "new" THEN "new" ELSE "gone"
BY DEF Phases, PhaseOf

LEMMA PhasesKept ==
  ASSUME sessions' = sessions, \A c \in Conn : (sock'[c] = "new") <=> (sock[c] = "new")
  PROVE  Phases' = Phases
<1>1. \A c \in Conn : Phases'[c] = Phases[c]  BY PhaseIs
<1> QED  BY <1>1 DEF Phases

LEMMA StepPhases ==
  ASSUME TypeOK, ListedInv, NEW t \in Thread, Step(t), ~ DestroySession(t)
  PROVE  Phases' = Phases
<1> USE DEF table
<1>1. sessions' = sessions
  BY DEF Step, EnterMonitor, LeaveMonitor, GetOutChannels, Write, WriteFails, GetForeignChannels,
     Deliver, DeliverFails, SendReturns, TellFriend, AllTold, CloseChannel, Probe, Broadcast,
     LoopEnds
<1>2. CASE CloseChannel(t)
  <2>0. Moved(t, New(t))  BY Moves
  <2>1. /\ Top(t).op = "shut" /\ sock' = [sock EXCEPT ![Top(t).conn] = "closed"]
        /\ Top(t) = stack[t][1] /\ 1 \in 1..Len(stack[t])
    BY <1>2, <2>0 DEF CloseChannel, Running, Moved
  <2>2. Top(t).conn \in Conn  BY <2>0, <2>1, FrameFields DEF Moved
  <2>3. sock[Top(t).conn] # "new"  BY <2>1, <2>2 DEF ListedInv, Shuts
  <2>4. \A c \in Conn : sock'[c] = IF c = Top(t).conn THEN "closed" ELSE sock[c]
    BY <2>1 DEF TypeOK
  <2> QED  BY <1>1, <2>3, <2>4, PhasesKept
<1>3. CASE ~ CloseChannel(t)
  <2>1. sock' = sock
    BY <1>3 DEF Step, EnterMonitor, LeaveMonitor, GetOutChannels, Write, WriteFails,
       GetForeignChannels, Deliver, DeliverFails, SendReturns, DestroySession, TellFriend,
       AllTold, Probe, Broadcast, LoopEnds
  <2> QED  BY <1>1, <2>1, PhasesKept
<1> QED  BY <1>2, <1>3

LEMMA JidsKept ==
  ASSUME UNCHANGED <<who, res>>
  PROVE  Jids' = Jids
BY DEF Jids, JidOf

\* Whether a message is under way.
LEMMA UnderwayIs ==
  ASSUME TypeOK, TypeOK', NEW m \in Msg
  PROVE  /\ m \in Underway <=>
              \E u \in Thread : \E i \in 1..Len(stack[u]) : Carries(stack[u][i], m)
         /\ m \in Underway' <=>
              \E u \in Thread : \E i \in 1..Len(stack'[u]) : Carries(stack'[u][i], m)
<1>1. \A u \in Thread : DOMAIN stack[u] = 1..Len(stack[u]) /\ DOMAIN stack'[u] = 1..Len(stack'[u])
  BY DEF TypeOK
<1>2. Underway = {k \in Msg : \E u \in Thread : \E i \in DOMAIN stack[u] : Carries(stack[u][i], k)}
  BY DEF Underway
<1>3. Underway' = {k \in Msg : \E u \in Thread : \E i \in DOMAIN stack'[u] : Carries(stack'[u][i], k)}
  BY DEF Underway, Carries, Sends, CallOf
<1> QED  BY <1>1, <1>2, <1>3

\* The call at the top of a stack is the last one that carries m.
LastOne(t, m) ==
  /\ SendReturns(t) /\ Carries(stack[t][1], m)
  /\ \A i \in 2..Len(stack[t]) : ~ Carries(stack[t][i], m)

\* A call that carries a message goes on carrying it, until it returns.
LEMMA CarryNew ==
  ASSUME TypeOK, PlaceInv, NEW t \in Thread, Step(t), NEW m \in Msg, Carries(Top(t), m),
         ~ SendReturns(t)
  PROVE  \E k \in 1..New(t) : Carries(stack'[t][k], m)
<1> DEFINE f == Top(t)
<1>1. Sends(f) /\ CallOf(f).what.kind = "chat" /\ CallOf(f).what.msg = m  BY DEF Carries
<1>2. ASSUME NEW k \in 1..New(t), Sends(stack'[t][k]), CallOf(stack'[t][k]).what = CallOf(f).what
      PROVE  \E i \in 1..New(t) : Carries(stack'[t][i], m)
  BY <1>1, <1>2 DEF Carries
<1>3. CASE f.op = "sync"
  <2>1. EnterMonitor(t)
    BY <1>3 DEF Step, Running, EnterMonitor, LeaveMonitor, GetOutChannels, Write, WriteFails,
       GetForeignChannels, Deliver, DeliverFails, SendReturns, DestroySession, TellFriend, AllTold,
       CloseChannel, Probe, Broadcast, LoopEnds
  <2>2. New(t) = 2 /\ stack'[t][1] = f.body  BY <2>1, EnterNew
  <2>3. f.body.op = "send" /\ CallOf(f) = f.body.call  BY <1>1, <1>3 DEF Sends, CallOf
  <2> HIDE DEF f
  <2>4. 1 \in 1..New(t) /\ Sends(stack'[t][1]) /\ CallOf(stack'[t][1]) = CallOf(f)
    BY <2>2, <2>3 DEF Sends, CallOf
  <2> QED  BY <1>2, <2>4
<1>4. CASE f.op = "send"
  <2>1. GetOutChannels(t)  BY <1>4, StepByOp
  <2>2. New(t) = 1 /\ stack'[t][1] = WritesFrame(f.at, f.call, Matching(f.at, f.call.to))
    BY <2>1, GetOutChannelsNew
  <2>3. 1 \in 1..New(t) /\ Sends(stack'[t][1]) /\ CallOf(stack'[t][1]) = CallOf(f)
    BY <1>4, <2>2 DEF Sends, CallOf, WritesFrame
  <2> HIDE DEF f
  <2> QED  BY <1>2, <2>3
<1>5. ASSUME NEW g, g.op \in {"writes", "delivers"}, g.call = f.call, New(t) \in Nat, New(t) >= 1,
             g = stack'[t][New(t)], f.op \in {"writes", "delivers"}
      PROVE  \E i \in 1..New(t) : Carries(stack'[t][i], m)
  <2>1. New(t) \in 1..New(t)  BY <1>5
  <2>2. Sends(g) /\ CallOf(g) = CallOf(f)  BY <1>5 DEF Sends, CallOf
  <2> HIDE DEF f
  <2> QED  BY <1>2, <1>5, <2>1, <2>2
<1>w. \A s, call, left : /\ WritesFrame(s, call, left).op = "writes"
                         /\ WritesFrame(s, call, left).call = call
                         /\ DeliversFrame(s, call, left).op = "delivers"
                         /\ DeliversFrame(s, call, left).call = call
  BY DEF WritesFrame, DeliversFrame
<1>6. CASE Write(t)
  <2>1. New(t) = 1 /\ f.op = "writes"  BY <1>6, WriteNew
  <2>2. \E left : stack'[t][1] = WritesFrame(f.at, f.call, left)  BY <1>6, WriteNew
  <2> QED  BY <1>5, <1>w, <2>1, <2>2
<1>7. CASE WriteFails(t)
  <2>1. New(t) \in Nat /\ New(t) >= 1 /\ f.op = "writes"  BY <1>7, WriteFailsNew
  <2>2. \E left : stack'[t][New(t)] = WritesFrame(f.at, f.call, left)  BY <1>7, WriteFailsNew
  <2> QED  BY <1>5, <1>w, <2>1, <2>2
<1>8. CASE GetForeignChannels(t)
  <2>1. New(t) = 1 /\ f.op = "writes"  BY <1>8, GetForeignChannelsNew
  <2>2. \E left : stack'[t][1] = DeliversFrame(f.at, f.call, left)
    BY <1>8, GetForeignChannelsNew
  <2> QED  BY <1>5, <1>w, <2>1, <2>2
<1>9. CASE Deliver(t)
  <2>1. New(t) = 2 /\ f.op = "delivers"  BY <1>9, DeliverNew
  <2>2. \E left : stack'[t][2] = DeliversFrame(f.at, f.call, left)  BY <1>9, DeliverNew
  <2> QED  BY <1>5, <1>w, <2>1, <2>2
<1>10. CASE DeliverFails(t)
  <2>1. New(t) \in Nat /\ New(t) >= 1 /\ f.op = "delivers"  BY <1>10, DeliverFailsNew
  <2>2. \E left : stack'[t][New(t)] = DeliversFrame(f.at, f.call, left)
    BY <1>10, DeliverFailsNew
  <2> QED  BY <1>5, <1>w, <2>1, <2>2
<1>11. f.op \in {"sync", "send"} \/ Write(t) \/ WriteFails(t) \/ GetForeignChannels(t)
          \/ Deliver(t) \/ DeliverFails(t)
  BY <1>1, StepByOp DEF Sends
<1> QED  BY <1>3, <1>4, <1>6, <1>7, <1>8, <1>9, <1>10, <1>11

LEMMA UnderwayStep ==
  ASSUME TypeOK, TypeOK', PlaceInv, PresenceInv, CarrierInv, NEW t \in Thread, Step(t), NEW m \in Msg
  PROVE  /\ m \in Underway' => m \in Underway
         /\ m \in Underway => m \in Underway' \/ LastOne(t, m)
<1> DEFINE n == New(t)
<1>0. Moved(t, n)  BY Moves
<1>t. /\ n \in Nat /\ Len(stack[t]) \in Nat /\ Len(stack'[t]) \in Nat
      /\ Top(t) = stack[t][1] /\ 1 \in 1..Len(stack[t])
  BY <1>0 DEF Moved
<1>1. ASSUME NEW u \in Thread, NEW i \in 1..Len(stack'[u]), Carries(stack'[u][i], m)
      PROVE  m \in Underway
  <2>1. CASE u # t
    <3>1. stack'[u] = stack[u]  BY <1>0, <2>1 DEF Moved
    <3> QED  BY <1>1, <3>1, UnderwayIs
  <2>2. CASE u = t /\ i > n
    <3>1. i - n + 1 \in 1..Len(stack[t]) /\ stack'[t][i] = stack[t][i - n + 1]
      BY <1>0, <2>2 DEF Moved
    <3> QED  BY <1>1, <2>2, <3>1, UnderwayIs
  <2>3. CASE u = t /\ ~ (i > n)
    <3>1. i \in 1..New(t)  BY <1>t, <2>3
    <3>2. Carries(Top(t), m)  BY <1>1, <2>3, <3>1, RelayNew DEF GoesOn, CallsOut
    <3> QED  BY <1>t, <3>2, UnderwayIs
  <2> QED  BY <2>1, <2>2, <2>3
<1>2. ASSUME NEW u \in Thread, NEW i \in 1..Len(stack[u]), Carries(stack[u][i], m),
             m \notin Underway'
      PROVE  u = t /\ i = 1
  <2>1. CASE u # t
    <3>1. stack'[u] = stack[u]  BY <1>0, <2>1 DEF Moved
    <3> QED  BY <1>2, <3>1, UnderwayIs
  <2>2. CASE u = t /\ i # 1
    <3>1. i \in 2..Len(stack[t])  BY <1>t, <2>2
    <3>2. i + n - 1 \in 1..Len(stack'[t]) /\ stack'[t][i + n - 1] = stack[t][i]
      BY <1>0, <3>1 DEF Moved
    <3> QED  BY <1>2, <2>2, <3>2, UnderwayIs
  <2> QED  BY <2>1, <2>2
<1>3. ASSUME m \in Underway, m \notin Underway' PROVE LastOne(t, m)
  <2>1. PICK u \in Thread : \E i \in 1..Len(stack[u]) : Carries(stack[u][i], m)
    BY <1>3, UnderwayIs
  <2>2. Carries(stack[t][1], m)  BY <1>2, <1>3, <2>1
  <2>3. \A i \in 2..Len(stack[t]) : ~ Carries(stack[t][i], m)
    <3>1. \A i \in 2..Len(stack[t]) : i \in 1..Len(stack[t]) /\ i # 1  BY <1>t
    <3> QED  BY <1>2, <1>3, <3>1
  <2>4. SendReturns(t)
    <3>1. \A k \in 1..New(t) : k \in 1..Len(stack'[t])  BY <1>0 DEF Moved
    <3>2. ~ \E k \in 1..New(t) : Carries(stack'[t][k], m)  BY <1>3, <3>1, UnderwayIs
    <3> QED  BY <1>t, <2>2, <3>2, CarryNew
  <2> QED  BY <2>2, <2>3, <2>4 DEF LastOne
<1> QED  BY <1>1, <1>3, UnderwayIs

LEMMA UnderwayKept ==
  ASSUME TypeOK, TypeOK', PlaceInv, PresenceInv, CarrierInv, NEW t \in Thread, Step(t),
         ~ SendReturns(t)
  PROVE  Underway' = Underway
<1>1. \A m \in Msg : m \in Underway' <=> m \in Underway  BY UnderwayStep DEF LastOne
<1>2. Underway \subseteq Msg /\ Underway' \subseteq Msg  BY DEF Underway
<1> QED  BY <1>1, <1>2

LEMMA SameStacks ==
  ASSUME UNCHANGED stack
  PROVE  Underway' = Underway
BY DEF Underway, Carries, Sends, CallOf

\* A handler starts to carry the message its client has sent, if any.
LEMMA UnderwayStanza ==
  ASSUME TypeOK, TypeOK', NEW c \in Conn, Stanzas(c)
  PROVE  /\ sent' = sent => Underway' = Underway
         /\ \A m \in Msg, to \in Targets : Sending(c, m, to) => Underway' = Underway \cup {m}
<1> DEFINE T == Client[c].thread
<1>0. Underway \subseteq Msg /\ Underway' \subseteq Msg  BY DEF Underway
<1>t. T \in Thread  BY ConnTypes
<1>1. ASSUME NEW m \in Msg, NEW to \in Targets, Sending(c, m, to)
      PROVE  ~ UNCHANGED <<stack, history>>
  <2>1. sent'[m] = [from |-> c, to |-> to] /\ sent[m] = None  BY <1>1 DEF Sending, TypeOK
  <2>2. to \in Jid  BY TargetAssumption DEF Jid
  <2>3. sent'[m] # sent[m]  BY <2>1, <2>2, NoneAssumption
  <2> QED  BY <2>3 DEF history
<1>2. CASE UNCHANGED <<stack, history>>  BY <1>1, <1>2, SameStacks
<1>3. CASE ~ UNCHANGED <<stack, history>>
  <2>1. stack[T] = <<>> /\ \A u \in Thread : u # T => stack'[u] = stack[u]
    BY <1>3, StanzaNew
  <2>2. ASSUME NEW k \in Msg
        PROVE  /\ k \in Underway => k \in Underway'
               /\ k \in Underway' => k \in Underway \/ \E i \in 1..Len(stack'[T]) :
                                                         Carries(stack'[T][i], k)
    <3>1. 1..Len(stack[T]) = {}  BY <2>1
    <3> QED  BY <2>1, <3>1, UnderwayIs
  <2>3. ASSUME NEW m \in Msg, NEW to \in Targets, Sending(c, m, to)
        PROVE  Underway' = Underway \cup {m}
    <3> DEFINE g == SyncFrame(SendFrame(At(c), to, Chat(m, JidOf(c)), TRUE))
    <3>1. Len(stack'[T]) = 1 /\ stack'[T][1] = g  BY <2>3 DEF Sending
    <3>2. \A k : Carries(g, k) <=> k = m
      BY DEF Carries, Sends, CallOf, SyncFrame, SendFrame, Chat
    <3> HIDE DEF g
    <3>3. \A k \in Msg : (\E i \in 1..Len(stack'[T]) : Carries(stack'[T][i], k)) <=> k = m
      BY <3>1, <3>2
    <3>4. m \in Underway'  BY <1>t, <3>3, UnderwayIs
    <3> QED  BY <1>0, <2>2, <3>3, <3>4
  <2>4. ASSUME sent' = sent PROVE Underway' = Underway
    <3>1. ASSUME NEW k \in Msg, NEW i \in 1..Len(stack'[T]), Carries(stack'[T][i], k)
          PROVE  FALSE
      <4>1. ~ UNCHANGED stack  BY <2>1, <3>1
      <4> QED  BY <2>4, <3>1, <4>1, CarrierStart
    <3> QED  BY <1>0, <2>2, <3>1
  <2> QED  BY <2>3, <2>4
<1> QED  BY <1>2, <1>3

-----------------------------------------------------------------------------
(* Each step of the servers is a step of Delivery, or none.                *)

LEMMA NoStep ==
  ASSUME Phases' = Phases, Jids' = Jids, Underway' = Underway, UNCHANGED history
  PROVE  UNCHANGED Promised!vars
BY DEF Promised!vars, Phases, Jids, history

LEMMA AcceptEnters ==
  ASSUME TypeOK, ListedInv, NEW c \in Conn, Accept(c)
  PROVE  Promised!Enter(c)
<1>1. /\ c \notin sessions /\ sock[c] = "new" /\ UNCHANGED <<who, res, stack, history>>
      /\ sock' = [sock EXCEPT ![c] = "open"] /\ sessions' = sessions \cup {c}
  BY DEF Accept, ListedInv
<1>2. Phases[c] = "new" /\ Phases' = [Phases EXCEPT ![c] = "listed"]
  BY <1>1 DEF Phases, PhaseOf, TypeOK
<1>3. Jids' = Jids /\ Underway' = Underway  BY <1>1, JidsKept, SameStacks
<1> QED  BY <1>1, <1>2, <1>3 DEF Promised!Enter, Phases, Jids, history

LEMMA DestroyLeaves ==
  ASSUME TypeOK, TypeOK', PlaceInv, CascadeInv, CarrierInv, NEW t \in Thread, Step(t),
         DestroySession(t)
  PROVE  (\E c \in Conn : Promised!Leave(c)) \/ UNCHANGED Promised!vars
<1> DEFINE c == Top(t).conn
<1>1. c \in Conn /\ sessions' = sessions \ {c} /\ UNCHANGED <<who, res, sock, history>>
  BY DestroySessionNew DEF DestroySession
<1> HIDE DEF c
<1>2. Jids' = Jids  BY <1>1, JidsKept
<1>3. Underway' = Underway
  <2>1. ~ SendReturns(t)  BY DEF SendReturns, DestroySession, Running
  <2> QED  BY <2>1, UnderwayKept DEF CascadeInv
<1>4. CASE c \in sessions
  <2>1. sock[c] # "new"  BY <1>4 DEF CascadeInv, ListedInv
  <2>2. Phases[c] = "listed" /\ Phases' = [Phases EXCEPT ![c] = "gone"]
    BY <1>1, <1>4, <2>1 DEF Phases, PhaseOf
  <2>3. Promised!Leave(c)  BY <1>1, <1>2, <1>3, <2>2 DEF Promised!Leave, Phases, Jids, history
  <2> QED  BY <1>1, <2>3
<1>5. CASE c \notin sessions
  <2>1. Phases' = Phases  BY <1>1, <1>5 DEF Phases, PhaseOf
  <2> QED  BY <1>1, <1>2, <1>3, <2>1, NoStep
<1> QED  BY <1>4, <1>5

LEMMA NameNames ==
  ASSUME TypeOK, NEW c \in Conn, Login(c) \/ Bind(c)
  PROVE  Promised!Name(c) \/ UNCHANGED Promised!vars
<1>1. UNCHANGED <<sessions, sock, stack, history>>  BY DEF Login, Bind
<1>2. Phases' = Phases /\ Underway' = Underway  BY <1>1, SameStacks DEF Phases, PhaseOf
<1>3. CASE UNCHANGED <<who, res>>  BY <1>1, <1>2, <1>3, JidsKept, NoStep
<1>4. CASE Login(c) /\ who' = [who EXCEPT ![c] = Client[c].user]
  <2>1. who[c] = None /\ res' = res /\ Client[c].user \in User  BY <1>4, ConnTypes DEF Login
  <2>2. Jids[c].user = None  BY <2>1 DEF Jids, JidOf
  <2>3. Jids' = [Jids EXCEPT ![c].user = Client[c].user]
    BY <1>4, <2>1 DEF Jids, JidOf, TypeOK
  <2> QED  BY <1>1, <1>2, <2>1, <2>2, <2>3 DEF Promised!Name, Phases, Jids, history
<1>5. CASE Bind(c)
  <2>1. /\ who[c] # None /\ res[c] = None /\ who' = who
        /\ res' = [res EXCEPT ![c] = Client[c].res] /\ Client[c].res \in Resource
    BY <1>5, ConnTypes DEF Bind
  <2>2. Jids[c].user # None /\ Jids[c].res = None  BY <2>1 DEF Jids, JidOf
  <2>3. Jids' = [Jids EXCEPT ![c].res = Client[c].res]
    BY <2>1 DEF Jids, JidOf, TypeOK
  <2> QED  BY <1>1, <1>2, <2>1, <2>2, <2>3 DEF Promised!Name, Phases, Jids, history
<1> QED  BY <1>3, <1>4, <1>5 DEF Login

LEMMA MessageSends ==
  ASSUME TypeOK, TypeOK', CarrierInv, NEW c \in Conn, NEW m \in Msg, NEW to \in Targets,
         Message(c, m, to)
  PROVE  Promised!Send(m, c, to)
<1> DEFINE T == Client[c].thread
           a == SyncFrame(SendFrame(At(c), to, Chat(m, JidOf(c)), TRUE))
<1>t. T \in Thread  BY ConnTypes
<1>1. /\ stack[T] = <<>> /\ who[c] # None /\ c \in Senders /\ sent[m] = None
      /\ sent' = [sent EXCEPT ![m] = [from |-> c, to |-> to]]
      /\ UNCHANGED <<sessions, who, res, sock, owed, missed, bounced, written>>
  BY DEF Message, Ready, table
<1>2. Phases' = Phases /\ Jids' = Jids  BY <1>1, JidsKept DEF Phases, PhaseOf
<1>3. Underway' = Underway \cup {m}
  <2>1. Start(c, <<a>>)  BY DEF Message
  <2> HIDE DEF a
  <2>2. stack'[T] = <<a>>  BY <1>t, <2>1 DEF Start, TypeOK
  <2>3. Len(stack'[T]) = 1 /\ stack'[T][1] = a  BY <2>2
  <2>4. Sending(c, m, to)  BY <1>1, <2>3 DEF Sending, a
  <2>5. Stanzas(c)  BY DEF Stanzas
  <2> QED  BY <2>4, <2>5, UnderwayStanza
<1>4. ASSUME NEW n \in Underway, sent[n].from = c PROVE FALSE
  <2>1. n \in Msg  BY DEF Underway
  <2>2. PICK u \in Thread : \E i \in 1..Len(stack[u]) : Carries(stack[u][i], n)
    BY <2>1, UnderwayIs
  <2>3. u = T  BY <1>4, <2>1, <2>2 DEF CarrierInv, CarriedFor, SenderThread
  <2>4. 1..Len(stack[T]) = {}  BY <1>1
  <2> QED  BY <2>2, <2>3, <2>4
<1>5. Jids[c].user # None  BY <1>1 DEF Jids, JidOf
<1> QED  BY <1>1, <1>2, <1>3, <1>4, <1>5 DEF Promised!Send, Phases, Jids

\* The message that the call at the top of a stack is about.
LEMMA TopCarries ==
  ASSUME TypeOK, CarrierInv, KindInv, NEW t \in Thread, stack[t] # <<>>,
         Top(t).op \in {"send", "writes", "delivers"}, Top(t).call.what.kind = "chat"
  PROVE  LET m == Top(t).call.what.msg
         IN  /\ m \in Msg /\ m \in Underway /\ Carries(Top(t), m) /\ sent[m] # None
             /\ Top(t).call.to = sent[m].to /\ t = SenderThread(m)
<1> DEFINE f == Top(t)
           m == Top(t).call.what.msg
<1>1. f = stack[t][1] /\ 1 \in 1..Len(stack[t])  BY TopType DEF TypeOK
<1>2. Sends(f) /\ CallOf(f) = f.call  BY DEF Sends, CallOf
<1>3. m \in Msg /\ Carries(f, m)  BY <1>1, <1>2 DEF KindInv, Carries
<1>4. m \in Underway
  <2>1. DOMAIN stack[t] = 1..Len(stack[t])  BY DEF TypeOK
  <2>2. Carries(stack[t][1], m)  BY <1>1, <1>3
  <2> HIDE DEF m
  <2> QED  BY <1>1, <1>3, <2>1, <2>2 DEF Underway
<1>5. CarriedFor(t, f, m)  BY <1>1, <1>3 DEF CarrierInv
<1> QED  BY <1>2, <1>3, <1>4, <1>5 DEF CarriedFor

LEMMA SendTakes ==
  ASSUME TypeOK, TypeOK', PlaceInv, CascadeInv, CarrierInv, KindInv, NEW t \in Thread, Step(t),
         GetOutChannels(t)
  PROVE  \/ \E m \in Msg, s \in {At(c) : c \in Conn} : Promised!Take(m, s)
         \/ UNCHANGED Promised!vars
<1> DEFINE f == Top(t)
           m == f.call.what.msg
           channels == Matching(f.at, f.call.to)
<1>1. /\ f.op = "send" /\ stack[t] # <<>>
      /\ UNCHANGED <<sessions, who, res, sock, sent, missed, bounced, written>>
      /\ owed' = IF f.call.what.kind = "chat" THEN [owed EXCEPT ![m] = @ \cup channels] ELSE owed
  BY DEF GetOutChannels, Running, table
<1>2. Phases' = Phases /\ Jids' = Jids  BY <1>1, JidsKept DEF Phases, PhaseOf
<1>3. Underway' = Underway
  <2>1. ~ SendReturns(t)  BY <1>1 DEF SendReturns, Running
  <2> QED  BY <2>1, UnderwayKept DEF CascadeInv
<1>4. CASE owed' = owed  BY <1>1, <1>2, <1>3, <1>4, NoStep DEF history
<1>5. CASE f.call.what.kind = "chat" /\ owed' # owed
  <2>1. m \in Msg /\ m \in Underway /\ f.call.to = sent[m].to  BY <1>1, <1>5, TopCarries
  <2>2. owed' = [owed EXCEPT ![m] = @ \cup channels]  BY <1>1, <1>5
  <2>3. channels # {}  BY <1>5, <2>2 DEF TypeOK
  <2>4. f.at \in {At(c) : c \in Conn}  BY <2>3 DEF Matching, TypeOK
  <2>5. channels = {c \in Conn : /\ Phases[c] = "listed" /\ [d \in Conn |-> At(d)][c] = f.at
                                 /\ Promised!Addressed(m, c)}
    <3>1. channels = {c \in sessions : At(c) = f.at /\ StartsWith(JidOf(c), sent[m].to)}
      BY <2>1 DEF Matching
    <3>2. \A c \in Conn : Promised!Addressed(m, c) <=> StartsWith(JidOf(c), sent[m].to)
      BY DEF Promised!Addressed, Promised!Addresses, StartsWith
    <3>3. \A c \in Conn : Phases[c] = "listed" <=> c \in sessions  BY PhaseIs
    <3> HIDE DEF channels, f
    <3> QED  BY <3>1, <3>2, <3>3 DEF TypeOK
  <2> HIDE DEF f, m, channels
  <2>6. Promised!Take(m, f.at)
    BY <1>1, <1>2, <1>3, <2>1, <2>2, <2>5 DEF Promised!Take, Phases, Jids
  <2> QED  BY <2>1, <2>4, <2>6
<1> QED  BY <1>1, <1>4, <1>5

LEMMA WriteWrites ==
  ASSUME PromiseInv, TypeOK', NEW t \in Thread, Step(t), Write(t)
  PROVE  \/ \E m \in Msg, c \in Conn : Promised!Write(m, c) \/ Promised!Report(m, c)
         \/ UNCHANGED Promised!vars
<1> USE DEF PromiseInv, FollowInv, IInv, CascadeInv, RelayInv
<1> DEFINE f == Top(t)
           m == f.call.what.msg
<1>0. PICK c \in f.left :
        /\ sock[c] \in {"open", "broken"}
        /\ written' = IF f.call.what.kind = "chat" THEN [written EXCEPT ![c][m] = @ + 1]
                      ELSE written
        /\ bounced' = IF f.call.what.kind = "error" THEN [bounced EXCEPT ![m] = @ \cup {c}]
                      ELSE bounced
  BY DEF Write
<1>1. /\ f.op = "writes" /\ stack[t] # <<>>
      /\ UNCHANGED <<sessions, who, res, sock, sent, owed, missed>>
  BY DEF Write, Running, table
<1>2. Phases' = Phases /\ Jids' = Jids  BY <1>1, JidsKept DEF Phases, PhaseOf
<1>3. Underway' = Underway
  <2>1. ~ SendReturns(t)  BY <1>1 DEF SendReturns, Running
  <2> QED  BY <2>1, UnderwayKept
<1>4. f = stack[t][1] /\ 1 \in 1..Len(stack[t])  BY <1>1, TopType DEF TypeOK
<1>5. c \in Conn /\ c \in sessions /\ Phases[c] = "listed"
  <2>1. c \in Conn  BY <1>1, WriteNew
  <2>2. c \in sessions \/ \E j \in 1..(1-1) : stack[t][j].op = "shut"
    BY <1>0, <1>1, <1>4 DEF SnapshotInv
  <2> QED  BY <2>1, <2>2, PhaseIs
<1>6. CASE f.call.what.kind = "chat"
  <2>1. /\ m \in Msg /\ m \in Underway /\ Carries(f, m) /\ sent[m] # None
        /\ f.call.to = sent[m].to
    BY <1>1, <1>6, TopCarries
  <2>2. c \in owed[m]  BY <1>1, <1>4, <2>1 DEF TakenInv
  <2>3. Sole(sent[m].to) => written[c][m] = 0
    BY <1>1, <1>5, <2>1, FirstWrite DEF Full
  <2>4. written' = [written EXCEPT ![c][m] = @ + 1] /\ bounced' = bounced  BY <1>0, <1>6
  <2> HIDE DEF f, m
  <2>5. Promised!Write(m, c)
    BY <1>1, <1>2, <1>3, <1>5, <2>1, <2>2, <2>3, <2>4
       DEF Promised!Write, Promised!Sole, Sole, Phases, Jids
  <2> QED  BY <1>5, <2>1, <2>5
<1>7. CASE f.call.what.kind = "error"
  <2>1. m \in Msg /\ Complains(f, m)
    <3>1. Sends(f) /\ CallOf(f) = f.call  BY <1>1 DEF Sends, CallOf
    <3>2. m \in Msg  BY <1>4, <1>7, <3>1 DEF KindInv
    <3> QED  BY <1>7, <3>1, <3>2 DEF Complains
  <2>2. /\ Blamed(f, m, JidOf(sent[m].from))
        /\ \E j \in 1..Len(stack[t]) : Carries(stack[t][j], m)
    BY <1>4, <2>1 DEF ComplaintInv
  <2>3. m \in Underway /\ sent[m] # None  BY <2>1, <2>2, UnderwayIs DEF CarrierInv, CarriedFor
  <2>4. sent[m].from \in Conn  BY <2>1, <2>3, SentTypes
  <2>5. /\ missed[m] # {} \/ Faulty # {}
        /\ StartsWith(JidOf(c), JidOf(sent[m].from))
    BY <1>1, <2>2 DEF Blamed
  <2>6. Promised!Addresses(Jids[sent[m].from], Jids[c])
    BY <1>5, <2>4, <2>5 DEF Promised!Addresses, StartsWith, Jids
  <2>7. bounced' = [bounced EXCEPT ![m] = @ \cup {c}] /\ written' = written  BY <1>0, <1>7
  <2> HIDE DEF f, m
  <2>8. Promised!Report(m, c)
    BY <1>1, <1>2, <1>3, <1>5, <2>3, <2>5, <2>6, <2>7 DEF Promised!Report, Phases, Jids
  <2> QED  BY <1>5, <2>1, <2>8
<1>8. CASE f.call.what.kind \notin {"chat", "error"}
  <2>1. UNCHANGED history  BY <1>0, <1>1, <1>8 DEF history
  <2> QED  BY <1>2, <1>3, <2>1, NoStep
<1> QED  BY <1>6, <1>7, <1>8

LEMMA FailureMisses ==
  ASSUME PromiseInv, TypeOK', NEW t \in Thread, Step(t), WriteFails(t)
  PROVE  \/ \E m \in Msg, c \in Conn : Promised!Miss(m, c)
         \/ UNCHANGED Promised!vars
<1> USE DEF PromiseInv, FollowInv, IInv, CascadeInv, RelayInv
<1> DEFINE f == Top(t)
           m == f.call.what.msg
<1>0. PICK c \in f.left :
        missed' = IF f.call.what.kind = "chat" THEN [missed EXCEPT ![m] = @ \cup {c}] ELSE missed
  BY DEF WriteFails
<1>1. /\ f.op = "writes" /\ stack[t] # <<>>
      /\ UNCHANGED <<sessions, who, res, sock, sent, owed, bounced, written>>
  BY DEF WriteFails, Running, table
<1>2. Phases' = Phases /\ Jids' = Jids  BY <1>1, JidsKept DEF Phases, PhaseOf
<1>3. Underway' = Underway
  <2>1. ~ SendReturns(t)  BY <1>1 DEF SendReturns, Running
  <2> QED  BY <2>1, UnderwayKept
<1>4. f = stack[t][1] /\ 1 \in 1..Len(stack[t])  BY <1>1, TopType DEF TypeOK
<1>5. CASE f.call.what.kind = "chat"
  <2>1. m \in Msg /\ m \in Underway /\ Carries(f, m)  BY <1>1, <1>5, TopCarries
  <2>2. c \in owed[m] /\ c \in Conn  BY <1>1, <1>4, <2>1 DEF TakenInv, TypeOK
  <2>3. missed' = [missed EXCEPT ![m] = @ \cup {c}]  BY <1>0, <1>5
  <2> HIDE DEF f, m
  <2>4. Promised!Miss(m, c)
    BY <1>1, <1>2, <1>3, <2>1, <2>2, <2>3 DEF Promised!Miss, Phases, Jids
  <2> QED  BY <2>1, <2>2, <2>4
<1>6. CASE f.call.what.kind # "chat"
  <2>1. UNCHANGED history  BY <1>0, <1>1, <1>6 DEF history
  <2> QED  BY <1>2, <1>3, <2>1, NoStep
<1> QED  BY <1>5, <1>6

\* When the last call that carries a message returns, nobody is left to serve.
LEMMA ReturnFinishes ==
  ASSUME PromiseInv, TypeOK', NEW t \in Thread, Step(t), NEW m \in Msg, LastOne(t, m)
  PROVE  Promised!Finish(m)
<1> USE DEF PromiseInv, FollowInv, IInv, CascadeInv, RelayInv
<1>0. Moved(t, New(t))  BY Moves
<1>1. /\ Top(t).op = "delivers" /\ Carries(Top(t), m) /\ Top(t) = stack[t][1]
      /\ 1 \in 1..Len(stack[t]) /\ Len(stack[t]) \in Nat
      /\ UNCHANGED <<sessions, who, res, sock, sent, owed, missed, bounced, written>>
  BY <1>0 DEF LastOne, SendReturns, Running, Moved, table, history
<1>2. Phases' = Phases /\ Jids' = Jids  BY <1>1, JidsKept DEF Phases, PhaseOf
<1>3. m \in Underway /\ sent[m] # None /\ t = SenderThread(m) /\ sent[m].from \in Conn
  <2>1. CarriedFor(t, stack[t][1], m)  BY <1>1 DEF CarrierInv
  <2>2. sent[m] # None /\ t = SenderThread(m)  BY <2>1 DEF CarriedFor
  <2> QED  BY <1>1, <2>2, UnderwayIs, SentTypes
<1>4. Underway' = Underway \ {m}
  <2>1. m \notin Underway'
    <3>1. SUFFICES ASSUME NEW u \in Thread, NEW i \in 1..Len(stack'[u]), Carries(stack'[u][i], m)
                   PROVE  FALSE
      BY UnderwayIs
    <3>2. CASE u # t
      <4>1. stack'[u] = stack[u]  BY <1>0, <3>2 DEF Moved
      <4>2. u = SenderThread(m)  BY <3>1, <4>1 DEF CarrierInv, CarriedFor
      <4> QED  BY <1>3, <3>2, <4>2
    <3>3. CASE u = t
      <4>1. New(t) = 0
        <5>1. Return(t, <<>>) /\ stack[t] # <<>>  BY DEF LastOne, SendReturns, Running
        <5> QED  BY <5>1, NoneNew
      <4>2. i > New(t)  BY <4>1
      <4>3. i - New(t) + 1 \in 2..Len(stack[t]) /\ stack'[t][i] = stack[t][i - New(t) + 1]
        BY <1>0, <3>3, <4>2 DEF Moved
      <4> QED  BY <3>1, <3>3, <4>3 DEF LastOne
    <3> QED  BY <3>2, <3>3
  <2>2. ASSUME NEW k \in Msg, k # m PROVE k \in Underway' <=> k \in Underway
    <3>1. ~ LastOne(t, k)  BY <1>1, <2>2 DEF LastOne, Carries
    <3> QED  BY <3>1, UnderwayStep
  <2>3. Underway \subseteq Msg /\ Underway' \subseteq Msg  BY DEF Underway
  <2> QED  BY <2>1, <2>2, <2>3
<1>5. \A i \in 1..Len(stack[t]) : stack[t][i].op \in {"delivers", "unlock"}
  <2>1. ASSUME NEW i \in 1..Len(stack[t]), i # 1 PROVE stack[t][i].op = "unlock"
    <3>1. i \in 2..Len(stack[t]) /\ 1 < i  BY <1>1, <2>1
    <3>2. ~ Carries(stack[t][i], m)  BY <3>1 DEF LastOne
    <3> QED  BY <1>1, <3>1, <3>2 DEF BelowInv
  <2> QED  BY <1>1, <2>1
<1>6. \A c \in Conn : sock[c] # "new" /\ c \notin sessions => Phases[c] = "gone"  BY PhaseIs
<1>7. ASSUME NEW c \in owed[m] PROVE written[c][m] > 0 \/ Phases[c] = "gone"
  <2>1. c \in Conn /\ sock[c] # "new"  BY <1>7 DEF OwedInv, TypeOK
  <2>2. ~ Awaits(stack[t], m, c)  BY <1>5 DEF Awaits, Serving
  <2>3. written[c][m] > 0 \/ c \notin sessions  BY <1>3, <1>7, <2>2 DEF OwedInv
  <2> QED  BY <1>6, <2>1, <2>3
<1>8. ASSUME NEW c \in missed[m] PROVE Phases[c] = "gone"
  <2>1. c \in owed[m]  BY <1>8 DEF TakenInv
  <2>2. c \in Conn /\ sock[c] # "new"  BY <2>1 DEF OwedInv, TypeOK
  <2>3. c \notin sessions  BY <1>3, <1>5, <1>8 DEF PurgedInv
  <2> QED  BY <1>6, <2>2, <2>3
<1>9. ASSUME NEW c \in missed[m], At(c) = At(sent[m].from)
      PROVE  sent[m].from \in bounced[m] \/ Phases[sent[m].from] = "gone"
  <2> DEFINE d == sent[m].from
  <2>1. ~ Reports(stack[t], m, d, JidOf(d))  BY <1>5 DEF Reports, Reporting
  <2>2. d \in bounced[m] \/ d \notin sessions  BY <1>3, <1>9, <2>1 DEF MissedInv
  <2>3. d \in Conn /\ sock[d] # "new"  BY <1>3 DEF SentInv
  <2> QED  BY <1>6, <2>2, <2>3
<1>10. missed[m] \subseteq Conn  BY DEF TypeOK
<1> QED
  BY <1>1, <1>2, <1>3, <1>4, <1>7, <1>8, <1>9, <1>10
  DEF Promised!Finish, Promised!Served, Promised!Informed, Phases, Jids

\* A step of a thread that writes nothing, takes nothing and removes nobody.
LEMMA PlainStepStutters ==
  ASSUME PromiseInv, TypeOK', NEW t \in Thread, Step(t), UNCHANGED history,
         ~ DestroySession(t), \A m \in Msg : ~ LastOne(t, m)
  PROVE  UNCHANGED Promised!vars
<1> USE DEF PromiseInv, FollowInv, IInv, CascadeInv, RelayInv
<1>1. Phases' = Phases  BY StepPhases
<1>2. Jids' = Jids  BY StepSessions, JidsKept
<1>3. Underway' = Underway
  <2>1. \A m \in Msg : m \in Underway' <=> m \in Underway  BY UnderwayStep
  <2>2. Underway \subseteq Msg /\ Underway' \subseteq Msg  BY DEF Underway
  <2> QED  BY <2>1, <2>2
<1> QED  BY <1>1, <1>2, <1>3, NoStep

\* The rest of the handlers, and the environment.
LEMMA OthersStutter ==
  ASSUME TypeOK, TypeOK', NEW c \in Conn,
         \/ Presence(c) \/ Unavailable(c) \/ StreamEnd(c) \/ EndOfFile(c) \/ PeerVanishes(c)
  PROVE  UNCHANGED Promised!vars
<1>1. UNCHANGED <<sessions, who, res, history>>
  BY DEF Presence, Unavailable, StreamEnd, EndOfFile, PeerVanishes, table
<1>2. \A d \in Conn : (sock'[d] = "new") <=> (sock[d] = "new")
  <2>1. \/ sock' = sock
        \/ sock[c] \in {"open", "broken"} /\ \E v \in {"broken", "closed"} :
                                               sock' = [sock EXCEPT ![c] = v]
    BY DEF Presence, Unavailable, StreamEnd, EndOfFile, PeerVanishes, table
  <2> QED  BY <2>1 DEF TypeOK
<1>3. Phases' = Phases /\ Jids' = Jids  BY <1>1, <1>2, PhasesKept, JidsKept
<1>4. Underway' = Underway
  <2>1. CASE PeerVanishes(c)
    <3>1. UNCHANGED stack  BY <2>1 DEF PeerVanishes
    <3> QED  BY <3>1, SameStacks
  <2>2. CASE ~ PeerVanishes(c)
    <3>1. Stanzas(c) /\ sent' = sent  BY <1>1, <2>2 DEF Stanzas, history
    <3> QED  BY <3>1, UnderwayStanza
  <2> QED  BY <2>1, <2>2
<1> QED  BY <1>1, <1>3, <1>4, NoStep

LEMMA Simulates ==
  PromiseInv /\ PromiseInv' /\ [Next]_vars => [Promised!Next]_(Promised!vars)
<1> SUFFICES ASSUME PromiseInv, PromiseInv', [Next]_vars
             PROVE  Promised!Next \/ UNCHANGED Promised!vars
  OBVIOUS
<1>a. TypeOK /\ TypeOK' /\ PlaceInv /\ CascadeInv /\ ListedInv /\ CarrierInv /\ KindInv
  BY DEF PromiseInv, FollowInv, IInv, CascadeInv, RelayInv
<1>p. {[d \in Conn |-> At(d)][c] : c \in Conn} = {At(c) : c \in Conn}  OBVIOUS
<1>1. ASSUME NEW t \in Thread, Step(t) PROVE Promised!Next \/ UNCHANGED Promised!vars
  <2>1. CASE DestroySession(t)  BY <1>1, <1>a, <2>1, DestroyLeaves DEF Promised!Next
  <2>2. CASE GetOutChannels(t)
    <3>1. (\E m \in Msg, s \in {At(c) : c \in Conn} : Promised!Take(m, s))
            \/ UNCHANGED Promised!vars
      BY <1>1, <1>a, <2>2, SendTakes
    <3>2. ASSUME NEW m \in Msg, NEW s \in {At(c) : c \in Conn}, Promised!Take(m, s)
          PROVE  Promised!Next
      BY <1>p, <3>2 DEF Promised!Next
    <3> QED  BY <3>1, <3>2
  <2>3. CASE Write(t)  BY <1>1, <1>a, <2>3, WriteWrites DEF Promised!Next
  <2>4. CASE WriteFails(t)  BY <1>1, <1>a, <2>4, FailureMisses DEF Promised!Next
  <2>5. ASSUME NEW m \in Msg, LastOne(t, m) PROVE Promised!Next
    BY <1>1, <1>a, <2>5, ReturnFinishes DEF Promised!Next
  <2>6. CASE /\ ~ DestroySession(t) /\ ~ GetOutChannels(t) /\ ~ Write(t) /\ ~ WriteFails(t)
             /\ \A m \in Msg : ~ LastOne(t, m)
    <3>1. UNCHANGED history
      BY <1>1, <2>6 DEF Step, EnterMonitor, LeaveMonitor, GetForeignChannels, Deliver,
         DeliverFails, SendReturns, TellFriend, AllTold, CloseChannel, Probe, Broadcast, LoopEnds
    <3> QED  BY <1>1, <1>a, <2>6, <3>1, PlainStepStutters
  <2> QED  BY <2>1, <2>2, <2>3, <2>4, <2>5, <2>6
<1>2. ASSUME NEW c \in Conn, Stanzas(c) PROVE Promised!Next \/ UNCHANGED Promised!vars
  <2>1. CASE Accept(c)  BY <1>a, <2>1, AcceptEnters DEF Promised!Next
  <2>2. CASE Login(c) \/ Bind(c)  BY <1>a, <2>2, NameNames DEF Promised!Next
  <2>3. CASE Presence(c) \/ Unavailable(c) \/ StreamEnd(c) \/ EndOfFile(c)
    BY <1>a, <2>3, OthersStutter
  <2>4. ASSUME NEW m \in Msg, NEW to \in Targets, Message(c, m, to) PROVE Promised!Next
    <3>1. to \in [user : User, res : Resource \cup {None}]  BY TargetAssumption
    <3>2. Promised!Send(m, c, to)  BY <1>a, <2>4, MessageSends
    <3> QED  BY <3>1, <3>2 DEF Promised!Next
  <2> QED  BY <1>2, <2>1, <2>2, <2>3, <2>4 DEF Stanzas
<1>3. ASSUME NEW c \in Conn, PeerVanishes(c) PROVE UNCHANGED Promised!vars
  BY <1>3, <1>a, OthersStutter
<1>4. CASE UNCHANGED <<sessions, who, res, sock, stack, history>>
  <2>1. Phases' = Phases /\ Jids' = Jids /\ Underway' = Underway
    BY <1>4, JidsKept, SameStacks DEF Phases, PhaseOf
  <2> QED  BY <1>4, <2>1, NoStep
<1>5. ASSUME NEW s \in Server, UpdateSessions(s)
      PROVE  UNCHANGED <<sessions, who, res, sock, stack, history>>
  BY <1>5 DEF UpdateSessions, table
<1>6. CASE UNCHANGED vars  BY <1>4, <1>6 DEF vars, history
<1> QED  BY <1>1, <1>2, <1>3, <1>4, <1>5, <1>6 DEF Next

LEMMA PromiseHolds == Spec => []PromiseInv
<1> QED  BY PromiseInit, PromiseStep, PTL DEF Spec

\* Together the servers do for every message what Delivery promises and no
\* more, in every order of their threads and calls: a message is written to
\* listed sessions it is addressed to and while it is under way, an error goes
\* to its sender and has a cause, and the last call for it returns when no
\* listed session is left that missed it or was not served (send,
\* closeSession, destroySession, PingBack.deliver).
THEOREM DeliversAsPromised == Spec => Delivered
<1>1. Init => Promised!Init
  <2> SUFFICES ASSUME Init PROVE Promised!Init  OBVIOUS
  <2>1. Phases = [c \in Conn |-> "new"]  BY DEF Init, Phases, PhaseOf
  <2>2. Jids = [c \in Conn |-> [user |-> None, res |-> None]]  BY DEF Init, Jids, JidOf
  <2>3. Underway = {}  BY DEF Init, Underway
  <2> QED  BY <2>1, <2>2, <2>3 DEF Init, Promised!Init, Phases, Jids
<1>2. PromiseInv /\ PromiseInv' /\ [Next]_vars => [Promised!Next]_(Promised!vars)
  BY Simulates
<1> QED  BY <1>1, <1>2, PromiseHolds, PTL DEF Spec, Delivered, Promised!Spec

-----------------------------------------------------------------------------
(* Who holds a monitor waits for another one only in deliver.              *)

\* f is the call of another server that g waits for.
Abroad(f, g) == f.op = "sync" /\ f.body.op = "send" /\ g.op = "delivers" /\ f.at # g.at

\* The owner of a monitor is in a call that gives it back.
OwnerInv ==
  \A s \in Server : lock[s] # None =>
    \E i \in 1..Len(stack[lock[s]]) : stack[lock[s]][i] = UnlockFrame(s)

\* No server has itself among those it delivers to, and a call that has still
\* to take its monitor, above one that has its own, was made by deliver.
AbroadInv ==
  /\ \A s \in Server : \A r \in remote[s] : r.at # s
  /\ \A t \in Thread : \A i \in 1..Len(stack[t]) :
       stack[t][i].op = "delivers" => \A r \in stack[t][i].left : r.at # stack[t][i].at
  /\ \A t \in Thread : \A i, j \in 1..Len(stack[t]) :
       i < j /\ ~ IsInside(stack[t][i]) /\ IsInside(stack[t][j])
         => Abroad(stack[t][i], stack[t][i + 1])

\* The steps that give rise to a frame that is outside or to a delivery.
OnGoes(f, g) ==
  /\ IsInside(g)
  /\ g.op = "delivers" =>
       /\ g.at = f.at
       /\ \/ f.op = "writes" /\ g.left \subseteq remote[f.at]
          \/ f.op = "delivers" /\ g.left \subseteq f.left
Asks(t, f, k) ==
  /\ f.op = "delivers" /\ k = 1 /\ New(t) = 2
  /\ \E r \in f.left : stack'[t][1].at = r.at
  /\ stack'[t][1].op = "sync" /\ stack'[t][1].body.op = "send"
  /\ stack'[t][2].op = "delivers" /\ stack'[t][2].at = f.at

LEMMA OutsideNew ==
  ASSUME TypeOK, PlaceInv, NEW t \in Thread, Step(t), NEW k \in 1..New(t)
  PROVE  \/ OnGoes(Top(t), stack'[t][k])
         \/ Asks(t, Top(t), k)
         \/ Top(t).op \in {"probe", "broadcast"} /\ ~ IsInside(stack'[t][k])
<1> DEFINE f == Top(t)
           g == stack'[t][k]
<1> SUFFICES OnGoes(f, g) \/ Asks(t, f, k) \/ (f.op \in {"probe", "broadcast"} /\ ~ IsInside(g))
  OBVIOUS
<1>0. stack[t] # <<>> /\ f \in Frame /\ f = stack[t][1] /\ 1 \in 1..Len(stack[t])
  BY Moves DEF Moved
<1>i. \A h : h.op \notin {"sync", "broadcast", "probe", "delivers"} => OnGoes(f, h)
  BY DEF OnGoes, IsInside
<1>w. \A s, call, left : WritesFrame(s, call, left).op = "writes"  BY DEF WritesFrame
<1>e. ErrorFrame(f).op = "send"  BY DEF ErrorFrame, SendFrame
<1>1. CASE EnterMonitor(t)
  <2>1. /\ f.body.op \in {"send", "destroy"}
        /\ New(t) = 2 /\ stack'[t][1] = f.body /\ stack'[t][2] = UnlockFrame(f.at)
    BY <1>1, EnterNew
  <2>2. UnlockFrame(f.at).op = "unlock"  BY DEF UnlockFrame
  <2>3. k = 1 \/ k = 2  BY <2>1
  <2> HIDE DEF f
  <2> QED  BY <1>i, <2>1, <2>2, <2>3
<1>2. CASE GetOutChannels(t)
  <2>1. New(t) = 1 /\ stack'[t][1].op = "writes"  BY <1>2, <1>w, GetOutChannelsNew
  <2>2. k = 1  BY <2>1
  <2> QED  BY <1>i, <2>1, <2>2
<1>3. CASE Write(t)
  <2>a. /\ New(t) = 1
        /\ \E c \in f.left : stack'[t][1] = WritesFrame(f.at, f.call, f.left \ {c})
    BY <1>3, WriteNew
  <2>1. New(t) = 1 /\ stack'[t][1].op = "writes"  BY <1>w, <2>a
  <2>2. k = 1  BY <2>1
  <2> QED  BY <1>i, <2>1, <2>2
<1>4. CASE WriteFails(t)
  <2>1. PICK c \in f.left :
          /\ stack'[t][New(t)] = WritesFrame(f.at, f.call, f.left \ {c})
          /\ \A i \in 1..(New(t)-1) :
               \/ c \in sessions /\ stack'[t][i] = DestroyFrame(c)
               \/ f.call.notify /\ stack'[t][i] = ErrorFrame(f)
    BY <1>4, WriteFailsNew
  <2>2. New(t) \in Nat /\ New(t) >= 1  BY <1>4, WriteFailsNew
  <2>3. DestroyFrame(c).op = "destroy"  BY DEF DestroyFrame
  <2>4. k = New(t) \/ k \in 1..(New(t)-1)  BY <2>2
  <2>5. g.op \in {"writes", "destroy", "send"}  BY <1>w, <1>e, <2>1, <2>3, <2>4
  <2> HIDE DEF g
  <2> QED  BY <1>i, <2>5
<1>5. CASE GetForeignChannels(t)
  <2> DEFINE R == {r \in remote[f.at] : StartsWith(r.jid, f.call.to)}
             a == DeliversFrame(f.at, f.call, R)
  <2>1. f.op = "writes" /\ New(t) = 1 /\ stack'[t][1] = a  BY <1>5, GetForeignChannelsNew
  <2>2. g = a  BY <2>1
  <2> HIDE DEF f, g
  <2>3. a.op = "delivers" /\ a.at = f.at /\ a.left = R  BY DEF DeliversFrame
  <2> HIDE DEF a
  <2> QED  BY <2>1, <2>2, <2>3 DEF OnGoes, IsInside
<1>6. CASE Deliver(t)
  <2>1. PICK r \in f.left :
          /\ stack'[t][1] = SyncFrame(SendFrame(r.at, f.call.to, f.call.what, FALSE))
          /\ stack'[t][2] = DeliversFrame(f.at, f.call, f.left \ {r})
    BY <1>6, DeliverNew
  <2> DEFINE a == SyncFrame(SendFrame(r.at, f.call.to, f.call.what, FALSE))
             b == DeliversFrame(f.at, f.call, f.left \ {r})
  <2>2. f.op = "delivers" /\ New(t) = 2  BY <1>6, DeliverNew
  <2>3. k = 1 \/ (k = 2 /\ g = b)
    <3>1. k = 1 \/ k = 2  BY <2>2
    <3> QED  BY <2>1, <3>1
  <2>4. stack'[t][1] = a /\ stack'[t][2] = b  BY <2>1
  <2> HIDE DEF f, g
  <2>5. /\ a.op = "sync" /\ a.at = r.at /\ a.body.op = "send"
        /\ b.op = "delivers" /\ b.at = f.at /\ b.left \subseteq f.left
    BY DEF SyncFrame, SendFrame, DeliversFrame
  <2> HIDE DEF a, b
  <2> QED  BY <2>1, <2>2, <2>3, <2>4, <2>5 DEF OnGoes, IsInside, Asks
<1>7. CASE DeliverFails(t)
  <2>1. PICK r \in f.left : stack'[t][New(t)] = DeliversFrame(f.at, f.call, f.left \ {r})
    BY <1>7, DeliverFailsNew
  <2> DEFINE a == DeliversFrame(f.at, f.call, f.left \ {r})
  <2>2. /\ f.op = "delivers" /\ New(t) \in Nat /\ New(t) >= 1
        /\ \A i \in 1..(New(t)-1) : stack'[t][i] = ErrorFrame(f)
    BY <1>7, DeliverFailsNew
  <2>3. k = New(t) \/ k \in 1..(New(t)-1)  BY <2>2
  <2>4. CASE k = New(t)
    <3>1. g = a  BY <2>1, <2>4
    <3> HIDE DEF f, g
    <3>2. a.op = "delivers" /\ a.at = f.at /\ a.left \subseteq f.left  BY DEF DeliversFrame
    <3> HIDE DEF a
    <3> QED  BY <2>2, <3>1, <3>2 DEF OnGoes, IsInside
  <2>5. CASE k \in 1..(New(t)-1)
    <3>1. g.op = "send"  BY <1>e, <2>2, <2>5
    <3> HIDE DEF g
    <3> QED  BY <1>i, <3>1
  <2> QED  BY <2>3, <2>4, <2>5
<1>8. CASE DestroySession(t)
  <2>1. New(t) = 2 /\ stack'[t][1].op = "tell" /\ stack'[t][2] = ShutFrame(f.conn)
    BY <1>8, DestroySessionNew
  <2>2. ShutFrame(f.conn).op = "shut"  BY DEF ShutFrame
  <2>3. k = 1 \/ k = 2  BY <2>1
  <2>4. g.op \in {"tell", "shut"}  BY <2>1, <2>2, <2>3
  <2> HIDE DEF g
  <2> QED  BY <1>i, <2>4
<1>9. CASE TellFriend(t)
  <2>1. PICK u \in f.left : Return(t, <<SendFrame(f.at, Bare(u), f.what, FALSE),
                                        TellFrame(f.at, f.what, f.left \ {u})>>)
    BY <1>9 DEF TellFriend
  <2> DEFINE a == SendFrame(f.at, Bare(u), f.what, FALSE)
             b == TellFrame(f.at, f.what, f.left \ {u})
  <2>2. a.op = "send" /\ b.op = "tell"  BY DEF SendFrame, TellFrame
  <2>3. Return(t, <<a, b>>)  BY <2>1
  <2> HIDE DEF a, b
  <2>4. New(t) = 2 /\ stack'[t][1] = a /\ stack'[t][2] = b  BY <1>0, <2>3, TwoNew
  <2>5. k = 1 \/ k = 2  BY <2>4
  <2>6. g.op \in {"send", "tell"}  BY <2>2, <2>4, <2>5
  <2> HIDE DEF g
  <2> QED  BY <1>i, <2>6
<1>10. CASE Probe(t) \/ Broadcast(t)
  <2>1. f.op \in {"probe", "broadcast"}  BY <1>10 DEF Probe, Broadcast, Running
  <2>2. ~ EnterMonitor(t)  BY <2>1 DEF EnterMonitor, Running
  <2>3. PICK fs \in Seq(Frame) : Return(t, fs) /\ AllContinue(f, fs)  BY <2>2, StepFrames
  <2>4. New(t) = Len(fs) /\ \A i \in 1..Len(fs) : stack'[t][i] = fs[i]  BY <1>0, <2>3, SomeNew
  <2>5. Continues(f, g)  BY <2>3, <2>4 DEF AllContinue
  <2>6. InPlace(f)  BY <1>0 DEF PlaceInv
  <2> QED  BY <2>1, <2>5, <2>6 DEF Continues, IsInside
<1>11. CASE \/ LeaveMonitor(t) \/ SendReturns(t) \/ AllTold(t) \/ CloseChannel(t) \/ LoopEnds(t)
  <2>1. Return(t, <<>>)
    BY <1>11 DEF LeaveMonitor, SendReturns, AllTold, CloseChannel, LoopEnds
  <2>2. New(t) = 0  BY <1>0, <2>1, NoneNew
  <2> QED  BY <2>2
<1> QED
  BY <1>1, <1>2, <1>3, <1>4, <1>5, <1>6, <1>7, <1>8, <1>9, <1>10, <1>11, LoudStep

LEMMA LoopNew ==
  ASSUME TypeOK, PlaceInv, NEW t \in Thread, Step(t), Top(t).op \in {"probe", "broadcast"}
  PROVE  ~ IsInside(Top(t)) /\ \A k \in 1..New(t) : ~ IsInside(stack'[t][k])
<1> DEFINE f == Top(t)
<1>0. stack[t] # <<>> /\ f = stack[t][1] /\ 1 \in 1..Len(stack[t])  BY Moves DEF Moved
<1>1. ~ EnterMonitor(t)  BY DEF EnterMonitor, Running
<1>2. PICK fs \in Seq(Frame) : Return(t, fs) /\ AllContinue(f, fs)  BY <1>1, StepFrames
<1>3. New(t) = Len(fs) /\ \A i \in 1..Len(fs) : stack'[t][i] = fs[i]  BY <1>0, <1>2, SomeNew
<1>4. InPlace(f)  BY <1>0 DEF PlaceInv
<1>5. ~ IsInside(f)  BY DEF IsInside
<1>6. ASSUME NEW k \in 1..New(t) PROVE ~ IsInside(stack'[t][k])
  <2>1. Continues(f, stack'[t][k])  BY <1>2, <1>3 DEF AllContinue
  <2> HIDE DEF f
  <2> QED  BY <1>4, <1>5, <2>1 DEF Continues
<1> QED  BY <1>5, <1>6

\* Only its own return removes the frame that gives a monitor back.
LEMMA UnlockKept ==
  ASSUME TypeOK, NEW t \in Thread, Step(t), NEW u \in Thread, NEW s \in Server,
         NEW i \in 1..Len(stack[u]), stack[u][i] = UnlockFrame(s), ~ (u = t /\ i = 1)
  PROVE  \E k \in 1..Len(stack'[u]) : stack'[u][k] = UnlockFrame(s)
<1> DEFINE n == New(t)
<1>0. Moved(t, n)  BY Moves
<1> HIDE DEF n
<1>1. CASE u # t  BY <1>0, <1>1 DEF Moved
<1>2. CASE u = t
  <2>1. n \in Nat /\ i \in 2..Len(stack[t])  BY <1>0, <1>2 DEF Moved
  <2>2. i + n - 1 \in (n+1)..Len(stack'[t]) /\ stack'[t][i + n - 1] = stack[t][i]
    BY <1>0, <2>1 DEF Moved
  <2>3. i + n - 1 \in 1..Len(stack'[t])  BY <1>0, <2>1, <2>2 DEF Moved
  <2> QED  BY <1>2, <2>2, <2>3
<1> QED  BY <1>1, <1>2

LEMMA OwnerStep ==
  ASSUME TypeOK, PlaceInv, OwnerInv, [Next]_vars
  PROVE  OwnerInv'
<1>a. \A s : UnlockFrame(s).op = "unlock" /\ UnlockFrame(s).at = s  BY DEF UnlockFrame
<1>b. None \notin Thread  BY ClientAssumption
<1>c. ASSUME \A s \in Server : lock'[s] # None =>
               \E i \in 1..Len(stack'[lock'[s]]) : stack'[lock'[s]][i] = UnlockFrame(s)
      PROVE  OwnerInv'
  BY <1>c DEF OwnerInv, UnlockFrame
<1>1. ASSUME NEW t \in Thread, Step(t), NEW s \in Server, lock'[s] # None
      PROVE  \E i \in 1..Len(stack'[lock'[s]]) : stack'[lock'[s]][i] = UnlockFrame(s)
  <2>0. Moved(t, New(t))  BY <1>1, Moves
  <2>f. Top(t) = stack[t][1]  BY <2>0 DEF Moved
  <2>k. ASSUME lock'[s] = lock[s], Top(t) # UnlockFrame(s)
        PROVE  \E i \in 1..Len(stack'[lock'[s]]) : stack'[lock'[s]][i] = UnlockFrame(s)
    <3>1. lock[s] # None /\ lock[s] \in Thread  BY <1>1, <2>k DEF TypeOK
    <3>2. PICK i \in 1..Len(stack[lock[s]]) : stack[lock[s]][i] = UnlockFrame(s)
      BY <3>1 DEF OwnerInv
    <3>3. ~ (lock[s] = t /\ i = 1)  BY <2>f, <2>k, <3>2
    <3> QED  BY <1>1, <2>k, <3>1, <3>2, <3>3, UnlockKept
  <2>1. CASE EnterMonitor(t)
    <3>1. /\ Top(t).op = "sync" /\ New(t) = 2 /\ stack'[t][2] = UnlockFrame(Top(t).at)
          /\ lock' = [lock EXCEPT ![Top(t).at] = t]
      BY <2>1, EnterNew DEF EnterMonitor
    <3>2. CASE s = Top(t).at
      <4>1. lock'[s] = t  BY <3>1, <3>2 DEF TypeOK
      <4>2. 2 \in 1..Len(stack'[t])  BY <2>0, <3>1 DEF Moved
      <4> QED  BY <3>1, <3>2, <4>1, <4>2
    <3>3. CASE s # Top(t).at
      <4>1. lock'[s] = lock[s]  BY <3>1, <3>3 DEF TypeOK
      <4>2. Top(t) # UnlockFrame(s)  BY <1>a, <3>1
      <4> QED  BY <2>k, <4>1, <4>2
    <3> QED  BY <3>2, <3>3
  <2>2. CASE LeaveMonitor(t)
    <3>1. lock' = [lock EXCEPT ![Top(t).at] = None]  BY <2>2 DEF LeaveMonitor
    <3>2. s # Top(t).at  BY <1>1, <3>1 DEF TypeOK
    <3>3. lock'[s] = lock[s]  BY <3>1, <3>2 DEF TypeOK
    <3>4. Top(t) # UnlockFrame(s)  BY <1>a, <3>2
    <3> QED  BY <2>k, <3>3, <3>4
  <2>3. CASE ~ EnterMonitor(t) /\ ~ LeaveMonitor(t)
    <3>1. lock' = lock  BY <1>1, <2>3, InsideStep
    <3>2. Top(t).op # "unlock"
      BY <1>1, <2>3 DEF Step, Running, GetOutChannels, Write, WriteFails, GetForeignChannels,
           Deliver, DeliverFails, SendReturns, DestroySession, TellFriend, AllTold,
           CloseChannel, Probe, Broadcast, LoopEnds
    <3>3. Top(t) # UnlockFrame(s)  BY <1>a, <3>2
    <3> QED  BY <2>k, <3>1, <3>3
  <2> QED  BY <2>1, <2>2, <2>3
<1>2. ASSUME NEW c \in Conn, Stanzas(c) PROVE OwnerInv'
  <2>1. lock' = lock
    BY <1>2 DEF Stanzas, Accept, Login, Bind, Presence, Unavailable, StreamEnd, EndOfFile, Message
  <2>2. CASE UNCHANGED stack  BY <2>1, <2>2 DEF OwnerInv, UnlockFrame
  <2>3. ASSUME NEW fs, StartFrames(fs), Start(c, fs), stack[Client[c].thread] = <<>>
        PROVE  OwnerInv'
    <3>1. \A u \in Thread : u # Client[c].thread => stack'[u] = stack[u]  BY <2>3, Started
    <3>2. ASSUME NEW s \in Server, lock'[s] # None
          PROVE  \E i \in 1..Len(stack'[lock'[s]]) : stack'[lock'[s]][i] = UnlockFrame(s)
      <4>1. lock[s] # None /\ lock[s] \in Thread  BY <2>1, <3>2 DEF TypeOK
      <4>2. PICK i \in 1..Len(stack[lock[s]]) : stack[lock[s]][i] = UnlockFrame(s)
        BY <4>1 DEF OwnerInv
      <4>3. lock[s] # Client[c].thread  BY <2>3, <4>2
      <4> QED  BY <2>1, <3>1, <4>1, <4>2, <4>3
    <3> QED  BY <1>c, <3>2
  <2> QED  BY <1>2, <2>2, <2>3, StanzaStep
<1>3. CASE UNCHANGED <<lock, stack>>  BY <1>3 DEF OwnerInv, UnlockFrame
<1>4. ASSUME NEW t \in Thread, Step(t) PROVE OwnerInv'  BY <1>1, <1>4, <1>c
<1> QED
  BY <1>2, <1>3, <1>4 DEF Next, vars, PeerVanishes, UpdateSessions

\* The first and the second conjunct of AbroadInv: a server does not deliver to itself.
LEMMA ElsewhereStep ==
  ASSUME TypeOK, PlaceInv, AbroadInv, [Next]_vars
  PROVE  /\ \A s \in Server : \A r \in remote'[s] : r.at # s
         /\ \A t \in Thread : \A i \in 1..Len(stack'[t]) :
              stack'[t][i].op = "delivers" => \A r \in stack'[t][i].left : r.at # stack'[t][i].at
<1>a. \A s \in Server : \A r \in remote[s] : r.at # s  BY DEF AbroadInv
<1>b. \A t \in Thread : \A i \in 1..Len(stack[t]) :
        stack[t][i].op = "delivers" => \A r \in stack[t][i].left : r.at # stack[t][i].at
  BY DEF AbroadInv
<1>1. ASSUME NEW s \in Server, NEW r \in remote'[s] PROVE r.at # s
  <2>1. CASE remote' = remote  BY <1>a, <1>1, <2>1
  <2>2. ASSUME NEW u \in Server, UpdateSessions(u) PROVE r.at # s
    <3>1. CASE u # s
      <4>1. remote'[s] = remote[s]  BY <2>2, <3>1 DEF UpdateSessions, TypeOK
      <4> QED  BY <1>a, <1>1, <4>1
    <3>2. CASE u = s
      <4>1. r \in Exports(s)  BY <1>1, <2>2, <3>2 DEF UpdateSessions, TypeOK
      <4>2. PICK d \in sessions : At(d) # s /\ r = [jid |-> JidOf(d), at |-> At(d)]
        BY <4>1 DEF Exports
      <4> QED  BY <4>2
    <3> QED  BY <3>1, <3>2
  <2>3. ASSUME NEW t \in Thread, Step(t) PROVE remote' = remote
    BY <2>3 DEF Step, EnterMonitor, LeaveMonitor, GetOutChannels, Write, WriteFails,
         GetForeignChannels, Deliver, DeliverFails, SendReturns, DestroySession, TellFriend,
         AllTold, CloseChannel, Probe, Broadcast, LoopEnds
  <2>4. ASSUME NEW c \in Conn, Stanzas(c) \/ PeerVanishes(c) PROVE remote' = remote
    BY <2>4 DEF Stanzas, Accept, Login, Bind, Presence, Unavailable, StreamEnd, EndOfFile,
         Message, PeerVanishes
  <2> QED  BY <2>1, <2>2, <2>3, <2>4 DEF Next, vars
<1>2. ASSUME NEW u \in Thread, NEW i \in 1..Len(stack'[u]), stack'[u][i].op = "delivers",
             NEW r \in stack'[u][i].left
      PROVE  r.at # stack'[u][i].at
  <2>1. ASSUME NEW t \in Thread, Step(t) PROVE r.at # stack'[u][i].at
    <3> DEFINE n == New(t)
               f == Top(t)
    <3>0. Moved(t, n)  BY <2>1, Moves
    <3>1. CASE u # t  BY <1>b, <1>2, <3>0, <3>1 DEF Moved
    <3>2. CASE u = t /\ i > n
      <4>1. i - n + 1 \in 1..Len(stack[t]) /\ stack'[t][i] = stack[t][i - n + 1]
        BY <3>0, <3>2 DEF Moved
      <4> QED  BY <1>b, <1>2, <3>2, <4>1
    <3>3. CASE u = t /\ i <= n
      <4>1. i \in 1..n  BY <3>0, <3>3 DEF Moved
      <4>2. f = stack[t][1] /\ 1 \in 1..Len(stack[t]) /\ f \in Frame  BY <3>0 DEF Moved
      <4>3. \/ OnGoes(f, stack'[t][i])
            \/ Asks(t, f, i)
            \/ f.op \in {"probe", "broadcast"} /\ ~ IsInside(stack'[t][i])
        BY <2>1, <4>1, OutsideNew
      <4>4. CASE OnGoes(f, stack'[t][i])
        <5> DEFINE g == stack'[t][i]
        <5>1. g.op = "delivers" /\ r \in g.left  BY <1>2, <3>3
        <5>2. \A q \in f.left : f.op = "delivers" => q.at # f.at  BY <1>b, <4>2
        <5>3. f.at \in Server  BY <4>2, FrameFields
        <5>4. \A q \in remote[f.at] : q.at # f.at  BY <1>a, <5>3
        <5> HIDE DEF g, f
        <5>5. /\ g.at = f.at
              /\ \/ f.op = "writes" /\ g.left \subseteq remote[f.at]
                 \/ f.op = "delivers" /\ g.left \subseteq f.left
          BY <4>4, <5>1 DEF OnGoes, g
        <5>6. r.at # g.at  BY <5>1, <5>2, <5>4, <5>5
        <5> QED  BY <3>3, <5>6 DEF g
      <4>5. CASE Asks(t, f, i)  BY <1>2, <3>3, <4>5 DEF Asks
      <4>6. CASE ~ IsInside(stack'[t][i])  BY <1>2, <3>3, <4>6 DEF IsInside
      <4> QED  BY <4>3, <4>4, <4>5, <4>6
    <3>4. n \in Nat /\ (i <= n \/ i > n)  BY <3>0 DEF Moved
    <3> QED  BY <3>1, <3>2, <3>3, <3>4
  <2>2. ASSUME NEW c \in Conn, Stanzas(c) PROVE r.at # stack'[u][i].at
    <3>1. CASE UNCHANGED stack  BY <1>b, <1>2, <3>1
    <3>2. ASSUME NEW fs, StartFrames(fs), Start(c, fs) PROVE r.at # stack'[u][i].at
      <4>1. CASE u # Client[c].thread  BY <1>b, <1>2, <3>2, <4>1, Started
      <4>2. CASE u = Client[c].thread
        <5>1. ~ IsInside(stack'[u][i])  BY <3>2, <4>2, Started
        <5> QED  BY <1>2, <5>1 DEF IsInside
      <4> QED  BY <4>1, <4>2
    <3> QED  BY <2>2, <3>1, <3>2, StanzaStep
  <2>3. CASE UNCHANGED stack  BY <1>b, <1>2, <2>3
  <2> QED  BY <2>1, <2>2, <2>3 DEF Next, vars, PeerVanishes, UpdateSessions
<1> QED  BY <1>1, <1>2

LEMMA AbroadStep ==
  ASSUME TypeOK, PlaceInv, AbroadInv, [Next]_vars
  PROVE  AbroadInv'
<1>b. \A t \in Thread : \A i \in 1..Len(stack[t]) :
        stack[t][i].op = "delivers" => \A r \in stack[t][i].left : r.at # stack[t][i].at
  BY DEF AbroadInv
<1>c. \A t \in Thread : \A i, j \in 1..Len(stack[t]) :
        i < j /\ ~ IsInside(stack[t][i]) /\ IsInside(stack[t][j])
          => Abroad(stack[t][i], stack[t][i + 1])
  BY DEF AbroadInv
<1>1. ASSUME NEW u \in Thread, NEW i \in 1..Len(stack'[u]), NEW j \in 1..Len(stack'[u]),
             i < j, ~ IsInside(stack'[u][i]), IsInside(stack'[u][j])
      PROVE  Abroad(stack'[u][i], stack'[u][i + 1])
  <2>1. ASSUME NEW t \in Thread, Step(t) PROVE Abroad(stack'[u][i], stack'[u][i + 1])
    <3> DEFINE n == New(t)
               f == Top(t)
    <3>0. Moved(t, n)  BY <2>1, Moves
    <3>t. n \in Nat /\ Len(stack[t]) \in Nat /\ Len(stack'[t]) \in Nat  BY <3>0 DEF Moved
    <3>f. f = stack[t][1] /\ 1 \in 1..Len(stack[t])  BY <3>0 DEF Moved
    <3> HIDE DEF n
    <3>1. CASE u # t  BY <1>c, <1>1, <3>0, <3>1 DEF Moved
    <3>2. CASE u = t /\ i > n
      <4> DEFINE p == i - n + 1
                 q == j - n + 1
      <4>j. j > n  BY <1>1, <3>2, <3>t
      <4>a. p \in 2..Len(stack[t]) /\ stack'[t][i] = stack[t][p]
        BY <1>1, <3>0, <3>2 DEF Moved
      <4>b. q \in 2..Len(stack[t]) /\ stack'[t][j] = stack[t][q]
        BY <1>1, <3>0, <3>2, <4>j DEF Moved
      <4>c. p < q  BY <1>1, <3>t
      <4>1. /\ p \in 1..Len(stack[t]) /\ stack'[t][i] = stack[t][p]
            /\ q \in 1..Len(stack[t]) /\ stack'[t][j] = stack[t][q] /\ p < q
        <5> HIDE DEF p, q
        <5> QED  BY <3>t, <4>a, <4>b, <4>c
      <4>2. stack'[t][i + 1] = stack[t][p + 1]
        <5>1. i + 1 \in 1..Len(stack'[t]) /\ i + 1 > n /\ (i + 1) - n + 1 = p + 1
          BY <1>1, <3>2, <3>t
        <5> HIDE DEF p
        <5> QED  BY <3>0, <5>1 DEF Moved
      <4> HIDE DEF p, q
      <4>3. Abroad(stack[t][p], stack[t][p + 1])  BY <1>c, <1>1, <3>2, <4>1
      <4> QED  BY <3>2, <4>1, <4>2, <4>3
    <3>3. CASE u = t /\ i <= n
      <4>1. i \in 1..n  BY <3>3, <3>t
      <4>2. \/ OnGoes(f, stack'[t][i])
            \/ Asks(t, f, i)
            \/ f.op \in {"probe", "broadcast"} /\ ~ IsInside(stack'[t][i])
        BY <2>1, <4>1, OutsideNew DEF n
      <4>3. ~ OnGoes(f, stack'[t][i])  BY <1>1, <3>3 DEF OnGoes
      <4>4. CASE Asks(t, f, i)
        <5> DEFINE a == stack'[t][1]
                   b == stack'[t][2]
        <5>1. \A r \in f.left : f.op = "delivers" => r.at # f.at  BY <1>b, <3>f
        <5> HIDE DEF f
        <5>2. i = 1 /\ Abroad(a, b)  BY <4>4, <5>1 DEF Asks, Abroad
        <5> QED  BY <3>3, <5>2
      <4>5. CASE f.op \in {"probe", "broadcast"}
        <5>1. ~ IsInside(f) /\ \A k \in 1..n : ~ IsInside(stack'[t][k])
          BY <2>1, <4>5, LoopNew DEF n
        <5>2. j > n  BY <1>1, <3>3, <3>t, <5>1
        <5> DEFINE q == j - n + 1
        <5>3. q \in 2..Len(stack[t]) /\ stack'[t][j] = stack[t][q]
          BY <3>0, <3>3, <5>2 DEF Moved
        <5> HIDE DEF q
        <5>4. q \in 1..Len(stack[t]) /\ 1 < q  BY <5>3, <3>t
        <5>5. IsInside(stack[t][q]) /\ ~ IsInside(stack[t][1])  BY <1>1, <3>3, <3>f, <5>1, <5>3
        <5>6. Abroad(stack[t][1], stack[t][1 + 1])  BY <1>c, <3>f, <5>4, <5>5
        <5>7. f.op = "sync"  BY <3>f, <5>6 DEF Abroad
        <5> QED  BY <4>5, <5>7
      <4> QED  BY <4>2, <4>3, <4>4, <4>5
    <3> QED  BY <3>1, <3>2, <3>3, <3>t
  <2>2. ASSUME NEW c \in Conn, Stanzas(c) PROVE Abroad(stack'[u][i], stack'[u][i + 1])
    <3>1. CASE UNCHANGED stack  BY <1>c, <1>1, <3>1
    <3>2. ASSUME NEW fs, StartFrames(fs), Start(c, fs)
          PROVE  Abroad(stack'[u][i], stack'[u][i + 1])
      <4>1. CASE u # Client[c].thread
        <5>1. stack'[u] = stack[u]  BY <3>2, <4>1, Started
        <5> QED  BY <1>c, <1>1, <5>1
      <4>2. CASE u = Client[c].thread
        <5>1. ~ IsInside(stack'[u][j])  BY <3>2, <4>2, Started
        <5> QED  BY <1>1, <5>1
      <4> QED  BY <4>1, <4>2
    <3> QED  BY <2>2, <3>1, <3>2, StanzaStep
  <2>3. CASE UNCHANGED stack  BY <1>c, <1>1, <2>3
  <2> QED  BY <2>1, <2>2, <2>3 DEF Next, vars, PeerVanishes, UpdateSessions
<1>2. ASSUME /\ \A s \in Server : \A r \in remote'[s] : r.at # s
             /\ \A t \in Thread : \A i \in 1..Len(stack'[t]) :
                  stack'[t][i].op = "delivers"
                    => \A r \in stack'[t][i].left : r.at # stack'[t][i].at
             /\ \A t \in Thread : \A i, j \in 1..Len(stack'[t]) :
                  i < j /\ ~ IsInside(stack'[t][i]) /\ IsInside(stack'[t][j])
                    => Abroad(stack'[t][i], stack'[t][i + 1])
      PROVE  AbroadInv'
  BY <1>2 DEF AbroadInv, IsInside, Abroad
<1> QED  BY <1>1, <1>2, ElsewhereStep

\* The thread that holds a monitor has a call inside it going on, or waits in
\* PingBack.deliver for a monitor of another server.
HoldersGoOn ==
  \A s \in Server : lock[s] # None =>
    LET t == lock[s]
    IN /\ stack[t] # <<>>
       /\ IsInside(Top(t)) \/ (Len(stack[t]) > 1 /\ Abroad(stack[t][1], stack[t][2]))

\* No thread keeps a monitor after its handler has returned, and while it has
\* one it waits for nothing but the monitor of another server, from the loop of
\* send over the remote objects (synchronized methods of SessionManager,
\* PingBack.deliver): every deadlock of the servers goes through that loop.
THEOREM MonitorsGoOn == Spec => []HoldersGoOn
<1> DEFINE Inv == IInv /\ OwnerInv /\ AbroadInv
<1>1. Init => Inv
  <2> SUFFICES ASSUME Init PROVE Inv  OBVIOUS
  <2>1. \A s \in Server : lock[s] = None /\ remote[s] = {}  BY DEF Init
  <2>2. \A t \in Thread : stack[t] = <<>>  BY DEF Init
  <2> QED  BY <2>1, <2>2, IInvInit DEF OwnerInv, AbroadInv
<1>2. Inv /\ [Next]_vars => Inv'
  BY IInvStep, OwnerStep, AbroadStep DEF IInv
<1>3. Inv => HoldersGoOn
  <2> SUFFICES ASSUME Inv, NEW s \in Server, lock[s] # None
               PROVE  /\ stack[lock[s]] # <<>>
                      /\ \/ IsInside(Top(lock[s]))
                         \/ /\ Len(stack[lock[s]]) > 1
                            /\ Abroad(stack[lock[s]][1], stack[lock[s]][2])
    BY DEF HoldersGoOn
  <2> DEFINE t == lock[s]
  <2>1. t \in Thread  BY DEF IInv, TypeOK
  <2>2. PICK i \in 1..Len(stack[t]) : stack[t][i] = UnlockFrame(s)  BY DEF OwnerInv
  <2>3. stack[t] \in Seq(Frame)  BY <2>1 DEF IInv, TypeOK
  <2> HIDE DEF t
  <2>4. stack[t] # <<>> /\ Top(t) = stack[t][1] /\ 1 \in 1..Len(stack[t])
    BY <2>2, <2>3 DEF Top
  <2>5. IsInside(stack[t][i])  BY <2>2 DEF UnlockFrame, IsInside
  <2>6. ASSUME ~ IsInside(stack[t][1])
        PROVE  Len(stack[t]) > 1 /\ Abroad(stack[t][1], stack[t][2])
    <3>1. i # 1  BY <2>5, <2>6
    <3>2. 1 < i /\ Len(stack[t]) > 1  BY <2>3, <3>1
    <3>3. Abroad(stack[t][1], stack[t][1 + 1])  BY <2>1, <2>4, <2>5, <2>6, <3>2 DEF AbroadInv
    <3> QED  BY <3>2, <3>3
  <2> QED  BY <2>4, <2>6 DEF t
<1> QED  BY <1>1, <1>2, <1>3, PTL DEF Spec

\* When there is one server, its monitor is never held by a thread that waits
\* for a monitor: the synchronized calls of SessionManager come from outside it
\* or from calls that have it, however deep the cascade of failed writes.
THEOREM OneServerGoesOn ==
  Spec => []((\A r, s \in Server : r = s) =>
               \A s \in Server : lock[s] # None =>
                 stack[lock[s]] # <<>> /\ IsInside(Top(lock[s])))
<1>1. TypeOK /\ HoldersGoOn =>
        ((\A r, s \in Server : r = s) =>
           \A s \in Server : lock[s] # None =>
             stack[lock[s]] # <<>> /\ IsInside(Top(lock[s])))
  <2> SUFFICES ASSUME TypeOK, HoldersGoOn, \A r, s \in Server : r = s,
                      NEW s \in Server, lock[s] # None
               PROVE  stack[lock[s]] # <<>> /\ IsInside(Top(lock[s]))
    OBVIOUS
  <2> DEFINE t == lock[s]
  <2>1. stack[t] \in Seq(Frame)  BY DEF TypeOK
  <2>2. /\ stack[t] # <<>>
        /\ IsInside(Top(t)) \/ (Len(stack[t]) > 1 /\ Abroad(stack[t][1], stack[t][2]))
    BY DEF HoldersGoOn
  <2> HIDE DEF t
  <2>3. ASSUME Len(stack[t]) > 1 PROVE ~ Abroad(stack[t][1], stack[t][2])
    <3>1. stack[t][1] \in Frame /\ stack[t][2] \in Frame  BY <2>1, <2>3
    <3>2. stack[t][1].at \in Server /\ stack[t][2].at \in Server  BY <3>1, FrameFields
    <3> QED  BY <3>2 DEF Abroad
  <2> QED  BY <2>2, <2>3 DEF t
<1> QED  BY <1>1, TypeCorrect, MonitorsGoOn, PTL
=============================================================================
