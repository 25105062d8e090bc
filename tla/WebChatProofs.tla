---------------------------- MODULE WebChatProofs ----------------------------
(***************************************************************************)
(* Proofs about the web client, for any number of requests, connections,   *)
(* sessions, channels, messages and logins.                                *)
(*                                                                         *)
(* Base says what every reachable state has: types (Typed), a connection   *)
(* with a channel for what is being served (Wired), how far a request of   *)
(* its kind can be and what it has with it (Staged), and that a channel    *)
(* no session fills is empty (Filled), so that a channel that is taken for *)
(* a new connection loses nothing.  The lemmas named ...Form say what an   *)
(* action makes of the variables, so that later proofs need not open it.   *)
(* On Base rest three invariants: SentShown, ListensToItsChannel and, with *)
(* the places of each item, Conserved.                                     *)
(***************************************************************************)
EXTENDS WebChat, FiniteSetTheorems, WellFoundedInduction, TLAPS

\* What a request has as its answer, or as what it is about.
Replies == {None, "ok", "error", "wait", "fail"} \cup Own \cup Subscriber \cup Chan

\* The servlet is on the request, on a thread of its own.
Served == {"creates", "serving", "connects", "messages", "roster", "requests"}

Req == [kind : Kinds, pc : Pcs, at : Conn \cup {None}, items : Seq(Msg),
        asks : Seq(Subscriber), contacts : Nat, reply : Replies]

Storing0 == {None} \cup [item : Item, list : Seq(Item)]

Session == [logged : -1..1, hc : Chan \cup {None}, up : BOOLEAN, storing : Storing0]

Channel == [messages : Seq(Msg), requests : Seq(Subscriber), contacts : Nat, open : BOOLEAN]

Link == [hc : Chan \cup {None}, session : Sess \cup {None}]

Typed ==
    /\ req \in [Slot -> Req]
    /\ conns \in Conn \cup {None}
    /\ connection \in [Conn -> Link]
    /\ sess \in [Sess -> Session]
    /\ \A s \in Sess : sess[s].storing # None =>
          IF sess[s].storing.item \in Msg THEN sess[s].storing.list \in Seq(Msg)
          ELSE sess[s].storing.list \in Seq(Subscriber)
    /\ chan \in [Chan -> Channel]
    /\ contacts \in Nat
    /\ log \in Seq(Msg \cup Own) /\ asked \subseteq Subscriber
    /\ arrived \subseteq Item /\ dropped \subseteq Item
    /\ raced \in BOOLEAN /\ deaf \in BOOLEAN

\* What is served has a connection; a connection that is in place or has a
\* session has a channel, and so has a session that hears or stores.
Wired ==
    /\ \A r \in Slot : req[r].pc \in Served => req[r].at \in Conn /\ connection[req[r].at].hc \in Chan
    /\ conns # None => connection[conns].hc \in Chan
    /\ \A c \in Conn : connection[c].session # None =>
          connection[c].hc \in Chan /\ sess[connection[c].session].hc \in Chan
    /\ \A s \in Sess : sess[s].up \/ sess[s].storing # None => sess[s].hc \in Chan

\* How far a request of its kind is, and what it has taken with it.
StagedAt(q) ==
    /\ q.kind \in {"idle", "failed"} => q.pc = q.kind
    /\ q.pc \in {"idle", "failed"} => q.kind = q.pc
    /\ q.pc \in {"messages", "roster", "requests"} => q.kind = "updates"
    /\ q.pc = "connects" => q.kind = "login"
    /\ q.pc \in {"messages", "requests"} => q.reply \in Chan
    /\ q.kind # "updates" \/ q.pc \in {"arrives", "creates", "serving"} => q.items = <<>>
    /\ q.kind # "updates" \/ q.pc \notin {"requests", "replied"} => q.asks = <<>>
    /\ q.kind = "send" => q.reply \in Own

Staged == \A r \in Slot : StagedAt(req[r])

\* A channel that no session fills is empty.
Filled == \A h \in Chan : chan[h].messages # <<>> \/ chan[h].requests # <<>> => \E s \in Sess : sess[s].hc = h

Base == Typed /\ Wired /\ Staged /\ Filled
-----------------------------------------------------------------------------
LEMMA FirstIsIn ==
    ASSUME NEW S, S \subseteq Nat, S # {} PROVE First(S) \in S
<1> DEFINE R == {ss \in Nat \X Nat : ss[1] < ss[2]}
<1>1. IsWellFoundedOn(R, Nat)
  BY NatLessThanWellFounded, Zenon DEF OpToRel
<1>2. \A x, y \in Nat : x < y => <<x, y>> \in R
  OBVIOUS
<1> HIDE DEF R
<1>3. PICK x \in S : \A y \in S : ~(<<y, x>> \in R)
  BY <1>1, WFMin
<1>4. ASSUME NEW y \in S PROVE x <= y
  <2>1. ~(y < x)
    BY <1>2, <1>3
  <2> QED BY <2>1
<1> QED BY <1>4 DEF First

LEMMA Firsts ==
    /\ FreeChans # {} => First(FreeChans) \in Chan /\ ~Used(First(FreeChans))
    /\ FreeSess # {} => First(FreeSess) \in Sess /\ sess[First(FreeSess)] = NoSess
    /\ FreeConns # {} => First(FreeConns) \in Conn /\ connection[First(FreeConns)].hc = None
<1>1. FreeChans \subseteq Nat /\ FreeSess \subseteq Nat /\ FreeConns \subseteq Nat
  BY IdsAssumption DEF FreeChans, FreeSess, FreeConns
<1>2. FreeChans # {} => First(FreeChans) \in FreeChans
  BY <1>1, FirstIsIn
<1>3. FreeSess # {} => First(FreeSess) \in FreeSess
  BY <1>1, FirstIsIn
<1>4. FreeConns # {} => First(FreeConns) \in FreeConns
  BY <1>1, FirstIsIn
<1> QED BY <1>2, <1>3, <1>4 DEF FreeChans, FreeSess, FreeConns
-----------------------------------------------------------------------------
(* What an action makes of the request it is about; the others stay.       *)
Became(r, kind, pc, at, items, asks, reply) ==
    /\ req' \in [Slot -> Req]
    /\ req'[r].kind = kind /\ req'[r].pc = pc /\ req'[r].at = at
    /\ req'[r].items = items /\ req'[r].asks = asks /\ req'[r].reply = reply
    /\ \A q \in Slot \ {r} : req'[q] = req[q]

Moves(r, pc) == Became(r, req[r].kind, pc, req[r].at, req[r].items, req[r].asks, req[r].reply)

Settles(r) == Became(r, "idle", "idle", None, <<>>, <<>>, None)

Breaks(r) == Became(r, "failed", "failed", None, <<>>, <<>>, None)

Replied(r, x) == Became(r, req[r].kind, "replied", None, req[r].items, req[r].asks, x)

LEMMA IdleReq == Idle \in Req /\ Failed \in Req
<1>1. <<>> \in Seq(Msg) /\ <<>> \in Seq(Subscriber)
  OBVIOUS
<1>2. Idle \in Req
  BY <1>1 DEF Idle, Req, Kinds, Pcs, Replies
<1>3. Failed = [Idle EXCEPT !.kind = "failed", !.pc = "failed"]
  BY DEF Failed
<1> QED BY <1>2, <1>3 DEF Req, Kinds, Pcs

LEMMA SetForm ==
    ASSUME Typed, NEW r \in Slot, NEW q \in Req, req' = [req EXCEPT ![r] = q]
    PROVE  Became(r, q.kind, q.pc, q.at, q.items, q.asks, q.reply)
  BY DEF Became, Typed

LEMMA AskForm ==
    ASSUME Typed, NEW r \in Slot, NEW k \in Kinds, NEW x \in Replies, Ask(r, k, x)
    PROVE  req[r] = Idle /\ Became(r, k, "arrives", None, <<>>, <<>>, x)
<1>1. req' = [req EXCEPT ![r] = [Idle EXCEPT !.kind = k, !.pc = "arrives", !.reply = x]] /\ req[r] = Idle
  BY DEF Ask
<1> DEFINE q == [Idle EXCEPT !.kind = k, !.pc = "arrives", !.reply = x]
<1>2. q \in Req /\ q.kind = k /\ q.pc = "arrives" /\ q.at = None /\ q.items = <<>> /\ q.asks = <<>> /\ q.reply = x
  <2>1. Idle \in Req
    BY IdleReq
  <2>2. q \in Req
    BY <2>1 DEF Req, Pcs
  <2> QED BY <2>2 DEF Idle
<1> HIDE DEF q
<1>3. Became(r, q.kind, q.pc, q.at, q.items, q.asks, q.reply)
  BY <1>1, <1>2, SetForm DEF q
<1> QED BY <1>1, <1>2, <1>3

LEMMA SettleForm ==
    ASSUME Typed, NEW r \in Slot
    PROVE  /\ req' = [req EXCEPT ![r] = Idle] => Settles(r)
           /\ req' = [req EXCEPT ![r] = Failed] => Breaks(r)
<1>1. /\ Idle.kind = "idle" /\ Idle.pc = "idle" /\ Idle.at = None /\ Idle.items = <<>>
      /\ Idle.asks = <<>> /\ Idle.reply = None
      /\ Failed.kind = "failed" /\ Failed.pc = "failed" /\ Failed.at = None /\ Failed.items = <<>>
      /\ Failed.asks = <<>> /\ Failed.reply = None
  BY DEF Idle, Failed
<1>2. req' = [req EXCEPT ![r] = Idle] => Settles(r)
  BY <1>1, IdleReq, SetForm DEF Settles
<1>3. req' = [req EXCEPT ![r] = Failed] => Breaks(r)
  BY <1>1, IdleReq, SetForm DEF Breaks
<1> QED BY <1>2, <1>3

LEMMA ReplyForm ==
    ASSUME Typed, NEW r \in Slot, NEW x \in Replies, Reply(r, x)
    PROVE  Replied(r, x)
<1>1. req' = [req EXCEPT ![r].pc = "replied", ![r].at = None, ![r].reply = x]
  BY DEF Reply
<1> QED BY <1>1 DEF Typed, Req, Pcs, Replied, Became

LEMMA MoveForm ==
    ASSUME Typed, NEW r \in Slot, NEW p \in Pcs, req' = [req EXCEPT ![r].pc = p]
    PROVE  Moves(r, p)
  BY DEF Typed, Req, Moves, Became

LEMMA RouteForm ==
    ASSUME Typed, NEW r \in Slot, NEW p \in Pcs, NEW c \in Conn,
           req' = [req EXCEPT ![r].pc = p, ![r].at = c]
    PROVE  Became(r, req[r].kind, p, c, req[r].items, req[r].asks, req[r].reply)
  BY DEF Typed, Req, Became

LEMMA TakeForm ==
    ASSUME Typed, NEW r \in Slot, NEW h \in Chan
    PROVE  /\ req' = [req EXCEPT ![r].pc = "messages", ![r].reply = h, ![r].items = chan[h].messages]
              => Became(r, req[r].kind, "messages", req[r].at, chan[h].messages, req[r].asks, h)
           /\ req' = [req EXCEPT ![r].pc = "requests", ![r].reply = h,
                                 ![r].asks = chan[h].requests, ![r].contacts = chan[h].contacts]
              => Became(r, req[r].kind, "requests", req[r].at, req[r].items, chan[h].requests, h)
<1>1. chan[h].messages \in Seq(Msg) /\ chan[h].requests \in Seq(Subscriber) /\ chan[h].contacts \in Nat
      /\ h \in Replies
  BY DEF Typed, Channel, Replies
<1>2. req[r] \in Req /\ DOMAIN req = Slot
  BY DEF Typed
<1>3. ASSUME req' = [req EXCEPT ![r].pc = "messages", ![r].reply = h, ![r].items = chan[h].messages]
      PROVE  Became(r, req[r].kind, "messages", req[r].at, chan[h].messages, req[r].asks, h)
  BY <1>1, <1>3 DEF Typed, Req, Became, Pcs
<1>4. ASSUME req' = [req EXCEPT ![r].pc = "requests", ![r].reply = h,
                                ![r].asks = chan[h].requests, ![r].contacts = chan[h].contacts]
      PROVE  Became(r, req[r].kind, "requests", req[r].at, req[r].items, chan[h].requests, h)
  <2> DEFINE q == [req[r] EXCEPT !.pc = "requests", !.reply = h, !.asks = chan[h].requests, !.contacts = chan[h].contacts]
  <2>1. req' = [req EXCEPT ![r] = q]
    BY <1>2, <1>4 DEF Req
  <2>2. /\ q \in Req /\ q.kind = req[r].kind /\ q.pc = "requests" /\ q.at = req[r].at /\ q.items = req[r].items
        /\ q.asks = chan[h].requests /\ q.reply = h
    BY <1>1, <1>2 DEF Req, Pcs
  <2> HIDE DEF q
  <2>3. Became(r, q.kind, q.pc, q.at, q.items, q.asks, q.reply)
    BY <2>1, <2>2, SetForm
  <2> QED BY <2>2, <2>3
<1> QED BY <1>3, <1>4
-----------------------------------------------------------------------------
(* A step that changes one request, and not the connections.               *)
Fits(r) ==
    /\ req' \in [Slot -> Req] /\ \A q \in Slot \ {r} : req'[q] = req[q]
    /\ StagedAt(req'[r])
    /\ req'[r].pc \in Served => req'[r].at \in Conn /\ connection'[req'[r].at].hc \in Chan

PastTyped ==
    /\ log \in Seq(Msg \cup Own) /\ asked \subseteq Subscriber
    /\ arrived \subseteq Item /\ dropped \subseteq Item
    /\ raced \in BOOLEAN /\ deaf \in BOOLEAN

LEMMA PastKept ==
    ASSUME Typed, UNCHANGED <<log, asked, pastVars>> PROVE PastTyped'
  BY DEF Typed, PastTyped, pastVars

LEMMA ReqBase ==
    ASSUME Base, NEW r \in Slot, Fits(r), UNCHANGED connVars, PastTyped' PROVE Base'
<1> USE DEF connVars
<1>1. Typed'
  BY DEF Base, Typed, Fits, PastTyped
<1>2. Wired'
  BY DEF Base, Wired, Fits
<1>3. Staged'
  BY DEF Base, Staged, Fits
<1>4. Filled'
  BY DEF Base, Filled
<1> QED BY <1>1, <1>2, <1>3, <1>4 DEF Base

(* What an action does to its request fits. *)
LEMMA PageFits ==
    ASSUME NEW r \in Slot
    PROVE  /\ Settles(r) => Fits(r)
           /\ Breaks(r) => Fits(r)
           /\ \A k \in {"login", "wait", "updates", "answer", "change"} : \A x :
                 Became(r, k, "arrives", None, <<>>, <<>>, x) => Fits(r)
           /\ \A x \in Own : Became(r, "send", "arrives", None, <<>>, <<>>, x) => Fits(r)
  BY DEF Settles, Breaks, Became, Fits, StagedAt, Served

LEMMA RepliedFits ==
    ASSUME Base, NEW r \in Slot, NEW x, Replied(r, x), req[r].pc \notin {"idle", "failed"}, req[r].kind = "send" => x = req[r].reply,
           req[r].kind = "updates" => req[r].pc = "requests"
    PROVE  Fits(r)
  BY DEF Base, Staged, Replied, Became, Fits, StagedAt, Served

(* Every step of the page. *)
PageAsks(r) ==
    \/ Submit(r) \/ WaitForLogin(r) \/ GetUpdates(r) \/ ChangeStatus(r)
    \/ \E n \in Own : SendMessage(r, n)
    \/ \E u \in Subscriber : AnswerRequest(r, u)

Asks(r) ==
    \E k \in {"login", "wait", "updates", "answer", "change", "send"}, x \in Replies :
       /\ req[r] = Idle /\ Became(r, k, "arrives", None, <<>>, <<>>, x)
       /\ k = "send" => x \in Own

LEMMA PageAsksForm ==
    ASSUME Typed, NEW r \in Slot, PageAsks(r)
    PROVE  Asks(r) /\ UNCHANGED <<log, asked, connVars, written, pastVars>>
<1>1. \A k \in {"login", "wait", "updates", "answer", "change", "send"} : k \in Kinds
  BY DEF Kinds
<1>2. None \in Replies /\ Own \subseteq Replies /\ Subscriber \subseteq Replies
  BY DEF Replies
<1>3. ASSUME NEW k \in {"login", "wait", "updates", "answer", "change", "send"}, NEW x \in Replies,
             Ask(r, k, x), k = "send" => x \in Own
      PROVE  Asks(r)
  BY <1>1, <1>3, AskForm DEF Asks
<1>4. CASE Submit(r)
  BY <1>2, <1>3, <1>4 DEF Submit, pageVars
<1>5. CASE WaitForLogin(r)
  BY <1>2, <1>3, <1>5 DEF WaitForLogin
<1>6. CASE GetUpdates(r)
  BY <1>2, <1>3, <1>6 DEF GetUpdates, pageVars
<1>7. CASE ChangeStatus(r)
  BY <1>2, <1>3, <1>7 DEF ChangeStatus, pageVars
<1>8. ASSUME NEW n \in Own, SendMessage(r, n) PROVE Asks(r) /\ UNCHANGED <<log, asked, connVars, written, pastVars>>
  BY <1>2, <1>3, <1>8 DEF SendMessage, pageVars
<1>9. ASSUME NEW u \in Subscriber, AnswerRequest(r, u) PROVE Asks(r) /\ UNCHANGED <<log, asked, connVars, written, pastVars>>
  BY <1>2, <1>3, <1>9 DEF AnswerRequest, pageVars
<1> QED BY <1>4, <1>5, <1>6, <1>7, <1>8, <1>9 DEF PageAsks

LEMMA AsksFits == ASSUME NEW r \in Slot, Asks(r) PROVE Fits(r)
  BY DEF Asks, Became, Fits, StagedAt, Served

(* What a reply leaves on the page. *)
LEMMA ReceiveForm ==
    ASSUME Base, NEW r \in Slot, Receive(r)
    PROVE  /\ Settles(r) /\ req[r].pc = "replied"
           /\ UNCHANGED <<connVars, written, pastVars>>
           /\ log' = CASE req[r].kind = "updates" -> log \o req[r].items
                       [] req[r].kind = "send" -> Append(log, req[r].reply)
                       [] OTHER -> log
           /\ asked' = IF req[r].kind = "updates" THEN asked \cup Items(req[r].asks) ELSE asked
<1>1. Settles(r) /\ req[r].pc = "replied" /\ UNCHANGED <<connVars, written, pastVars>>
  BY SettleForm DEF Receive, Base
<1>2. req[r].kind \in {"login", "wait", "updates", "send", "answer", "change"}
  BY <1>1 DEF Base, Typed, Req, Kinds, Staged, StagedAt
<1>3. CASE req[r].kind = "login"
  BY <1>1, <1>3 DEF Receive, LoginReply
<1>4. CASE req[r].kind = "wait"
  BY <1>1, <1>4 DEF Receive, WaitReply
<1>5. CASE req[r].kind = "updates"
  BY <1>1, <1>5 DEF Receive, UpdatesReply
<1>6. CASE req[r].kind = "send"
  BY <1>1, <1>6 DEF Receive, SendReply
<1>7. CASE req[r].kind \in {"answer", "change"}
  BY <1>1, <1>7 DEF Receive, pageVars
<1> QED BY <1>2, <1>3, <1>4, <1>5, <1>6, <1>7
-----------------------------------------------------------------------------
(* The servlet. *)
Held == UNCHANGED <<log, asked>>

ListsKept == \A h \in Chan : chan'[h].messages = chan[h].messages /\ chan'[h].requests = chan[h].requests

\* A connection gets a channel that nobody has.
NewChannel(c) ==
    \E h \in Chan : /\ ~Used(h)
                    /\ connection' = [connection EXCEPT ![c].hc = h]
                    /\ chan' = [chan EXCEPT ![h] = NewChan]

LEMMA NewChannelFacts ==
    ASSUME Base, NEW c \in Conn, NewChannel(c)
    PROVE  /\ connection' \in [Conn -> Link] /\ chan' \in [Chan -> Channel] /\ ListsKept
           /\ connection'[c].hc \in Chan /\ connection'[c].session = connection[c].session
           /\ \A d \in Conn \ {c} : connection'[d] = connection[d]
<1>1. PICK h \in Chan : /\ ~Used(h) /\ connection' = [connection EXCEPT ![c].hc = h]
                        /\ chan' = [chan EXCEPT ![h] = NewChan]
  BY DEF NewChannel
<1>2. connection \in [Conn -> Link] /\ chan \in [Chan -> Channel]
  BY DEF Base, Typed
<1>3. /\ connection' \in [Conn -> Link]
      /\ connection'[c].hc = h /\ connection'[c].session = connection[c].session
      /\ \A d \in Conn \ {c} : connection'[d] = connection[d]
  BY <1>1, <1>2 DEF Link
<1>4. NewChan \in Channel /\ NewChan.messages = <<>> /\ NewChan.requests = <<>>
  <2>1. <<>> \in Seq(Msg) /\ <<>> \in Seq(Subscriber)
    OBVIOUS
  <2> QED BY <2>1 DEF NewChan, Channel
<1>5. \A s \in Sess : sess[s].hc # h
  BY <1>1 DEF Used
<1>6. chan[h].messages = <<>> /\ chan[h].requests = <<>>
  BY <1>5 DEF Base, Filled
<1> HIDE DEF NewChan
<1>7. chan' \in [Chan -> Channel] /\ ListsKept
  BY <1>1, <1>2, <1>4, <1>6 DEF ListsKept
<1> QED BY <1>3, <1>7

LEMMA NewChannelBase ==
    ASSUME Base, NEW r \in Slot, NEW c \in Conn, Fits(r), NewChannel(c),
           UNCHANGED <<conns, sess, contacts>>, PastTyped'
    PROVE  Base'
<1>1. /\ connection' \in [Conn -> Link] /\ chan' \in [Chan -> Channel] /\ ListsKept
      /\ connection'[c].hc \in Chan /\ connection'[c].session = connection[c].session
      /\ \A d \in Conn \ {c} : connection'[d] = connection[d]
  BY NewChannelFacts
<1>2. Typed'
  BY <1>1 DEF Base, Typed, Fits, PastTyped
<1>3. Wired'
  <2>1. ASSUME NEW q \in Slot, req'[q].pc \in Served
        PROVE  req'[q].at \in Conn /\ connection'[req'[q].at].hc \in Chan
    <3>1. CASE q = r
      BY <2>1, <3>1 DEF Fits
    <3>2. CASE q # r
      <4>1. req'[q] = req[q] /\ req[q].at \in Conn /\ connection[req[q].at].hc \in Chan
        BY <2>1, <3>2 DEF Fits, Base, Wired
      <4> QED BY <1>1, <4>1
    <3> QED BY <3>1, <3>2
  <2>2. conns' # None => connection'[conns'].hc \in Chan
    BY <1>1 DEF Base, Wired, Typed
  <2>3. ASSUME NEW d \in Conn, connection'[d].session # None
        PROVE  connection'[d].hc \in Chan /\ sess'[connection'[d].session].hc \in Chan
    BY <1>1, <2>3 DEF Base, Wired
  <2>4. \A s \in Sess : sess'[s].up \/ sess'[s].storing # None => sess'[s].hc \in Chan
    BY DEF Base, Wired
  <2> QED BY <2>1, <2>2, <2>3, <2>4 DEF Wired
<1>4. Staged'
  BY DEF Base, Staged, Fits
<1>5. Filled'
  BY <1>1 DEF Base, Filled, ListsKept
<1> QED BY <1>2, <1>3, <1>4, <1>5 DEF Base

LEMMA RouteForms ==
    ASSUME Base, NEW r \in Slot, Route(r)
    PROVE  /\ req[r].pc = "arrives" /\ UNCHANGED <<pageVars, conns, sess, contacts, written, pastVars>>
           /\ \/ /\ conns \in Conn /\ UNCHANGED <<connection, chan>>
                 /\ Became(r, req[r].kind, "serving", conns, req[r].items, req[r].asks, req[r].reply)
              \/ \E c \in Conn : /\ connection[c].hc = None /\ NewChannel(c)
                                 /\ Became(r, req[r].kind, "creates", c, req[r].items, req[r].asks, req[r].reply)
<1>1. req[r].pc = "arrives" /\ UNCHANGED <<pageVars, conns, sess, contacts, written, pastVars>>
  BY DEF Route
<1>2. "serving" \in Pcs /\ "creates" \in Pcs /\ Typed
  BY DEF Pcs, Base
<1>3. CASE conns # None
  <2>1. conns \in Conn /\ UNCHANGED <<connection, chan>> /\ req' = [req EXCEPT ![r].pc = "serving", ![r].at = conns]
    BY <1>3 DEF Route, Base, Typed
  <2> QED BY <1>1, <1>2, <2>1, RouteForm
<1>4. CASE conns = None
  <2> DEFINE c == First(FreeConns)
             h == First(FreeChans)
  <2>1. /\ FreeConns # {} /\ FreeChans # {}
        /\ req' = [req EXCEPT ![r].pc = "creates", ![r].at = c]
        /\ connection' = [connection EXCEPT ![c].hc = h]
        /\ chan' = [chan EXCEPT ![h] = NewChan]
    BY <1>4 DEF Route
  <2>2. c \in Conn /\ connection[c].hc = None /\ h \in Chan /\ ~Used(h)
    BY <2>1, Firsts
  <2> HIDE DEF c, h
  <2>3. NewChannel(c)
    BY <2>1, <2>2 DEF NewChannel
  <2>4. Became(r, req[r].kind, "creates", c, req[r].items, req[r].asks, req[r].reply)
    BY <1>2, <2>1, <2>2, RouteForm
  <2> QED BY <1>1, <2>2, <2>3, <2>4
<1> QED BY <1>3, <1>4

LEMMA RouteBase == ASSUME Base, NEW r \in Slot, Route(r) PROVE Base'
<1>1. /\ req[r].pc = "arrives" /\ UNCHANGED <<pageVars, conns, sess, contacts, written, pastVars>>
      /\ PastTyped'
  BY RouteForms, PastKept DEF Base, pageVars
<1>2. ASSUME NEW p \in {"serving", "creates"}, NEW c \in Conn,
             Became(r, req[r].kind, p, c, req[r].items, req[r].asks, req[r].reply), connection'[c].hc \in Chan
      PROVE  Fits(r)
  BY <1>1, <1>2 DEF Became, Fits, Base, Staged, StagedAt, Served
<1>3. ASSUME conns \in Conn, UNCHANGED <<connection, chan>>,
             Became(r, req[r].kind, "serving", conns, req[r].items, req[r].asks, req[r].reply)
      PROVE  Base'
  <2>1. connection'[conns].hc \in Chan
    BY <1>3, NoneAssumption DEF Base, Wired
  <2> QED BY <1>1, <1>2, <1>3, <2>1, ReqBase DEF connVars
<1>4. ASSUME NEW c \in Conn, NewChannel(c),
             Became(r, req[r].kind, "creates", c, req[r].items, req[r].asks, req[r].reply)
      PROVE  Base'
  <2>1. connection'[c].hc \in Chan
    BY <1>4, NewChannelFacts
  <2> QED BY <1>1, <1>2, <1>4, <2>1, NewChannelBase
<1> QED BY <1>3, <1>4, RouteForms

LEMMA RoutePutsForm ==
    ASSUME Typed, NEW r \in Slot, RoutePuts(r)
    PROVE  /\ Moves(r, "serving") /\ req[r].pc = "creates" /\ conns' = req[r].at
           /\ UNCHANGED <<pageVars, connection, sess, chan, contacts, written, pastVars>>
<1>1. "serving" \in Pcs
  BY DEF Pcs
<1> QED BY <1>1, MoveForm DEF RoutePuts

LEMMA RoutePutsBase == ASSUME Base, NEW r \in Slot, RoutePuts(r) PROVE Base'
<1>1. /\ Moves(r, "serving") /\ req[r].pc = "creates" /\ conns' = req[r].at
      /\ UNCHANGED <<pageVars, connection, sess, chan, contacts, written, pastVars>>
  BY RoutePutsForm DEF Base
<1>2. PastTyped'
  BY <1>1, PastKept DEF Base, pageVars
<1>3. req[r].at \in Conn /\ connection[req[r].at].hc \in Chan
  BY <1>1 DEF Base, Wired, Served
<1>4. Fits(r)
  BY <1>1, <1>3 DEF Moves, Became, Fits, Base, Staged, StagedAt, Served
<1>5. Typed'
  BY <1>1, <1>2, <1>3, <1>4 DEF Base, Typed, Fits, PastTyped
<1>6. Wired'
  BY <1>1, <1>3, <1>4 DEF Base, Wired, Fits
<1>7. Staged'
  BY <1>4 DEF Base, Staged, Fits
<1>8. Filled'
  BY <1>1 DEF Base, Filled
<1> QED BY <1>5, <1>6, <1>7, <1>8 DEF Base

(* connect gives a second login a new channel. *)
LEMMA LoginForms ==
    ASSUME Base, NEW r \in Slot, ViewPostLogin(r)
    PROVE  /\ req[r].pc = "serving" /\ req[r].kind = "login" /\ Moves(r, "connects") /\ req[r].at \in Conn
           /\ UNCHANGED <<pageVars, conns, sess, contacts, written, pastVars>>
           /\ \/ UNCHANGED <<connection, chan>>
              \/ At(r).session # None /\ NewChannel(req[r].at)
<1>1. "connects" \in Pcs /\ Typed
  BY DEF Pcs, Base
<1>2. /\ req[r].pc = "serving" /\ req[r].kind = "login" /\ Moves(r, "connects")
      /\ UNCHANGED <<pageVars, conns, sess, contacts, written, pastVars>>
  BY <1>1, MoveForm DEF ViewPostLogin, Serving
<1>3. req[r].at \in Conn
  BY <1>2 DEF Base, Wired, Served
<1>4. CASE At(r).session # None
  <2> DEFINE h == First(FreeChans)
  <2>1. /\ FreeChans # {}
        /\ connection' = [connection EXCEPT ![req[r].at].hc = h]
        /\ chan' = [chan EXCEPT ![h] = NewChan]
    BY <1>4 DEF ViewPostLogin
  <2>2. h \in Chan /\ ~Used(h)
    BY <2>1, Firsts
  <2> HIDE DEF h
  <2>3. NewChannel(req[r].at)
    BY <2>1, <2>2 DEF NewChannel
  <2> QED BY <1>2, <1>3, <1>4, <2>3
<1>5. CASE ~(At(r).session # None)
  BY <1>2, <1>3, <1>5 DEF ViewPostLogin
<1> QED BY <1>4, <1>5

LEMMA LoginBase == ASSUME Base, NEW r \in Slot, ViewPostLogin(r) PROVE Base'
<1>1. /\ req[r].pc = "serving" /\ req[r].kind = "login" /\ Moves(r, "connects") /\ req[r].at \in Conn
      /\ UNCHANGED <<pageVars, conns, sess, contacts, written, pastVars>>
      /\ PastTyped'
  BY LoginForms, PastKept DEF Base, pageVars
<1>2. connection[req[r].at].hc \in Chan
  BY <1>1 DEF Base, Wired, Served
<1>3. connection'[req[r].at].hc \in Chan => Fits(r)
  BY <1>1 DEF Moves, Became, Fits, Base, Staged, StagedAt, Served
<1>4. CASE UNCHANGED <<connection, chan>>
  BY <1>1, <1>2, <1>3, <1>4, ReqBase DEF connVars
<1>5. CASE NewChannel(req[r].at)
  <2>1. connection'[req[r].at].hc \in Chan
    BY <1>1, <1>5, NewChannelFacts
  <2> QED BY <1>1, <1>3, <1>5, <2>1, NewChannelBase
<1> QED BY <1>4, <1>5, LoginForms

\* A new session fills the channel that the connection has now.
LEMMA ConnectForms ==
    ASSUME Base, NEW r \in Slot, Connect(r)
    PROVE  /\ req[r].pc = "connects" /\ Replied(r, "ok") /\ req[r].at \in Conn
           /\ UNCHANGED <<pageVars, conns, chan, contacts, written, pastVars>>
           /\ At(r).hc \in Chan
           /\ \E s \in Sess : /\ sess[s] = NoSess
                              /\ sess' = [sess EXCEPT ![s] = [NoSess EXCEPT !.up = TRUE, !.hc = At(r).hc]]
                              /\ connection' = [connection EXCEPT ![req[r].at].session = s]
<1>1. "ok" \in Replies
  BY DEF Replies
<1>2. /\ req[r].pc = "connects" /\ Replied(r, "ok")
      /\ UNCHANGED <<pageVars, conns, chan, contacts, written, pastVars>>
  BY <1>1, ReplyForm DEF Connect, Base
<1>3. req[r].at \in Conn /\ At(r).hc \in Chan
  BY <1>2 DEF Base, Wired, Served, At
<1> DEFINE s == First(FreeSess)
<1>4. /\ FreeSess # {}
      /\ sess' = [sess EXCEPT ![s] = [NoSess EXCEPT !.up = TRUE, !.hc = At(r).hc]]
      /\ connection' = [connection EXCEPT ![req[r].at].session = s]
  BY DEF Connect
<1>5. s \in Sess /\ sess[s] = NoSess
  BY <1>4, Firsts
<1> HIDE DEF s
<1> QED BY <1>2, <1>3, <1>4, <1>5

LEMMA ConnectFacts ==
    ASSUME Base, NEW r \in Slot, Connect(r)
    PROVE  \E s \in Sess : /\ sess[s] = NoSess /\ sess'[s].storing = None /\ sess'[s].hc = At(r).hc
                           /\ sess' \in [Sess -> Session] /\ \A t \in Sess \ {s} : sess'[t] = sess[t]
                           /\ connection' \in [Conn -> Link]
                           /\ connection'[req[r].at].session = s /\ connection'[req[r].at].hc = At(r).hc
                           /\ \A c \in Conn \ {req[r].at} : connection'[c] = connection[c]
<1>1. PICK s \in Sess : /\ sess[s] = NoSess
                        /\ sess' = [sess EXCEPT ![s] = [NoSess EXCEPT !.up = TRUE, !.hc = At(r).hc]]
                        /\ connection' = [connection EXCEPT ![req[r].at].session = s]
  BY ConnectForms
<1>2. req[r].at \in Conn /\ At(r).hc \in Chan
  BY ConnectForms
<1>3. sess \in [Sess -> Session] /\ connection \in [Conn -> Link]
  BY DEF Base, Typed
<1> DEFINE n == [NoSess EXCEPT !.up = TRUE, !.hc = At(r).hc]
<1>4. n \in Session /\ n.storing = None /\ n.hc = At(r).hc
  <2>1. NoSess \in Session
    <3>1. 0 \in -1..1 /\ None \in Storing0
      BY DEF Storing0
    <3> QED BY <3>1 DEF NoSess, Session
  <2>2. n \in Session
    BY <1>2, <2>1 DEF Session
  <2>3. DOMAIN NoSess = {"logged", "hc", "up", "storing"} /\ NoSess.storing = None
    BY DEF NoSess
  <2>4. n.storing = None /\ n.hc = At(r).hc
    BY <2>3
  <2> QED BY <2>2, <2>4
<1> HIDE DEF n
<1>5. sess' = [sess EXCEPT ![s] = n]
  BY <1>1 DEF n
<1>6. /\ connection' \in [Conn -> Link]
      /\ connection'[req[r].at].session = s /\ connection'[req[r].at].hc = At(r).hc
      /\ \A c \in Conn \ {req[r].at} : connection'[c] = connection[c]
  BY <1>1, <1>2, <1>3 DEF Link, At
<1>7. /\ sess'[s] = n /\ sess' \in [Sess -> Session]
      /\ \A t \in Sess \ {s} : sess'[t] = sess[t]
  BY <1>3, <1>4, <1>5
<1> QED BY <1>1, <1>4, <1>6, <1>7

LEMMA ConnectBase == ASSUME Base, NEW r \in Slot, Connect(r) PROVE Base'
<1>1. /\ req[r].pc = "connects" /\ Replied(r, "ok") /\ req[r].at \in Conn
      /\ UNCHANGED <<pageVars, conns, chan, contacts, written, pastVars>> /\ At(r).hc \in Chan
      /\ PastTyped'
  BY ConnectForms, PastKept DEF Base, pageVars
<1>2. PICK s \in Sess : /\ sess[s] = NoSess /\ sess'[s].storing = None /\ sess'[s].hc = At(r).hc
                        /\ sess' \in [Sess -> Session] /\ \A t \in Sess \ {s} : sess'[t] = sess[t]
                        /\ connection' \in [Conn -> Link]
                        /\ connection'[req[r].at].session = s /\ connection'[req[r].at].hc = At(r).hc
                        /\ \A c \in Conn \ {req[r].at} : connection'[c] = connection[c]
  BY ConnectFacts
<1>3. req[r].kind = "login"
  BY <1>1 DEF Base, Staged, StagedAt
<1>4. Fits(r)
  BY <1>1, <1>3, RepliedFits
<1>5. Typed'
  BY <1>1, <1>2, <1>4 DEF Base, Typed, Fits, PastTyped
<1>6. \A t \in Sess : sess[t].hc \in Chan => sess'[t].hc \in Chan
  BY <1>1, <1>2
<1>7. \A c \in Conn : connection[c].hc \in Chan => connection'[c].hc \in Chan
  BY <1>1, <1>2
<1>8. Wired'
  <2>1. ASSUME NEW q \in Slot, req'[q].pc \in Served
        PROVE  req'[q].at \in Conn /\ connection'[req'[q].at].hc \in Chan
    <3>1. CASE q = r
      BY <2>1, <3>1, <1>4 DEF Fits
    <3>2. CASE q # r
      BY <2>1, <3>2, <1>4, <1>7 DEF Fits, Base, Wired
    <3> QED BY <3>1, <3>2
  <2>2. conns' # None => connection'[conns'].hc \in Chan
    BY <1>1, <1>7 DEF Base, Wired, Typed
  <2>3. ASSUME NEW c \in Conn, connection'[c].session # None
        PROVE  connection'[c].hc \in Chan /\ sess'[connection'[c].session].hc \in Chan
    <3>1. CASE c = req[r].at
      BY <1>1, <1>2, <3>1
    <3>2. CASE c # req[r].at
      <4>1. connection'[c] = connection[c]
        BY <1>2, <3>2
      <4>2. connection[c].session \in Sess
        BY <2>3, <4>1 DEF Base, Typed, Link
      <4> QED BY <1>6, <2>3, <4>1, <4>2 DEF Base, Wired
    <3> QED BY <3>1, <3>2
  <2>4. \A t \in Sess : sess'[t].up \/ sess'[t].storing # None => sess'[t].hc \in Chan
    BY <1>1, <1>2 DEF Base, Wired
  <2> QED BY <2>1, <2>2, <2>3, <2>4 DEF Wired
<1>9. Staged'
  BY <1>4 DEF Base, Staged, Fits
<1>10. Filled'
  <2>1. sess[s].hc = None
    BY <1>2 DEF NoSess
  <2>2. \A h \in Chan, t \in Sess : sess[t].hc = h => sess'[t].hc = h
    BY <1>2, <2>1, NoneAssumption
  <2>3. UNCHANGED chan
    BY <1>1
  <2> QED BY <2>2, <2>3 DEF Base, Filled
<1> QED BY <1>5, <1>8, <1>9, <1>10 DEF Base

(* The answers of the other views. *)
LEMMA ConnectFailsForm ==
    ASSUME Typed, NEW r \in Slot, ConnectFails(r)
    PROVE  /\ req[r].pc = "connects" /\ Replied(r, "error")
           /\ deaf' = (deaf \/ (At(r).session # None /\ SessAt(r).hc # At(r).hc))
           /\ UNCHANGED <<pageVars, connVars, written, arrived, dropped, raced>>
<1>1. "error" \in Replies
  BY DEF Replies
<1> QED BY <1>1, ReplyForm DEF ConnectFails

LEMMA GetLoginForm ==
    ASSUME Base, NEW r \in Slot, ViewGetLogin(r)
    PROVE  /\ req[r].pc = "serving" /\ req[r].kind = "wait"
           /\ \E x \in {"wait", "ok", "fail"} : Replied(r, x)
           /\ UNCHANGED <<pageVars, connVars, written, pastVars>>
<1>1. {"wait", "ok", "fail"} \subseteq Replies
  BY DEF Replies
<1>2. req[r].pc = "serving" /\ req[r].kind = "wait" /\ UNCHANGED <<pageVars, connVars, written, pastVars>>
  BY DEF ViewGetLogin, Serving
<1>3. req[r].at \in Conn
  BY <1>2 DEF Base, Wired, Served
<1>4. At(r).session # None => SessAt(r).logged \in -1..1
  BY <1>3 DEF Base, Typed, At, SessAt, Link, Session
<1> DEFINE x == CASE At(r).session = None    -> "wait"
                  [] SessAt(r).logged = 0    -> "wait"
                  [] SessAt(r).logged = 1    -> "ok"
                  [] SessAt(r).logged = -1   -> "fail"
<1>5. x \in {"wait", "ok", "fail"}
  BY <1>4
<1>6. Reply(r, x)
  BY DEF ViewGetLogin
<1> HIDE DEF x
<1>7. Replied(r, x)
  BY <1>1, <1>5, <1>6, ReplyForm DEF Base
<1> QED BY <1>2, <1>5, <1>7

LEMMA WritesForms ==
    ASSUME Base, NEW r \in Slot, ViewWrites(r)
    PROVE  /\ req[r].pc = "serving" /\ req[r].kind \in {"send", "answer", "change"}
           /\ UNCHANGED <<pageVars, connVars, pastVars>>
           /\ \/ Replied(r, req[r].reply) /\ written' = written \cup ({req[r].reply} \ {None})
              \/ Breaks(r) /\ UNCHANGED written
<1>1. req[r].reply \in Replies
  BY DEF Base, Typed, Req
<1> QED BY <1>1, ReplyForm, SettleForm DEF ViewWrites, Base

LEMMA ViewsBase ==
    ASSUME Base, NEW r \in Slot, ConnectFails(r) \/ ViewGetLogin(r) \/ ViewWrites(r)
    PROVE  Base'
<1>1. CASE ConnectFails(r)
  <2>1. /\ req[r].pc = "connects" /\ Replied(r, "error")
        /\ deaf' = (deaf \/ (At(r).session # None /\ SessAt(r).hc # At(r).hc))
        /\ UNCHANGED <<pageVars, connVars, written, arrived, dropped, raced>>
    BY <1>1, ConnectFailsForm DEF Base
  <2>2. deaf' \in BOOLEAN
    BY <2>1 DEF Base, Typed
  <2>3. PastTyped'
    BY <2>1, <2>2 DEF Base, Typed, PastTyped, pageVars
  <2>4. req[r].kind = "login"
    BY <2>1 DEF Base, Staged, StagedAt
  <2> QED BY <2>1, <2>3, <2>4, RepliedFits, ReqBase
<1>2. CASE ViewGetLogin(r)
  <2>1. /\ req[r].pc = "serving" /\ req[r].kind = "wait"
        /\ \E x \in {"wait", "ok", "fail"} : Replied(r, x)
        /\ UNCHANGED <<pageVars, connVars, written, pastVars>>
    BY <1>2, GetLoginForm
  <2>2. PastTyped'
    BY <2>1, PastKept DEF Base, pageVars
  <2> QED BY <2>1, <2>2, RepliedFits, ReqBase
<1>3. CASE ViewWrites(r)
  <2>1. /\ req[r].pc = "serving" /\ req[r].kind \in {"send", "answer", "change"}
        /\ UNCHANGED <<pageVars, connVars, pastVars>>
        /\ Replied(r, req[r].reply) \/ Breaks(r)
    BY <1>3, WritesForms
  <2>2. PastTyped'
    BY <2>1, PastKept DEF Base, pageVars
  <2> QED BY <2>1, <2>2, RepliedFits, PageFits, ReqBase
<1> QED BY <1>1, <1>2, <1>3

(* view_get_updates reads a list ... *)
LEMMA RetrieveForms ==
    ASSUME Base, NEW r \in Slot
    PROVE  /\ RetrieveMessages(r) =>
                 /\ req[r].pc = "serving" /\ req[r].kind = "updates" /\ At(r).hc \in Chan
                 /\ Became(r, "updates", "messages", req[r].at, chan[At(r).hc].messages, req[r].asks, At(r).hc)
                 /\ raced' = (raced \/ MessagesBusy(At(r).hc))
                 /\ UNCHANGED <<pageVars, connVars, written, arrived, dropped, deaf>>
           /\ RetrieveRequests(r) =>
                 /\ req[r].pc = "roster" /\ req[r].kind = "updates" /\ At(r).hc \in Chan
                 /\ Became(r, "updates", "requests", req[r].at, req[r].items, chan[At(r).hc].requests, At(r).hc)
                 /\ raced' = (raced \/ RequestsBusy(At(r).hc))
                 /\ UNCHANGED <<pageVars, connVars, written, arrived, dropped, deaf>>
<1>1. ASSUME RetrieveMessages(r)
      PROVE  /\ req[r].pc = "serving" /\ req[r].kind = "updates" /\ At(r).hc \in Chan
             /\ Became(r, "updates", "messages", req[r].at, chan[At(r).hc].messages, req[r].asks, At(r).hc)
             /\ raced' = (raced \/ MessagesBusy(At(r).hc))
             /\ UNCHANGED <<pageVars, connVars, written, arrived, dropped, deaf>>
  <2>1. req[r].pc = "serving" /\ req[r].kind = "updates"
    BY <1>1 DEF RetrieveMessages, Serving
  <2>2. At(r).hc \in Chan
    BY <2>1 DEF At, Base, Wired, Served
  <2>3. req' = [req EXCEPT ![r].pc = "messages", ![r].reply = At(r).hc, ![r].items = chan[At(r).hc].messages]
    BY <1>1 DEF RetrieveMessages
  <2>4. Became(r, "updates", "messages", req[r].at, chan[At(r).hc].messages, req[r].asks, At(r).hc)
    BY <2>1, <2>2, <2>3, TakeForm DEF Base
  <2> QED BY <1>1, <2>1, <2>2, <2>4 DEF RetrieveMessages
<1>2. ASSUME RetrieveRequests(r)
      PROVE  /\ req[r].pc = "roster" /\ req[r].kind = "updates" /\ At(r).hc \in Chan
             /\ Became(r, "updates", "requests", req[r].at, req[r].items, chan[At(r).hc].requests, At(r).hc)
             /\ raced' = (raced \/ RequestsBusy(At(r).hc))
             /\ UNCHANGED <<pageVars, connVars, written, arrived, dropped, deaf>>
  <2>1. req[r].pc = "roster"
    BY <1>2 DEF RetrieveRequests
  <2>2. At(r).hc \in Chan /\ req[r].kind = "updates"
    BY <2>1 DEF At, Base, Wired, Served, Staged, StagedAt
  <2>3. req' = [req EXCEPT ![r].pc = "requests", ![r].reply = At(r).hc,
                           ![r].asks = chan[At(r).hc].requests, ![r].contacts = chan[At(r).hc].contacts]
    BY <1>2 DEF RetrieveRequests
  <2>4. Became(r, "updates", "requests", req[r].at, req[r].items, chan[At(r).hc].requests, At(r).hc)
    BY <2>1, <2>2, <2>3, TakeForm DEF Base
  <2> QED BY <1>2, <2>1, <2>2, <2>4 DEF RetrieveRequests
<1> QED BY <1>1, <1>2

\* ... and empties it.
Emptied(h, list) ==
    /\ chan' \in [Chan -> Channel] /\ \A g \in Chan \ {h} : chan'[g] = chan[g]
    /\ list = "messages" => chan'[h].messages = <<>> /\ chan'[h].requests = chan[h].requests
    /\ list = "requests" => chan'[h].messages = chan[h].messages /\ chan'[h].requests = <<>>

LEMMA EmptiedForm ==
    ASSUME Typed, NEW h \in Chan
    PROVE  /\ chan' = [chan EXCEPT ![h].messages = <<>>] => Emptied(h, "messages")
           /\ chan' = [chan EXCEPT ![h].requests = <<>>] => Emptied(h, "requests")
<1>1. chan \in [Chan -> Channel] /\ <<>> \in Seq(Msg) /\ <<>> \in Seq(Subscriber)
  BY DEF Typed
<1> QED BY <1>1 DEF Emptied, Channel

LEMMA ClearedForms ==
    ASSUME Base, NEW r \in Slot
    PROVE  /\ MessagesCleared(r) =>
                 /\ req[r].pc = "messages" /\ req[r].reply \in Chan /\ Emptied(req[r].reply, "messages")
                 /\ Moves(r, "roster")
                 /\ UNCHANGED <<pageVars, conns, connection, sess, contacts, written, pastVars>>
           /\ RequestsCleared(r) =>
                 /\ req[r].pc = "requests" /\ req[r].reply \in Chan /\ Emptied(req[r].reply, "requests")
                 /\ UNCHANGED <<pageVars, conns, connection, sess, contacts, written, arrived, raced, deaf>>
                 /\ \/ Replied(r, None) /\ UNCHANGED dropped
                    \/ /\ Breaks(r)
                       /\ dropped' = dropped \cup Items(req[r].items) \cup Items(req[r].asks)
<1>1. "roster" \in Pcs /\ None \in Replies
  BY DEF Pcs, Replies
<1>2. req[r].pc \in {"messages", "requests"} => req[r].reply \in Chan
  BY DEF Base, Staged, StagedAt
<1>3. ASSUME MessagesCleared(r)
      PROVE  /\ req[r].pc = "messages" /\ req[r].reply \in Chan /\ Emptied(req[r].reply, "messages")
             /\ Moves(r, "roster")
             /\ UNCHANGED <<pageVars, conns, connection, sess, contacts, written, pastVars>>
  BY <1>1, <1>2, <1>3, MoveForm, EmptiedForm DEF MessagesCleared, Base
<1>4. ASSUME RequestsCleared(r)
      PROVE  /\ req[r].pc = "requests" /\ req[r].reply \in Chan /\ Emptied(req[r].reply, "requests")
             /\ UNCHANGED <<pageVars, conns, connection, sess, contacts, written, arrived, raced, deaf>>
             /\ \/ Replied(r, None) /\ UNCHANGED dropped
                \/ /\ Breaks(r)
                   /\ dropped' = dropped \cup Items(req[r].items) \cup Items(req[r].asks)
  BY <1>1, <1>2, <1>4, ReplyForm, SettleForm, EmptiedForm DEF RequestsCleared, Base
<1> QED BY <1>3, <1>4

LEMMA EmptiedBase ==
    ASSUME Base, NEW r \in Slot, Fits(r), NEW h \in Chan, NEW l \in {"messages", "requests"}, Emptied(h, l),
           UNCHANGED <<conns, connection, sess, contacts>>, PastTyped'
    PROVE  Base'
<1>1. Typed'
  BY DEF Base, Typed, Fits, PastTyped, Emptied
<1>2. Wired'
  BY DEF Base, Wired, Fits
<1>3. Staged'
  BY DEF Base, Staged, Fits
<1>4. Filled'
  <2> SUFFICES ASSUME NEW g \in Chan, chan'[g].messages # <<>> \/ chan'[g].requests # <<>>
               PROVE  \E s \in Sess : sess'[s].hc = g
    BY DEF Filled
  <2>1. chan[g].messages # <<>> \/ chan[g].requests # <<>>
    <3>1. CASE g = h /\ l = "messages"
      BY <3>1 DEF Emptied
    <3>2. CASE g = h /\ l = "requests"
      BY <3>2 DEF Emptied
    <3>3. CASE g # h
      BY <3>3 DEF Emptied
    <3> QED BY <3>1, <3>2, <3>3
  <2> QED BY <2>1 DEF Base, Filled
<1> QED BY <1>1, <1>2, <1>3, <1>4 DEF Base

LEMMA ItemsOf ==
    ASSUME Typed, NEW r \in Slot
    PROVE  Items(req[r].items) \subseteq Msg /\ Items(req[r].asks) \subseteq Subscriber
<1>1. req[r].items \in Seq(Msg) /\ req[r].asks \in Seq(Subscriber)
  BY DEF Typed, Req
<1> QED BY <1>1 DEF Items

LEMMA UpdatesBase ==
    ASSUME Base, NEW r \in Slot,
           RetrieveMessages(r) \/ RetrieveRequests(r) \/ MessagesCleared(r) \/ RequestsCleared(r)
    PROVE  Base'
<1>1. CASE RetrieveMessages(r) \/ RetrieveRequests(r)
  <2>1. /\ UNCHANGED <<pageVars, connVars, written, arrived, dropped, deaf>> /\ raced' \in BOOLEAN
        /\ req[r].pc \in {"serving", "roster"} /\ req[r].kind = "updates" /\ At(r).hc \in Chan
        /\ \/ Became(r, "updates", "messages", req[r].at, chan[At(r).hc].messages, req[r].asks, At(r).hc)
              /\ req[r].pc = "serving"
           \/ Became(r, "updates", "requests", req[r].at, req[r].items, chan[At(r).hc].requests, At(r).hc)
    BY <1>1, RetrieveForms DEF Base, Typed
  <2>2. PastTyped'
    BY <2>1 DEF Base, Typed, PastTyped, pageVars
  <2>3. connection'[req[r].at].hc \in Chan /\ req[r].at \in Conn
    BY <2>1 DEF Base, Wired, Served, connVars
  <2>4. Fits(r)
    <3>1. CASE Became(r, "updates", "messages", req[r].at, chan[At(r).hc].messages, req[r].asks, At(r).hc)
               /\ req[r].pc = "serving"
      BY <2>1, <2>3, <3>1 DEF Became, Fits, StagedAt, Base, Staged
    <3>2. CASE Became(r, "updates", "requests", req[r].at, req[r].items, chan[At(r).hc].requests, At(r).hc)
      BY <2>1, <2>3, <3>2 DEF Became, Fits, StagedAt, Base, Staged
    <3> QED BY <2>1, <3>1, <3>2
  <2> QED BY <2>1, <2>2, <2>4, ReqBase
<1>2. CASE MessagesCleared(r)
  <2>1. /\ req[r].pc = "messages" /\ req[r].reply \in Chan /\ Emptied(req[r].reply, "messages")
        /\ Moves(r, "roster")
        /\ UNCHANGED <<pageVars, conns, connection, sess, contacts, written, pastVars>>
    BY <1>2, ClearedForms
  <2>2. PastTyped'
    BY <2>1, PastKept DEF Base, pageVars
  <2>3. connection'[req[r].at].hc \in Chan /\ req[r].at \in Conn
    BY <2>1 DEF Base, Wired, Served
  <2>4. Fits(r)
    BY <2>1, <2>3 DEF Moves, Became, Fits, StagedAt, Base, Staged
  <2> QED BY <2>1, <2>2, <2>4, EmptiedBase
<1>3. CASE RequestsCleared(r)
  <2>1. /\ req[r].pc = "requests" /\ req[r].reply \in Chan /\ Emptied(req[r].reply, "requests")
        /\ UNCHANGED <<pageVars, conns, connection, sess, contacts, written, arrived, raced, deaf>>
        /\ \/ Replied(r, None) /\ UNCHANGED dropped
           \/ /\ Breaks(r)
              /\ dropped' = dropped \cup Items(req[r].items) \cup Items(req[r].asks)
    BY <1>3, ClearedForms
  <2>2. dropped' \subseteq Item
    BY <2>1, ItemsOf DEF Base, Typed, Item
  <2>3. PastTyped'
    BY <2>1, <2>2 DEF Base, Typed, PastTyped, pageVars
  <2>4. Fits(r)
    <3>1. req[r].kind = "updates"
      BY <2>1 DEF Base, Staged, StagedAt
    <3> QED BY <2>1, <3>1, RepliedFits, PageFits
  <2> QED BY <2>1, <2>3, <2>4, EmptiedBase
<1> QED BY <1>1, <1>2, <1>3

(* Every step of the page keeps the base. *)
LEMMA BreakForm ==
    ASSUME Base, NEW r \in Slot, Break(r)
    PROVE  /\ req[r].pc \in {"arrives", "replied"} /\ Breaks(r)
           /\ dropped' = dropped \cup Items(req[r].items) \cup Items(req[r].asks)
           /\ UNCHANGED <<pageVars, connVars, written, arrived, raced, deaf>>
  BY SettleForm DEF Break, Base

LEMMA FailureForm ==
    ASSUME Base, NEW r \in Slot, ReceiveFailure(r)
    PROVE  /\ req[r].pc = "failed" /\ Settles(r)
           /\ UNCHANGED <<pageVars, connVars, written, pastVars>>
  BY SettleForm DEF ReceiveFailure, Base

LEMMA PageBase ==
    ASSUME Base, NEW r \in Slot, Page(r) PROVE Base'
<1>1. CASE PageAsks(r)
  <2>1. Asks(r) /\ UNCHANGED <<log, asked, connVars, written, pastVars>>
    BY <1>1, PageAsksForm DEF Base
  <2> QED BY <2>1, AsksFits, PastKept, ReqBase DEF Base
<1>2. CASE Receive(r)
  <2>1. /\ Settles(r) /\ req[r].pc = "replied"
        /\ UNCHANGED <<connVars, written, pastVars>>
        /\ log' = CASE req[r].kind = "updates" -> log \o req[r].items
                    [] req[r].kind = "send" -> Append(log, req[r].reply)
                    [] OTHER -> log
        /\ asked' = IF req[r].kind = "updates" THEN asked \cup Items(req[r].asks) ELSE asked
    BY <1>2, ReceiveForm
  <2>2. log' \in Seq(Msg \cup Own)
    <3>1. log \in Seq(Msg \cup Own) /\ req[r].items \in Seq(Msg \cup Own)
      BY DEF Base, Typed, Req
    <3>2. CASE req[r].kind = "updates"
      BY <2>1, <3>1, <3>2
    <3>3. CASE req[r].kind = "send"
      <4>1. req[r].reply \in Own
        BY <3>3 DEF Base, Staged, StagedAt
      <4> QED BY <2>1, <3>1, <3>3, <4>1
    <3>4. CASE req[r].kind \notin {"updates", "send"}
      BY <2>1, <3>1, <3>4
    <3> QED BY <3>2, <3>3, <3>4
  <2>3. asked' \subseteq Subscriber
    BY <2>1, ItemsOf DEF Base, Typed
  <2>4. PastTyped'
    BY <2>1, <2>2, <2>3 DEF Base, Typed, PastTyped, pastVars
  <2> QED BY <2>1, <2>4, PageFits, ReqBase
<1>3. CASE ReceiveFailure(r)
  <2>1. /\ req[r].pc = "failed" /\ Settles(r)
        /\ UNCHANGED <<pageVars, connVars, written, pastVars>>
    BY <1>3, FailureForm
  <2> QED BY <2>1, PageFits, PastKept, ReqBase DEF Base, pageVars
<1>4. CASE Break(r)
  <2>1. /\ req[r].pc \in {"arrives", "replied"} /\ Breaks(r)
        /\ dropped' = dropped \cup Items(req[r].items) \cup Items(req[r].asks)
        /\ UNCHANGED <<pageVars, connVars, written, arrived, raced, deaf>>
    BY <1>4, BreakForm
  <2>2. dropped' \subseteq Item
    BY <2>1, ItemsOf DEF Base, Typed, Item
  <2>3. PastTyped'
    BY <2>1, <2>2 DEF Base, Typed, PastTyped, pageVars
  <2> QED BY <2>1, <2>3, PageFits, ReqBase
<1> QED BY <1>1, <1>2, <1>3, <1>4 DEF Page, PageAsks
-----------------------------------------------------------------------------
(* The listeners and the WatchDog: a session keeps its channel.            *)
Turned(s, storing) ==
    /\ sess' \in [Sess -> Session] /\ \A t \in Sess \ {s} : sess'[t] = sess[t]
    /\ sess'[s].hc = sess[s].hc /\ sess'[s].storing = storing /\ (sess'[s].up => sess[s].up)

LEMMA TurnedForm ==
    ASSUME Typed, NEW s \in Sess
    PROVE  /\ \A l \in -1..1 : sess' = [sess EXCEPT ![s].logged = l] => Turned(s, sess[s].storing)
           /\ sess' = [sess EXCEPT ![s].up = FALSE] => Turned(s, sess[s].storing)
           /\ \A x \in Storing0 : sess' = [sess EXCEPT ![s].storing = x] => Turned(s, x)
<1>1. sess \in [Sess -> Session]
  BY DEF Typed
<1>2. ASSUME NEW l \in -1..1, sess' = [sess EXCEPT ![s].logged = l] PROVE Turned(s, sess[s].storing)
  BY <1>1, <1>2 DEF Turned, Session
<1>3. ASSUME sess' = [sess EXCEPT ![s].up = FALSE] PROVE Turned(s, sess[s].storing)
  BY <1>1, <1>3 DEF Turned, Session
<1>4. ASSUME NEW x \in Storing0, sess' = [sess EXCEPT ![s].storing = x] PROVE Turned(s, x)
  BY <1>1, <1>4 DEF Turned, Session
<1> QED BY <1>2, <1>3, <1>4

\* A channel is closed, or has other contacts: its lists stay.
LEMMA ChannelForm ==
    ASSUME Typed, NEW h \in Chan
    PROVE  /\ chan' = [chan EXCEPT ![h].open = FALSE] => chan' \in [Chan -> Channel] /\ ListsKept
           /\ \A n \in Nat : chan' = [chan EXCEPT ![h].contacts = n] => chan' \in [Chan -> Channel] /\ ListsKept
<1>1. chan \in [Chan -> Channel]
  BY DEF Typed
<1>2. ASSUME chan' = [chan EXCEPT ![h].open = FALSE] PROVE chan' \in [Chan -> Channel] /\ ListsKept
  BY <1>1, <1>2 DEF ListsKept, Channel
<1>3. ASSUME NEW n \in Nat, chan' = [chan EXCEPT ![h].contacts = n] PROVE chan' \in [Chan -> Channel] /\ ListsKept
  BY <1>1, <1>3 DEF ListsKept, Channel
<1> QED BY <1>2, <1>3

\* What these steps do when they move no item.
Still ==
    /\ UNCHANGED <<pageVars, req, connection, written, pastVars>>
    /\ conns' \in {conns, None} /\ contacts' \in Nat
    /\ chan' \in [Chan -> Channel] /\ ListsKept
    /\ sess' = sess \/ \E s \in Sess : Turned(s, sess[s].storing)

LEMMA StillBase == ASSUME Base, Still PROVE Base'
<1>1. PastTyped'
  BY PastKept DEF Still, Base, pageVars
<1>2. /\ sess' \in [Sess -> Session]
      /\ \A t \in Sess : /\ sess'[t].hc = sess[t].hc /\ sess'[t].storing = sess[t].storing
                         /\ sess'[t].up => sess[t].up
  BY DEF Still, Turned, Base, Typed
<1>3. Typed'
  BY <1>1, <1>2 DEF Still, Base, Typed, PastTyped
<1>4. Wired'
  <2>1. \A r \in Slot : req'[r].pc \in Served => req'[r].at \in Conn /\ connection'[req'[r].at].hc \in Chan
    BY DEF Still, Base, Wired
  <2>2. conns' # None => connection'[conns'].hc \in Chan
    BY DEF Still, Base, Wired
  <2>3. ASSUME NEW c \in Conn, connection'[c].session # None
        PROVE  connection'[c].hc \in Chan /\ sess'[connection'[c].session].hc \in Chan
    <3>1. connection[c].session \in Sess /\ connection' = connection
      BY <2>3 DEF Still, Base, Typed, Link
    <3> QED BY <1>2, <2>3, <3>1 DEF Base, Wired
  <2>4. \A s \in Sess : sess'[s].up \/ sess'[s].storing # None => sess'[s].hc \in Chan
    BY <1>2 DEF Base, Wired
  <2> QED BY <2>1, <2>2, <2>3, <2>4 DEF Wired
<1>5. Staged'
  BY DEF Still, Base, Staged
<1>6. Filled'
  BY <1>2 DEF Still, Base, Filled, ListsKept
<1> QED BY <1>3, <1>4, <1>5, <1>6 DEF Base

LEMMA StillForms ==
    ASSUME Base
    PROVE  /\ \A s \in Sess : LoggedIn(s) \/ NotAuthorized(s) \/ ContactsChange(s) \/ StreamEnds(s) => Still
           /\ CheckAndClose \/ CloseThrows \/ Remove => Still
<1>1. Typed /\ contacts \in Nat /\ chan \in [Chan -> Channel] /\ (UNCHANGED chan => ListsKept)
  BY DEF Base, Typed, ListsKept
<1>2. ASSUME NEW s \in Sess, LoggedIn(s) PROVE Still
  <2>0. 1 \in -1..1 /\ sess' = [sess EXCEPT ![s].logged = 1]
    BY <1>2 DEF LoggedIn
  <2>1. Turned(s, sess[s].storing)
    BY <1>1, <2>0, TurnedForm
  <2> QED BY <1>1, <1>2, <2>1 DEF LoggedIn, Still
<1>3. ASSUME NEW s \in Sess, Hears(s) PROVE sess[s].hc \in Chan
  BY <1>3 DEF Hears, Base, Wired
<1>4. ASSUME NEW s \in Sess, NotAuthorized(s) PROVE Still
  <2>0. -1 \in -1..1 /\ sess' = [sess EXCEPT ![s].logged = -1]
    BY <1>4 DEF NotAuthorized
  <2>1. Turned(s, sess[s].storing)
    BY <1>1, <2>0, TurnedForm
  <2>2. chan' \in [Chan -> Channel] /\ ListsKept
    BY <1>1, <1>3, <1>4, ChannelForm DEF NotAuthorized
  <2> QED BY <1>1, <1>4, <2>1, <2>2 DEF NotAuthorized, Still
<1>5. ASSUME NEW s \in Sess, ContactsChange(s) PROVE Still
  <2>0. /\ Hears(s) /\ contacts + 1 \in Nat
        /\ chan' = [chan EXCEPT ![sess[s].hc].contacts = contacts + 1]
    BY <1>1, <1>5 DEF ContactsChange
  <2>1. chan' \in [Chan -> Channel] /\ ListsKept
    BY <1>1, <1>3, <2>0, ChannelForm
  <2> QED BY <1>1, <1>5, <2>1 DEF ContactsChange, Still
<1>6. ASSUME NEW s \in Sess, StreamEnds(s) PROVE Still
  <2>1. Turned(s, sess[s].storing)
    BY <1>1, <1>6, TurnedForm DEF StreamEnds
  <2>2. chan' \in [Chan -> Channel] /\ ListsKept
    BY <1>1, <1>3, <1>6, ChannelForm DEF StreamEnds
  <2> QED BY <1>1, <1>6, <2>1, <2>2 DEF StreamEnds, Still
<1>7. ASSUME CheckAndClose PROVE Still
  <2>1. sess' = sess \/ \E s \in Sess : Turned(s, sess[s].storing)
    <3> DEFINE s == connection[conns].session
    <3>1. CASE s = None
      BY <1>7, <3>1 DEF CheckAndClose
    <3>2. CASE s # None
      <4>1. s \in Sess
        BY <1>1, <1>7, <3>2 DEF CheckAndClose, Typed, Link
      <4>2. sess' = [sess EXCEPT ![s].up = FALSE]
        BY <1>7, <3>2 DEF CheckAndClose
      <4> HIDE DEF s
      <4> QED BY <1>1, <4>1, <4>2, TurnedForm
    <3> QED BY <3>1, <3>2
  <2> QED BY <1>1, <1>7, <2>1 DEF CheckAndClose, Still
<1>8. CloseThrows \/ Remove => Still
  BY <1>1 DEF CloseThrows, Remove, Still, connVars
<1> QED BY <1>2, <1>4, <1>5, <1>6, <1>7, <1>8

(* An item that arrives: the list is read, and then replaced.              *)
LEMMA ArrivesForm ==
    ASSUME Base, NEW s \in Sess, NEW x \in Item, Arrives(s, x)
    PROVE  /\ sess[s].hc \in Chan /\ sess[s].storing = None /\ x \notin arrived
           /\ \A t \in Sess : sess[t].storing # None => sess[t].storing.item # x
           /\ Turned(s, [item |-> x, list |-> IF x \in Msg THEN chan[sess[s].hc].messages
                                              ELSE chan[sess[s].hc].requests])
           /\ raced' = (raced \/ IF x \in Msg THEN MessagesBusy(sess[s].hc) ELSE RequestsBusy(sess[s].hc))
           /\ UNCHANGED <<pageVars, req, conns, connection, chan, contacts, written, arrived, dropped, deaf>>
<1>1. sess[s].hc \in Chan
  BY DEF Arrives, Hears, Base, Wired
<1> DEFINE l == IF x \in Msg THEN chan[sess[s].hc].messages ELSE chan[sess[s].hc].requests
<1>2. l \in Seq(Item)
  BY <1>1 DEF Base, Typed, Channel, Item
<1>3. sess' = [sess EXCEPT ![s].storing = [item |-> x, list |-> l]]
  BY DEF Arrives
<1> HIDE DEF l
<1>4. [item |-> x, list |-> l] \in Storing0
  BY <1>2 DEF Storing0
<1>5. Turned(s, [item |-> x, list |-> l])
  BY <1>3, <1>4, TurnedForm DEF Base
<1> QED BY <1>1, <1>5 DEF Arrives, l, Hears

LEMMA StoredForm ==
    ASSUME Base, NEW s \in Sess, Stored(s)
    PROVE  LET h == sess[s].hc  x == sess[s].storing.item  l == <<x>> \o sess[s].storing.list
           IN  /\ sess[s].storing # None /\ h \in Chan /\ x \in Item /\ Turned(s, None)
               /\ arrived' = arrived \cup {x}
               /\ chan' \in [Chan -> Channel] /\ \A g \in Chan \ {h} : chan'[g] = chan[g]
               /\ x \in Msg => chan'[h].messages = l /\ chan'[h].requests = chan[h].requests
               /\ x \notin Msg => chan'[h].requests = l /\ chan'[h].messages = chan[h].messages
               /\ UNCHANGED <<pageVars, req, conns, connection, contacts, written, dropped, raced, deaf>>
<1> DEFINE h == sess[s].hc
           x == sess[s].storing.item
           l == <<x>> \o sess[s].storing.list
<1>1. /\ sess[s].storing # None /\ arrived' = arrived \cup {x}
      /\ chan' = IF x \in Msg THEN [chan EXCEPT ![h].messages = l] ELSE [chan EXCEPT ![h].requests = l]
      /\ sess' = [sess EXCEPT ![s].storing = None]
      /\ UNCHANGED <<pageVars, req, conns, connection, contacts, written, dropped, raced, deaf>>
  BY DEF Stored
<1>2. h \in Chan /\ x \in Item /\ None \in Storing0 /\ chan \in [Chan -> Channel]
  BY <1>1 DEF Base, Wired, Typed, Session, Storing0
<1>3. Turned(s, None)
  BY <1>1, <1>2, TurnedForm DEF Base
<1>4. IF x \in Msg THEN l \in Seq(Msg) ELSE l \in Seq(Subscriber)
  <2>1. IF x \in Msg THEN sess[s].storing.list \in Seq(Msg) ELSE sess[s].storing.list \in Seq(Subscriber)
    BY <1>1 DEF Base, Typed
  <2>2. x \in Msg \/ x \in Subscriber
    BY <1>2 DEF Item
  <2> HIDE DEF x
  <2> QED BY <2>1, <2>2
<1> HIDE DEF h, x, l
<1>5. /\ chan' \in [Chan -> Channel] /\ \A g \in Chan \ {h} : chan'[g] = chan[g]
      /\ x \in Msg => chan'[h].messages = l /\ chan'[h].requests = chan[h].requests
      /\ x \notin Msg => chan'[h].requests = l /\ chan'[h].messages = chan[h].messages
  <2>1. CASE x \in Msg
    BY <1>1, <1>2, <1>4, <2>1 DEF Channel
  <2>2. CASE x \notin Msg
    BY <1>1, <1>2, <1>4, <2>2 DEF Channel
  <2> QED BY <2>1, <2>2
<1> QED BY <1>1, <1>2, <1>3, <1>5 DEF h, x, l

LEMMA StoringBase ==
    ASSUME Base, NEW s \in Sess, (\E x \in Item : Arrives(s, x)) \/ Stored(s)
    PROVE  Base'
<1>1. ASSUME NEW st \in Storing0, Turned(s, st),
             st # None => IF st.item \in Msg THEN st.list \in Seq(Msg) ELSE st.list \in Seq(Subscriber),
             sess[s].hc \in Chan, UNCHANGED <<req, conns, connection, contacts>>,
             chan' \in [Chan -> Channel], \A g \in Chan \ {sess[s].hc} : chan'[g] = chan[g], PastTyped'
      PROVE  Base'
  <2>1. /\ sess' \in [Sess -> Session]
        /\ \A t \in Sess : sess'[t].hc = sess[t].hc /\ (sess'[t].up => sess[t].up)
        /\ \A t \in Sess \ {s} : sess'[t] = sess[t]
        /\ sess'[s].storing = st
    BY <1>1 DEF Turned
  <2>2. Typed'
    BY <1>1, <2>1 DEF Base, Typed, PastTyped
  <2>3. Wired'
    <3>1. \A r \in Slot : req'[r].pc \in Served => req'[r].at \in Conn /\ connection'[req'[r].at].hc \in Chan
      BY <1>1 DEF Base, Wired
    <3>2. conns' # None => connection'[conns'].hc \in Chan
      BY <1>1 DEF Base, Wired
    <3>3. ASSUME NEW c \in Conn, connection'[c].session # None
          PROVE  connection'[c].hc \in Chan /\ sess'[connection'[c].session].hc \in Chan
      <4>1. connection[c].session \in Sess /\ connection' = connection
        BY <1>1, <3>3 DEF Base, Typed, Link
      <4> QED BY <2>1, <3>3, <4>1 DEF Base, Wired
    <3>4. \A t \in Sess : sess'[t].up \/ sess'[t].storing # None => sess'[t].hc \in Chan
      BY <1>1, <2>1 DEF Base, Wired
    <3> QED BY <3>1, <3>2, <3>3, <3>4 DEF Wired
  <2>4. Staged'
    BY <1>1 DEF Base, Staged
  <2>5. Filled'
    BY <1>1, <2>1 DEF Base, Filled
  <2> QED BY <2>2, <2>3, <2>4, <2>5 DEF Base
<1>2. ASSUME NEW x \in Item, Arrives(s, x) PROVE Base'
  <2> DEFINE l == IF x \in Msg THEN chan[sess[s].hc].messages ELSE chan[sess[s].hc].requests
             st == [item |-> x, list |-> l]
  <2>1. /\ sess[s].hc \in Chan /\ Turned(s, st)
        /\ UNCHANGED <<pageVars, req, conns, connection, chan, contacts, written, arrived, dropped, deaf>>
        /\ raced' = (raced \/ IF x \in Msg THEN MessagesBusy(sess[s].hc) ELSE RequestsBusy(sess[s].hc))
    BY <1>2, ArrivesForm
  <2>2. IF x \in Msg THEN l \in Seq(Msg) ELSE l \in Seq(Subscriber)
    BY <2>1 DEF Base, Typed, Channel
  <2>3. l \in Seq(Item)
    BY <2>2 DEF Item
  <2>4. st \in Storing0 /\ st.item = x /\ st.list = l
    BY <2>3 DEF Storing0
  <2>5. raced' \in BOOLEAN
    BY <2>1 DEF Base, Typed, MessagesBusy, RequestsBusy
  <2>6. PastTyped' /\ chan' \in [Chan -> Channel]
    BY <2>1, <2>5 DEF Base, Typed, PastTyped, pageVars
  <2> HIDE DEF l, st
  <2> QED BY <1>1, <2>1, <2>2, <2>4, <2>6
<1>3. CASE Stored(s)
  <2>1. /\ sess[s].hc \in Chan /\ sess[s].storing.item \in Item /\ Turned(s, None)
        /\ arrived' = arrived \cup {sess[s].storing.item}
        /\ chan' \in [Chan -> Channel] /\ \A g \in Chan \ {sess[s].hc} : chan'[g] = chan[g]
        /\ UNCHANGED <<pageVars, req, conns, connection, contacts, written, dropped, raced, deaf>>
    BY <1>3, StoredForm
  <2>2. None \in Storing0
    BY DEF Storing0
  <2>3. PastTyped'
    BY <2>1 DEF Base, Typed, PastTyped, pageVars
  <2> QED BY <1>1, <2>1, <2>2, <2>3
<1> QED BY <1>2, <1>3

LEMMA BaseStep == ASSUME Base, [Next]_vars PROVE Base'
<1>1. ASSUME NEW r \in Slot, Page(r) PROVE Base'
  BY <1>1, PageBase
<1>2. ASSUME NEW r \in Slot, Serve(r) PROVE Base'
  BY <1>2, RouteBase, RoutePutsBase, LoginBase, ConnectBase, ViewsBase, UpdatesBase DEF Serve
<1>3. ASSUME NEW s \in Sess, Listener(s) PROVE Base'
  BY <1>3, StillForms, StillBase, StoringBase DEF Listener, Item
<1>4. CheckAndClose \/ CloseThrows \/ Remove => Base'
  BY StillForms, StillBase
<1>5. UNCHANGED vars => Base'
  BY DEF vars, pageVars, connVars, pastVars, Base, Typed, Wired, Staged, Filled
<1> QED BY <1>1, <1>2, <1>3, <1>4, <1>5 DEF Next

LEMMA BaseInit == Init => Base
<1> SUFFICES ASSUME Init PROVE Base
  OBVIOUS
<1> USE DEF Init
<1>1. NoSess \in Session /\ NoSess.storing = None /\ ~NoSess.up /\ NoSess.hc = None
  <2>1. 0 \in -1..1 /\ None \in Storing0
    BY DEF Storing0
  <2> QED BY <2>1 DEF NoSess, Session
<1>2. [NewChan EXCEPT !.open = FALSE] \in Channel /\ [NewChan EXCEPT !.open = FALSE].messages = <<>>
      /\ [NewChan EXCEPT !.open = FALSE].requests = <<>>
  <2>1. <<>> \in Seq(Msg) /\ <<>> \in Seq(Subscriber)
    OBVIOUS
  <2> QED BY <2>1 DEF NewChan, Channel
<1>3. Typed
  <2>1. [hc |-> None, session |-> None] \in Link /\ <<>> \in Seq(Msg \cup Own)
    BY DEF Link
  <2> QED BY <1>1, <1>2, <2>1, IdleReq DEF Typed
<1>4. Wired
  BY <1>1 DEF Wired, Idle, Served
<1>5. Staged
  BY DEF Staged, StagedAt, Idle
<1>6. Filled
  BY <1>2 DEF Filled
<1> QED BY <1>3, <1>4, <1>5, <1>6 DEF Base
-----------------------------------------------------------------------------
(* A message of the user's own whose sending was answered is written.      *)
SentInv ==
    /\ Own \cap Items(log) \subseteq written
    /\ \A r \in Slot : req[r].kind = "send" /\ req[r].pc = "replied" => req[r].reply \in written

LEMMA ItemsConcat ==
    ASSUME NEW S, NEW a \in Seq(S), NEW b \in Seq(S)
    PROVE  Items(a \o b) = Items(a) \cup Items(b)
<1>1. Items(a \o b) \subseteq Items(a) \cup Items(b)
  BY DEF Items
<1>2. ASSUME NEW y \in Items(a) PROVE y \in Items(a \o b)
  <2>1. PICK i \in DOMAIN a : y = a[i]
    BY DEF Items
  <2>2. i \in DOMAIN (a \o b) /\ (a \o b)[i] = y
    BY <2>1
  <2> QED BY <2>2 DEF Items
<1>3. ASSUME NEW y \in Items(b) PROVE y \in Items(a \o b)
  <2>1. PICK i \in DOMAIN b : y = b[i]
    BY DEF Items
  <2>2. Len(a) + i \in DOMAIN (a \o b) /\ (a \o b)[Len(a) + i] = y
    BY <2>1
  <2> QED BY <2>2 DEF Items
<1> QED BY <1>1, <1>2, <1>3

LEMMA ItemsAppend ==
    ASSUME NEW S, NEW a \in Seq(S), NEW x
    PROVE  Items(Append(a, x)) = Items(a) \cup {x}
<1>1. Items(Append(a, x)) \subseteq Items(a) \cup {x}
  BY DEF Items
<1>2. ASSUME NEW y \in Items(a) PROVE y \in Items(Append(a, x))
  <2>1. PICK i \in DOMAIN a : y = a[i]
    BY DEF Items
  <2>2. i \in DOMAIN Append(a, x) /\ Append(a, x)[i] = y
    BY <2>1
  <2> QED BY <2>2 DEF Items
<1>3. x \in Items(Append(a, x))
  <2>1. Len(a) + 1 \in DOMAIN Append(a, x) /\ Append(a, x)[Len(a) + 1] = x
    OBVIOUS
  <2> QED BY <2>1 DEF Items
<1> QED BY <1>1, <1>2, <1>3

\* One request changes, and what is written stays written.
LEMMA SentSlot ==
    ASSUME SentInv, NEW r \in Slot, \A q \in Slot \ {r} : req'[q] = req[q],
           req'[r].kind = "send" /\ req'[r].pc = "replied" => req'[r].reply \in written',
           written \subseteq written', Own \cap Items(log') \subseteq written'
    PROVE  SentInv'
  BY DEF SentInv

LEMMA SentKept ==
    ASSUME SentInv, NEW r \in Slot, \A q \in Slot \ {r} : req'[q] = req[q],
           ~(req'[r].kind = "send" /\ req'[r].pc = "replied"), UNCHANGED <<log, written>>
    PROVE  SentInv'
  BY SentSlot DEF SentInv

LEMMA ReceiveSent ==
    ASSUME Base, SentInv, NEW r \in Slot, Receive(r) PROVE SentInv'
<1>1. /\ Settles(r) /\ req[r].pc = "replied" /\ UNCHANGED written
      /\ log' = CASE req[r].kind = "updates" -> log \o req[r].items
                  [] req[r].kind = "send" -> Append(log, req[r].reply)
                  [] OTHER -> log
  BY ReceiveForm
<1>2. log \in Seq(Msg \cup Own) /\ req[r].items \in Seq(Msg \cup Own)
  BY DEF Base, Typed, Req
<1>3. Own \cap Items(req[r].items) = {}
  BY ItemsOf, ItemsAssumption DEF Base
<1>4. Own \cap Items(log) \subseteq written
  BY DEF SentInv
<1>5. Own \cap Items(log') \subseteq written'
  <2>1. CASE req[r].kind = "updates"
    <3>1. Items(log') = Items(log) \cup Items(req[r].items)
      <4>1. log' = log \o req[r].items
        BY <1>1, <2>1
      <4> QED BY <1>2, <4>1, ItemsConcat
    <3> QED BY <1>1, <1>3, <1>4, <3>1
  <2>2. CASE req[r].kind = "send"
    <3>1. Items(log') = Items(log) \cup {req[r].reply}
      BY <1>1, <1>2, <2>2, ItemsAppend
    <3>2. req[r].reply \in written
      BY <1>1, <2>2 DEF SentInv
    <3> QED BY <1>1, <1>4, <3>1, <3>2
  <2>3. CASE req[r].kind \notin {"updates", "send"}
    <3>1. log' = log
      BY <1>1, <2>3
    <3> QED BY <1>1, <1>4, <3>1
  <2> QED BY <2>1, <2>2, <2>3
<1> QED BY <1>1, <1>5, SentSlot DEF Settles, Became

LEMMA SentStep == ASSUME Base, SentInv, [Next]_vars PROVE SentInv'
<1> USE DEF Became, Moves, Settles, Breaks, Replied
<1>1. ASSUME NEW r \in Slot, Page(r) PROVE SentInv'
  <2>1. CASE PageAsks(r)
    <3>1. Asks(r) /\ UNCHANGED <<log, written>>
      BY <2>1, PageAsksForm DEF Base
    <3> QED BY <3>1, SentKept DEF Asks
  <2>2. CASE Receive(r)
    BY <2>2, ReceiveSent
  <2>3. CASE ReceiveFailure(r) \/ Break(r)
    <3>1. (Settles(r) \/ Breaks(r)) /\ UNCHANGED <<log, written>>
      BY <2>3, FailureForm, BreakForm DEF pageVars
    <3> QED BY <3>1, SentKept
  <2> QED BY <1>1, <2>1, <2>2, <2>3 DEF Page, PageAsks
<1>2. ASSUME NEW r \in Slot, Serve(r) PROVE SentInv'
  <2>1. CASE Route(r)
    <3>1. /\ UNCHANGED <<log, written>> /\ \A q \in Slot \ {r} : req'[q] = req[q]
          /\ req'[r].pc # "replied"
      BY <2>1, RouteForms DEF pageVars
    <3> QED BY <3>1, SentKept
  <2>2. CASE RoutePuts(r)
    BY <2>2, RoutePutsForm, SentKept DEF Base, pageVars
  <2>3. CASE ViewPostLogin(r)
    BY <2>3, LoginForms, SentKept DEF pageVars
  <2>4. CASE Connect(r)
    BY <2>4, ConnectForms, SentKept DEF pageVars, Base, Staged, StagedAt
  <2>5. CASE ConnectFails(r)
    BY <2>5, ConnectFailsForm, SentKept DEF pageVars, Base, Staged, StagedAt
  <2>6. CASE ViewGetLogin(r)
    BY <2>6, GetLoginForm, SentKept DEF pageVars
  <2>7. CASE RetrieveMessages(r) \/ RetrieveRequests(r)
    BY <2>7, RetrieveForms, SentKept DEF pageVars
  <2>8. CASE MessagesCleared(r)
    BY <2>8, ClearedForms, SentKept DEF pageVars
  <2>9. CASE RequestsCleared(r)
    <3>1. req[r].kind = "updates" /\ UNCHANGED <<log, written>> /\ (Replied(r, None) \/ Breaks(r))
      BY <2>9, ClearedForms DEF pageVars, Base, Staged, StagedAt
    <3> QED BY <3>1, SentKept
  <2>10. CASE ViewWrites(r)
    <3>1. CASE Breaks(r) /\ UNCHANGED written
      BY <2>10, <3>1, WritesForms, SentKept DEF pageVars
    <3>2. CASE Replied(r, req[r].reply) /\ written' = written \cup ({req[r].reply} \ {None})
      <4>1. req[r].kind = "send" => req[r].reply \in written'
        BY <3>2, NoneAssumption DEF Base, Staged, StagedAt
      <4>2. UNCHANGED log
        BY <2>10, WritesForms DEF pageVars
      <4> QED BY <3>2, <4>1, <4>2, SentSlot DEF SentInv
    <3> QED BY <2>10, <3>1, <3>2, WritesForms
  <2> QED BY <1>2, <2>1, <2>2, <2>3, <2>4, <2>5, <2>6, <2>7, <2>8, <2>9, <2>10 DEF Serve
<1>3. UNCHANGED <<log, req, written>> => SentInv'
  BY DEF SentInv
<1>4. ASSUME NEW s \in Sess, Listener(s) PROVE SentInv'
  <2>1. CASE LoggedIn(s) \/ NotAuthorized(s) \/ ContactsChange(s) \/ StreamEnds(s)
    BY <1>3, <2>1, StillForms DEF Still, pageVars
  <2>2. CASE Stored(s)
    BY <1>3, <2>2, StoredForm DEF pageVars
  <2>3. ASSUME NEW x \in Item, Arrives(s, x) PROVE SentInv'
    BY <1>3, <2>3, ArrivesForm DEF pageVars
  <2> QED BY <1>4, <2>1, <2>2, <2>3 DEF Listener, Item
<1>5. CheckAndClose \/ CloseThrows \/ Remove => SentInv'
  BY <1>3, StillForms DEF Still, pageVars
<1>6. UNCHANGED vars => SentInv'
  BY <1>3 DEF vars, pageVars
<1> QED BY <1>1, <1>2, <1>4, <1>5, <1>6 DEF Next

(* A message of the user's own is shown only after it was written to the   *)
(* stream, for any number of requests under way: SentShown.                *)
THEOREM SentIsWritten == Spec => []SentShown
<1> DEFINE IInv == Base /\ SentInv
<1>1. Init => IInv
  <2> SUFFICES ASSUME Init PROVE IInv
    OBVIOUS
  <2>1. SentInv
    BY DEF Init, SentInv, Items, Idle
  <2> QED BY <2>1, BaseInit
<1>2. IInv /\ [Next]_vars => IInv'
  BY BaseStep, SentStep
<1>3. IInv => SentShown
  BY DEF SentInv, SentShown
<1> QED BY <1>1, <1>2, <1>3, PTL DEF Spec
-----------------------------------------------------------------------------
(* The channel of a connection and that of its session.                    *)
LEMMA ListensKept ==
    ASSUME Base, ListensToItsChannel, UNCHANGED <<connection, deaf>>,
           \A s \in Sess : sess'[s].hc = sess[s].hc,
           \A r \in Slot : req[r].pc = "connects" => req'[r].pc = "connects" /\ req'[r].at = req[r].at
    PROVE  ListensToItsChannel'
<1> SUFFICES ASSUME NEW c \in Conn, connection'[c].session # None, ~deaf',
                    \A r \in Slot : ~(req'[r].pc = "connects" /\ req'[r].at = c)
             PROVE  sess'[connection'[c].session].hc = connection'[c].hc
  BY DEF ListensToItsChannel
<1>1. connection'[c] = connection[c] /\ connection[c].session # None
  OBVIOUS
<1>2. connection[c].session \in Sess
  BY <1>1 DEF Base, Typed, Link
<1>3. \A r \in Slot : ~(req[r].pc = "connects" /\ req[r].at = c)
  OBVIOUS
<1>4. sess[connection[c].session].hc = connection[c].hc
  BY <1>1, <1>3 DEF ListensToItsChannel
<1> QED BY <1>1, <1>2, <1>4

LEMMA SlotListens ==
    ASSUME Base, ListensToItsChannel, UNCHANGED <<connection, deaf, sess>>, NEW r \in Slot,
           \A q \in Slot \ {r} : req'[q] = req[q], req[r].pc # "connects"
    PROVE  ListensToItsChannel'
  BY ListensKept

\* A connection gets a new channel: it has no session, or its login goes on.
LEMMA NewChannelListens ==
    ASSUME Base, ListensToItsChannel, NEW r \in Slot, \A q \in Slot \ {r} : req'[q] = req[q],
           req[r].pc # "connects", UNCHANGED <<sess, deaf>>, NEW c \in Conn, NewChannel(c),
           connection[c].session = None \/ (req'[r].pc = "connects" /\ req'[r].at = c)
    PROVE  ListensToItsChannel'
<1>1. /\ connection'[c].session = connection[c].session
      /\ \A d \in Conn \ {c} : connection'[d] = connection[d]
  BY NewChannelFacts
<1> SUFFICES ASSUME NEW d \in Conn, connection'[d].session # None, ~deaf',
                    \A q \in Slot : ~(req'[q].pc = "connects" /\ req'[q].at = d)
             PROVE  sess'[connection'[d].session].hc = connection'[d].hc
  BY DEF ListensToItsChannel
<1>2. d # c
  BY <1>1
<1>3. connection'[d] = connection[d] /\ connection[d].session # None
  BY <1>1, <1>2
<1>4. \A q \in Slot : ~(req[q].pc = "connects" /\ req[q].at = d)
  OBVIOUS
<1> QED BY <1>3, <1>4 DEF ListensToItsChannel

LEMMA ConnectListens ==
    ASSUME Base, ListensToItsChannel, NEW r \in Slot, Connect(r) PROVE ListensToItsChannel'
<1>1. /\ req[r].pc = "connects" /\ Replied(r, "ok") /\ req[r].at \in Conn
      /\ At(r).hc \in Chan /\ UNCHANGED deaf
  BY ConnectForms DEF pastVars
<1>2. PICK s \in Sess : /\ sess[s] = NoSess /\ sess'[s].storing = None /\ sess'[s].hc = At(r).hc
                        /\ sess' \in [Sess -> Session] /\ \A t \in Sess \ {s} : sess'[t] = sess[t]
                        /\ connection' \in [Conn -> Link]
                        /\ connection'[req[r].at].session = s /\ connection'[req[r].at].hc = At(r).hc
                        /\ \A c \in Conn \ {req[r].at} : connection'[c] = connection[c]
  BY ConnectFacts
<1> SUFFICES ASSUME NEW c \in Conn, connection'[c].session # None, ~deaf',
                    \A q \in Slot : ~(req'[q].pc = "connects" /\ req'[q].at = c)
             PROVE  sess'[connection'[c].session].hc = connection'[c].hc
  BY DEF ListensToItsChannel
<1>3. CASE c = req[r].at
  BY <1>2, <1>3
<1>4. CASE c # req[r].at
  <2>1. connection'[c] = connection[c] /\ connection[c].session # None
    BY <1>2, <1>4
  <2>2. connection[c].session \in Sess /\ sess[connection[c].session].hc \in Chan
    BY <2>1 DEF Base, Typed, Wired, Link
  <2>3. connection[c].session # s
    BY <1>2, <2>2, NoneAssumption DEF NoSess
  <2>4. \A q \in Slot : ~(req[q].pc = "connects" /\ req[q].at = c)
    BY <1>1, <1>4 DEF Replied, Became
  <2>5. sess[connection[c].session].hc = connection[c].hc
    BY <1>1, <2>1, <2>4 DEF ListensToItsChannel
  <2> QED BY <1>2, <2>1, <2>2, <2>3, <2>5
<1> QED BY <1>3, <1>4

LEMMA ConnectFailsListens ==
    ASSUME Base, ListensToItsChannel, NEW r \in Slot, ConnectFails(r) PROVE ListensToItsChannel'
<1>1. /\ req[r].pc = "connects" /\ Replied(r, "error")
      /\ deaf' = (deaf \/ (At(r).session # None /\ SessAt(r).hc # At(r).hc))
      /\ UNCHANGED <<connection, sess>>
  BY ConnectFailsForm DEF Base, connVars
<1> SUFFICES ASSUME NEW c \in Conn, connection[c].session # None, ~deaf',
                    \A q \in Slot : ~(req'[q].pc = "connects" /\ req'[q].at = c)
             PROVE  sess[connection[c].session].hc = connection[c].hc
  BY <1>1 DEF ListensToItsChannel
<1>2. CASE c = req[r].at
  BY <1>1, <1>2 DEF At, SessAt
<1>3. CASE c # req[r].at
  <2>1. \A q \in Slot : ~(req[q].pc = "connects" /\ req[q].at = c)
    BY <1>1, <1>3 DEF Replied, Became
  <2> QED BY <1>1, <2>1 DEF ListensToItsChannel
<1> QED BY <1>2, <1>3

LEMMA ListensStep == ASSUME Base, ListensToItsChannel, [Next]_vars PROVE ListensToItsChannel'
<1> USE DEF Became, Moves, Settles, Breaks, Replied
<1>1. ASSUME NEW r \in Slot, Page(r) PROVE ListensToItsChannel'
  <2>1. CASE PageAsks(r)
    <3>1. Asks(r) /\ UNCHANGED <<connection, sess, deaf>>
      BY <2>1, PageAsksForm DEF Base, connVars, pastVars
    <3> QED BY <3>1, SlotListens DEF Asks, Idle
  <2>2. CASE Receive(r)
    BY <2>2, ReceiveForm, SlotListens DEF connVars, pastVars
  <2>3. CASE ReceiveFailure(r) \/ Break(r)
    BY <2>3, FailureForm, BreakForm, SlotListens DEF connVars, pastVars
  <2> QED BY <1>1, <2>1, <2>2, <2>3 DEF Page, PageAsks
<1>2. ASSUME NEW r \in Slot, Serve(r) PROVE ListensToItsChannel'
  <2>1. CASE Route(r)
    <3>1. /\ req[r].pc = "arrives" /\ UNCHANGED <<sess, deaf>> /\ \A q \in Slot \ {r} : req'[q] = req[q]
          /\ \/ UNCHANGED connection
             \/ \E c \in Conn : connection[c].hc = None /\ NewChannel(c)
      BY <2>1, RouteForms DEF pastVars
    <3>2. \A c \in Conn : connection[c].hc = None => connection[c].session = None
      BY NoneAssumption DEF Base, Wired
    <3> QED BY <3>1, <3>2, SlotListens, NewChannelListens
  <2>2. CASE RoutePuts(r)
    BY <2>2, RoutePutsForm, SlotListens DEF Base, pastVars
  <2>3. CASE ViewPostLogin(r)
    <3>1. /\ req[r].pc = "serving" /\ UNCHANGED <<sess, deaf>> /\ \A q \in Slot \ {r} : req'[q] = req[q]
          /\ req'[r].pc = "connects" /\ req'[r].at = req[r].at /\ req[r].at \in Conn
          /\ UNCHANGED connection \/ NewChannel(req[r].at)
      BY <2>3, LoginForms DEF pastVars
    <3> QED BY <3>1, SlotListens, NewChannelListens
  <2>4. CASE Connect(r)
    BY <2>4, ConnectListens
  <2>5. CASE ConnectFails(r)
    BY <2>5, ConnectFailsListens
  <2>6. CASE ViewGetLogin(r)
    BY <2>6, GetLoginForm, SlotListens DEF connVars, pastVars
  <2>7. CASE RetrieveMessages(r) \/ RetrieveRequests(r)
    BY <2>7, RetrieveForms, SlotListens DEF connVars
  <2>8. CASE MessagesCleared(r) \/ RequestsCleared(r)
    BY <2>8, ClearedForms, SlotListens DEF pastVars
  <2>9. CASE ViewWrites(r)
    BY <2>9, WritesForms, SlotListens DEF connVars, pastVars
  <2> QED BY <1>2, <2>1, <2>2, <2>3, <2>4, <2>5, <2>6, <2>7, <2>8, <2>9 DEF Serve
<1>3. ASSUME Still PROVE ListensToItsChannel'
  <2>1. \A s \in Sess : sess'[s].hc = sess[s].hc
    BY <1>3 DEF Still, Turned
  <2> QED BY <1>3, <2>1, ListensKept DEF Still, pastVars
<1>4. ASSUME NEW s \in Sess, Listener(s) PROVE ListensToItsChannel'
  <2>1. CASE LoggedIn(s) \/ NotAuthorized(s) \/ ContactsChange(s) \/ StreamEnds(s)
    BY <1>3, <2>1, StillForms
  <2>2. ASSUME NEW st, Turned(s, st), UNCHANGED <<req, connection, deaf>> PROVE ListensToItsChannel'
    <3>1. \A t \in Sess : sess'[t].hc = sess[t].hc
      BY <2>2 DEF Turned
    <3> QED BY <2>2, <3>1, ListensKept
  <2>3. CASE Stored(s)
    BY <2>2, <2>3, StoredForm
  <2>4. ASSUME NEW x \in Item, Arrives(s, x) PROVE ListensToItsChannel'
    BY <2>2, <2>4, ArrivesForm
  <2> QED BY <1>4, <2>1, <2>3, <2>4 DEF Listener, Item
<1>5. CheckAndClose \/ CloseThrows \/ Remove => ListensToItsChannel'
  BY <1>3, StillForms
<1>6. UNCHANGED vars => ListensToItsChannel'
  BY DEF vars, connVars, pastVars, ListensToItsChannel
<1> QED BY <1>1, <1>2, <1>4, <1>5, <1>6 DEF Next

(* The channel that the page polls is the one that the listener of the     *)
(* current session fills, for any number of logins that overlap, unless a  *)
(* later login failed: ListensToItsChannel.                                *)
THEOREM PolledChannelIsFilled == Spec => []ListensToItsChannel
<1> DEFINE IInv == Base /\ ListensToItsChannel
<1>1. Init => IInv
  <2> SUFFICES ASSUME Init PROVE IInv
    OBVIOUS
  <2>1. ListensToItsChannel
    BY DEF Init, ListensToItsChannel
  <2> QED BY <2>1, BaseInit
<1>2. IInv /\ [Next]_vars => IInv'
  BY BaseStep, ListensStep
<1>3. IInv => ListensToItsChannel
  OBVIOUS
<1> QED BY <1>1, <1>2, <1>3, PTL DEF Spec
-----------------------------------------------------------------------------
(* Where an item is.  Only what arrived is anywhere, and in a list once;   *)
(* what is being stored has not arrived, and one listener stores it.       *)
Distinct(list) == \A i, j \in DOMAIN list : list[i] = list[j] => i = j

KnownChan == \A h \in Chan : /\ Items(chan[h].messages) \cup Items(chan[h].requests) \subseteq arrived
                             /\ Distinct(chan[h].messages) /\ Distinct(chan[h].requests)

KnownReq == \A r \in Slot : /\ Items(req[r].items) \cup Items(req[r].asks) \subseteq arrived
                            /\ Distinct(req[r].items)

KnownPage == Items(log) \cap Msg \subseteq arrived /\ asked \subseteq arrived /\ dropped \subseteq arrived

KnownStoring ==
    /\ \A s \in Sess : sess[s].storing # None =>
          /\ sess[s].storing.item \notin arrived
          /\ Items(sess[s].storing.list) \subseteq arrived /\ Distinct(sess[s].storing.list)
    /\ \A s, t \in Sess :
          (sess[s].storing # None /\ sess[t].storing # None /\ sess[s].storing.item = sess[t].storing.item) => s = t

Known == KnownChan /\ KnownReq /\ KnownPage /\ KnownStoring

\* Threads that are between reading and replacing a list: requests and sessions.
Takes(r, pc, h) == req[r].pc = pc /\ req[r].reply = h

Puts(s, S, h) == sess[s].hc = h /\ sess[s].storing # None /\ sess[s].storing.item \in S

\* One at a time, and what it read is still there.
Alone(pc, S) ==
    \A h \in Chan :
        /\ \A r, q \in Slot : Takes(r, pc, h) /\ Takes(q, pc, h) => r = q
        /\ \A s, t \in Sess : Puts(s, S, h) /\ Puts(t, S, h) => s = t
        /\ \A r \in Slot, s \in Sess : ~(Takes(r, pc, h) /\ Puts(s, S, h))

AsRead ==
    \A h \in Chan :
        /\ \A r \in Slot : /\ Takes(r, "messages", h) => req[r].items = chan[h].messages
                           /\ Takes(r, "requests", h) => req[r].asks = chan[h].requests
        /\ \A s \in Sess : /\ Puts(s, Msg, h) => sess[s].storing.list = chan[h].messages
                           /\ Puts(s, Subscriber, h) => sess[s].storing.list = chan[h].requests

Exclusive == Alone("messages", Msg) /\ Alone("requests", Subscriber) /\ AsRead

\* The places that an item can be in, as Holders counts them.
InChan(x, h) == x \in Items(chan[h].messages) \cup Items(chan[h].requests)

InReq(x, r) == \/ x \in Items(req[r].items) /\ req[r].pc # "messages"
               \/ x \in Items(req[r].asks) /\ req[r].pc # "requests"

NoChan(x) == \A h \in Chan : ~InChan(x, h)

NoReq(x) == \A r \in Slot : ~InReq(x, r)

NoPage(x) == x \notin Items(log) /\ x \notin asked /\ x \notin dropped

ChanOnly(x, h) == (\A g \in Chan : InChan(x, g) <=> g = h) /\ NoReq(x) /\ NoPage(x)

ReqOnly(x, r) == (\A q \in Slot : InReq(x, q) <=> q = r) /\ NoChan(x) /\ NoPage(x)

LogOnly(x, i) == /\ i \in DOMAIN log /\ \A j \in DOMAIN log : log[j] = x <=> j = i
                 /\ NoChan(x) /\ NoReq(x) /\ x \notin asked /\ x \notin dropped

PageOnly(x) == /\ (x \in asked /\ x \notin dropped) \/ (x \notin asked /\ x \in dropped)
               /\ NoChan(x) /\ NoReq(x) /\ x \notin Items(log)

OnePlace(x) == \/ \E h \in Chan : ChanOnly(x, h)
               \/ \E r \in Slot : ReqOnly(x, r)
               \/ \E i \in DOMAIN log : LogOnly(x, i)
               \/ PageOnly(x)

Placed == \A x \in arrived : OnePlace(x)

ItemInv == Known /\ (~raced => Exclusive /\ Placed)

\* An item that is in a channel, or with a request, is nowhere else.
LEMMA OnlyThere ==
    ASSUME NEW x, OnePlace(x)
    PROVE  /\ \A h \in Chan : InChan(x, h) => ChanOnly(x, h)
           /\ \A r \in Slot : InReq(x, r) => ReqOnly(x, r)
  BY DEF OnePlace, ChanOnly, ReqOnly, LogOnly, PageOnly, NoChan, NoReq

\* The log stays, or it grows by other items.
LogWithout(x) ==
    /\ DOMAIN log \subseteq DOMAIN log' /\ \A j \in DOMAIN log : log'[j] = log[j]
    /\ \A j \in DOMAIN log' \ DOMAIN log : log'[j] # x

LEMMA PlaceStays ==
    ASSUME NEW x, OnePlace(x), LogWithout(x), x \in asked' <=> x \in asked, x \in dropped' <=> x \in dropped,
           \A h \in Chan : InChan(x, h)' <=> InChan(x, h),
           \A r \in Slot : InReq(x, r)' <=> InReq(x, r)
    PROVE  OnePlace(x)'
<1>1. NoChan(x)' <=> NoChan(x)
  BY DEF NoChan
<1>2. NoReq(x)' <=> NoReq(x)
  BY DEF NoReq
<1>3. x \notin Items(log) => x \notin Items(log')
  BY DEF Items, LogWithout
<1>4. ASSUME NEW h \in Chan, ChanOnly(x, h) PROVE ChanOnly(x, h)'
  BY <1>2, <1>3, <1>4 DEF ChanOnly, NoPage
<1>5. ASSUME NEW r \in Slot, ReqOnly(x, r) PROVE ReqOnly(x, r)'
  BY <1>1, <1>3, <1>5 DEF ReqOnly, NoPage
<1>6. ASSUME NEW i \in DOMAIN log, LogOnly(x, i) PROVE i \in DOMAIN log' /\ LogOnly(x, i)'
  BY <1>1, <1>2, <1>6 DEF LogOnly, LogWithout
<1>7. PageOnly(x) => PageOnly(x)'
  BY <1>1, <1>2, <1>3 DEF PageOnly
<1> QED BY <1>4, <1>5, <1>6, <1>7 DEF OnePlace

LEMMA KeptLog == ASSUME NEW x, UNCHANGED log PROVE LogWithout(x)
  BY DEF LogWithout

(* A step that moves no item. *)
Quiet ==
    /\ ListsKept /\ UNCHANGED <<log, asked, arrived, dropped, raced>>
    /\ \A s \in Sess : /\ sess'[s].storing = sess[s].storing
                       /\ sess[s].storing # None => sess'[s].hc = sess[s].hc
    /\ \A r \in Slot : /\ req'[r].items = req[r].items /\ req'[r].asks = req[r].asks
                       /\ \A p \in {"messages", "requests"} : /\ req'[r].pc = p <=> req[r].pc = p
                                                              /\ req[r].pc = p => req'[r].reply = req[r].reply

LEMMA QuietStep == ASSUME ItemInv, Quiet PROVE ItemInv'
<1>1. Known'
  <2>1. KnownChan' /\ KnownReq' /\ KnownPage'
    BY DEF ItemInv, Known, Quiet, ListsKept, KnownChan, KnownReq, KnownPage
  <2>2. KnownStoring'
    BY DEF ItemInv, Known, Quiet, KnownStoring
  <2> QED BY <2>1, <2>2 DEF Known
<1> SUFFICES ASSUME ~raced', ~raced, Exclusive, Placed PROVE Exclusive' /\ Placed'
  BY <1>1 DEF ItemInv, Quiet
<1>2. \A h \in Chan, r \in Slot : /\ Takes(r, "messages", h)' <=> Takes(r, "messages", h)
                                  /\ Takes(r, "requests", h)' <=> Takes(r, "requests", h)
  BY DEF Quiet, Takes
<1>3. \A h \in Chan, s \in Sess : /\ Puts(s, Msg, h)' <=> Puts(s, Msg, h)
                                  /\ Puts(s, Subscriber, h)' <=> Puts(s, Subscriber, h)
  BY DEF Quiet, Puts
<1>4. Alone("messages", Msg)' /\ Alone("requests", Subscriber)'
  BY <1>2, <1>3 DEF Exclusive, Alone
<1>5. AsRead'
  BY <1>2, <1>3 DEF Exclusive, AsRead, Quiet, ListsKept
<1>6. ASSUME NEW x \in arrived PROVE OnePlace(x)'
  <2>1. \A h \in Chan : InChan(x, h)' <=> InChan(x, h)
    BY DEF Quiet, ListsKept, InChan
  <2>2. \A r \in Slot : InReq(x, r)' <=> InReq(x, r)
    BY DEF Quiet, InReq
  <2> QED BY <2>1, <2>2, KeptLog, PlaceStays DEF Placed, Quiet
<1> QED BY <1>4, <1>5, <1>6 DEF Exclusive, Placed, Quiet

\* One request moves on with what it has, and reads and replaces no list.
LEMMA QuietSlot ==
    ASSUME ListsKept, UNCHANGED <<log, asked, arrived, dropped, raced>>,
           \A s \in Sess : /\ sess'[s].storing = sess[s].storing
                           /\ sess[s].storing # None => sess'[s].hc = sess[s].hc,
           NEW r \in Slot, \A q \in Slot \ {r} : req'[q] = req[q],
           req'[r].items = req[r].items, req'[r].asks = req[r].asks,
           req[r].pc \notin {"messages", "requests"}, req'[r].pc \notin {"messages", "requests"}
    PROVE  Quiet
<1>1. ASSUME NEW q \in Slot
      PROVE  /\ req'[q].items = req[q].items /\ req'[q].asks = req[q].asks
             /\ \A p \in {"messages", "requests"} : /\ req'[q].pc = p <=> req[q].pc = p
                                                    /\ req[q].pc = p => req'[q].reply = req[q].reply
  <2>1. CASE q = r
    BY <2>1
  <2>2. CASE q # r
    BY <2>2
  <2> QED BY <2>1, <2>2
<1> QED BY <1>1 DEF Quiet

LEMMA KeptLists == ASSUME UNCHANGED chan PROVE ListsKept
  BY DEF ListsKept

LEMMA QuietPage ==
    ASSUME Base, NEW r \in Slot,
           \/ PageAsks(r) \/ ReceiveFailure(r)
           \/ Receive(r) /\ req[r].kind \notin {"updates", "send"}
    PROVE  Quiet
<1> USE DEF Became, Settles, connVars, pastVars
<1>1. CASE PageAsks(r)
  <2>1. /\ Asks(r) /\ UNCHANGED <<log, asked, connVars, written, pastVars>>
    BY <1>1, PageAsksForm DEF Base
  <2>2. /\ req[r].pc = "idle" /\ req[r].items = <<>> /\ req[r].asks = <<>>
        /\ req'[r].pc = "arrives" /\ req'[r].items = <<>> /\ req'[r].asks = <<>>
        /\ \A q \in Slot \ {r} : req'[q] = req[q]
    BY <2>1 DEF Asks, Idle
  <2> QED BY <2>1, <2>2, KeptLists, QuietSlot
<1>2. CASE ReceiveFailure(r)
  <2>1. req[r].pc = "failed" /\ Settles(r) /\ UNCHANGED <<pageVars, connVars, written, pastVars>>
    BY <1>2, FailureForm
  <2>2. req[r].items = <<>> /\ req[r].asks = <<>>
    BY <2>1 DEF Base, Staged, StagedAt
  <2> QED BY <2>1, <2>2, KeptLists, QuietSlot DEF pageVars
<1>3. CASE Receive(r) /\ req[r].kind \notin {"updates", "send"}
  <2>1. /\ Settles(r) /\ req[r].pc = "replied" /\ UNCHANGED <<connVars, written, pastVars>>
        /\ UNCHANGED <<log, asked>>
    BY <1>3, ReceiveForm
  <2>2. req[r].items = <<>> /\ req[r].asks = <<>>
    BY <1>3 DEF Base, Staged, StagedAt
  <2> QED BY <2>1, <2>2, KeptLists, QuietSlot
<1> QED BY <1>1, <1>2, <1>3

LEMMA QuietServe ==
    ASSUME Base, NEW r \in Slot,
           \/ Route(r) \/ RoutePuts(r) \/ ViewPostLogin(r) \/ Connect(r)
           \/ ConnectFails(r) \/ ViewGetLogin(r) \/ ViewWrites(r)
    PROVE  Quiet
<1> USE DEF Became, Moves, Breaks, Replied, pageVars, pastVars
<1>1. CASE Route(r)
  <2>1. /\ req[r].pc = "arrives" /\ UNCHANGED <<pageVars, sess, pastVars>>
        /\ req'[r].pc \in {"serving", "creates"} /\ req'[r].items = req[r].items /\ req'[r].asks = req[r].asks
        /\ \A q \in Slot \ {r} : req'[q] = req[q]
        /\ UNCHANGED chan \/ \E c \in Conn : NewChannel(c)
    BY <1>1, RouteForms
  <2>2. ListsKept
    BY <2>1, KeptLists, NewChannelFacts
  <2> QED BY <2>1, <2>2, QuietSlot
<1>2. CASE RoutePuts(r)
  BY <1>2, RoutePutsForm, KeptLists, QuietSlot DEF Base
<1>3. CASE ViewPostLogin(r)
  <2>1. /\ req[r].pc = "serving" /\ UNCHANGED <<pageVars, sess, pastVars>> /\ Moves(r, "connects")
        /\ UNCHANGED chan \/ (req[r].at \in Conn /\ NewChannel(req[r].at))
    BY <1>3, LoginForms
  <2>2. ListsKept
    BY <2>1, KeptLists, NewChannelFacts
  <2> QED BY <2>1, <2>2, QuietSlot
<1>4. CASE Connect(r)
  <2>1. req[r].pc = "connects" /\ Replied(r, "ok") /\ UNCHANGED <<pageVars, chan, pastVars>>
    BY <1>4, ConnectForms
  <2>2. PICK s \in Sess : /\ sess[s] = NoSess /\ sess'[s].storing = None
                          /\ \A t \in Sess \ {s} : sess'[t] = sess[t]
    BY <1>4, ConnectFacts
  <2>3. sess[s].storing = None
    BY <2>2 DEF NoSess
  <2>4. \A t \in Sess : /\ sess'[t].storing = sess[t].storing
                        /\ sess[t].storing # None => sess'[t].hc = sess[t].hc
    BY <2>2, <2>3
  <2> QED BY <2>1, <2>4, KeptLists, QuietSlot
<1>5. CASE ConnectFails(r)
  BY <1>5, ConnectFailsForm, KeptLists, QuietSlot DEF Base, connVars
<1>6. CASE ViewGetLogin(r)
  BY <1>6, GetLoginForm, KeptLists, QuietSlot DEF connVars
<1>7. CASE ViewWrites(r)
  <2>1. /\ req[r].pc = "serving" /\ req[r].kind # "updates" /\ UNCHANGED <<pageVars, connVars, pastVars>>
        /\ Replied(r, req[r].reply) \/ Breaks(r)
    BY <1>7, WritesForms
  <2>2. req[r].items = <<>> /\ req[r].asks = <<>>
    BY <2>1 DEF Base, Staged, StagedAt
  <2> QED BY <2>1, <2>2, KeptLists, QuietSlot DEF connVars
<1> QED BY <1>1, <1>2, <1>3, <1>4, <1>5, <1>6, <1>7

LEMMA QuietStill == ASSUME Still PROVE Quiet
<1>1. \A s \in Sess : sess'[s].storing = sess[s].storing /\ sess'[s].hc = sess[s].hc
  BY DEF Still, Turned
<1> QED BY <1>1 DEF Still, Quiet, pageVars, pastVars

\* No thread starts on a list, and a list that another thread is on stays.
Fewer ==
    \A h \in Chan :
        /\ \A r \in Slot : /\ Takes(r, "messages", h)' => /\ Takes(r, "messages", h)
                                                          /\ req'[r].items = req[r].items
                           /\ Takes(r, "requests", h)' => /\ Takes(r, "requests", h)
                                                          /\ req'[r].asks = req[r].asks
        /\ \A s \in Sess : /\ Puts(s, Msg, h)' => Puts(s, Msg, h) /\ sess'[s].storing = sess[s].storing
                           /\ Puts(s, Subscriber, h)' => /\ Puts(s, Subscriber, h)
                                                         /\ sess'[s].storing = sess[s].storing
        /\ \/ chan'[h].messages = chan[h].messages
           \/ /\ \A r \in Slot : ~Takes(r, "messages", h)'
              /\ \A s \in Sess : ~Puts(s, Msg, h)'
        /\ \/ chan'[h].requests = chan[h].requests
           \/ /\ \A r \in Slot : ~Takes(r, "requests", h)'
              /\ \A s \in Sess : ~Puts(s, Subscriber, h)'

LEMMA ExclusiveStays == ASSUME Exclusive, Fewer PROVE Exclusive'
<1>1. Alone("messages", Msg)' /\ Alone("requests", Subscriber)'
  BY DEF Exclusive, Alone, Fewer
<1>2. AsRead'
  <2> SUFFICES ASSUME NEW h \in Chan
               PROVE  /\ \A r \in Slot : /\ Takes(r, "messages", h)' => req'[r].items = chan'[h].messages
                                         /\ Takes(r, "requests", h)' => req'[r].asks = chan'[h].requests
                      /\ \A s \in Sess : /\ Puts(s, Msg, h)' => sess'[s].storing.list = chan'[h].messages
                                         /\ Puts(s, Subscriber, h)' => sess'[s].storing.list = chan'[h].requests
    BY DEF AsRead
  <2> QED BY DEF Exclusive, AsRead, Fewer
<1> QED BY <1>1, <1>2 DEF Exclusive

\* A request that is on no list changes, and nothing else that counts.
LEMMA FewerSlot ==
    ASSUME UNCHANGED <<chan, sess>>, NEW r \in Slot, \A q \in Slot \ {r} : req'[q] = req[q],
           req'[r].pc \notin {"messages", "requests"}
    PROVE  Fewer
<1>1. ASSUME NEW h \in Chan, NEW q \in Slot, NEW p \in {"messages", "requests"}, Takes(q, p, h)'
      PROVE  Takes(q, p, h) /\ req'[q] = req[q]
  BY <1>1 DEF Takes
<1>2. ASSUME NEW h \in Chan, NEW s \in Sess, NEW S, Puts(s, S, h)' PROVE Puts(s, S, h)
  BY <1>2 DEF Puts
<1> QED BY <1>1, <1>2 DEF Fewer

\* What a request has with it is on no list any more.
LEMMA HeldBy ==
    ASSUME Known, Placed, NEW r \in Slot, req[r].pc \notin {"messages", "requests"},
           NEW x \in Items(req[r].items) \cup Items(req[r].asks)
    PROVE  x \in arrived /\ ReqOnly(x, r)
<1>1. x \in arrived /\ InReq(x, r)
  BY DEF Known, KnownReq, InReq
<1> QED BY <1>1, OnlyThere DEF Placed

\* It is shown, or lost, and the request has nothing any more.
LEMMA Leaves ==
    ASSUME UNCHANGED <<chan, sess, arrived>>, NEW r \in Slot, \A q \in Slot \ {r} : req'[q] = req[q],
           req'[r].items = <<>>, req'[r].asks = <<>>, NEW x
    PROVE  /\ \A h \in Chan : InChan(x, h)' <=> InChan(x, h)
           /\ \A q \in Slot : InReq(x, q)' <=> q # r /\ InReq(x, q)
<1>1. Items(<<>>) = {}
  BY DEF Items
<1>2. ~InReq(x, r)'
  BY <1>1 DEF InReq
<1>3. \A q \in Slot \ {r} : InReq(x, q)' <=> InReq(x, q)
  BY DEF InReq
<1> QED BY <1>2, <1>3 DEF InChan

LEMMA LeavesKnown ==
    ASSUME Known, UNCHANGED <<chan, sess, arrived>>, NEW r \in Slot, \A q \in Slot \ {r} : req'[q] = req[q],
           req'[r].items = <<>>, req'[r].asks = <<>>, KnownPage'
    PROVE  Known'
<1>1. Items(<<>>) = {} /\ Distinct(<<>>)
  BY DEF Items, Distinct
<1>2. KnownReq'
  BY <1>1 DEF Known, KnownReq
<1> QED BY <1>2 DEF Known, KnownChan, KnownStoring

LEMMA BreakItems == ASSUME Base, ItemInv, NEW r \in Slot, Break(r) PROVE ItemInv'
<1>1. /\ req[r].pc \in {"arrives", "replied"} /\ Breaks(r)
      /\ dropped' = dropped \cup Items(req[r].items) \cup Items(req[r].asks)
      /\ UNCHANGED <<log, asked, chan, sess, arrived, raced>>
  BY BreakForm DEF pageVars, connVars
<1>2. /\ \A q \in Slot \ {r} : req'[q] = req[q]
      /\ req'[r].items = <<>> /\ req'[r].asks = <<>> /\ req'[r].pc \notin {"messages", "requests"}
  BY <1>1 DEF Breaks, Became
<1>3. Known'
  <2>1. KnownPage'
    BY <1>1 DEF ItemInv, Known, KnownPage, KnownReq
  <2> QED BY <1>1, <1>2, <2>1, LeavesKnown DEF ItemInv
<1> SUFFICES ASSUME ~raced PROVE Exclusive' /\ Placed'
  BY <1>1, <1>3 DEF ItemInv
<1>4. Known /\ Exclusive /\ Placed
  BY DEF ItemInv
<1>5. Exclusive'
  BY <1>1, <1>2, <1>4, FewerSlot, ExclusiveStays
<1>6. ASSUME NEW x \in arrived PROVE OnePlace(x)'
  <2>1. /\ \A h \in Chan : InChan(x, h)' <=> InChan(x, h)
        /\ \A q \in Slot : InReq(x, q)' <=> q # r /\ InReq(x, q)
    BY <1>1, <1>2, Leaves
  <2>2. CASE x \in Items(req[r].items) \cup Items(req[r].asks)
    <3>1. ReqOnly(x, r)
      BY <1>1, <1>4, <2>2, HeldBy
    <3>2. PageOnly(x)'
      BY <1>1, <2>1, <2>2, <3>1 DEF PageOnly, ReqOnly, NoChan, NoReq, NoPage
    <3> QED BY <3>2 DEF OnePlace
  <2>3. CASE x \notin Items(req[r].items) \cup Items(req[r].asks)
    <3>1. \A q \in Slot : InReq(x, q)' <=> InReq(x, q)
      BY <2>1, <2>3 DEF InReq
    <3>2. OnePlace(x) /\ LogWithout(x) /\ (x \in dropped' <=> x \in dropped) /\ asked' = asked
      BY <1>1, <1>4, <2>3, KeptLog DEF Placed
    <3> QED BY <2>1, <3>1, <3>2, PlaceStays
  <2> QED BY <2>2, <2>3
<1> QED BY <1>1, <1>5, <1>6 DEF Placed

\* What a concatenation has at each place.
LEMMA Places ==
    ASSUME NEW S, NEW a \in Seq(S), NEW b \in Seq(S)
    PROVE  /\ \A i \in DOMAIN a : i \in DOMAIN (a \o b) /\ (a \o b)[i] = a[i]
           /\ \A j \in DOMAIN b : Len(a) + j \in DOMAIN (a \o b) /\ (a \o b)[Len(a) + j] = b[j]
           /\ \A i \in DOMAIN (a \o b) \ DOMAIN a : \E j \in DOMAIN b : i = Len(a) + j
<1>1. /\ \A i \in DOMAIN a : i \in DOMAIN (a \o b) /\ (a \o b)[i] = a[i]
      /\ \A j \in DOMAIN b : Len(a) + j \in DOMAIN (a \o b) /\ (a \o b)[Len(a) + j] = b[j]
  OBVIOUS
<1>2. ASSUME NEW i \in DOMAIN (a \o b) \ DOMAIN a PROVE \E j \in DOMAIN b : i = Len(a) + j
  <2>1. i - Len(a) \in DOMAIN b /\ i = Len(a) + (i - Len(a))
    OBVIOUS
  <2> QED BY <2>1
<1> QED BY <1>1, <1>2

LEMMA ReceiveUpdates ==
    ASSUME Base, ItemInv, NEW r \in Slot, Receive(r), req[r].kind = "updates" PROVE ItemInv'
<1> DEFINE items == req[r].items
           asks == req[r].asks
<1>1. /\ Settles(r) /\ req[r].pc = "replied" /\ UNCHANGED <<chan, sess, arrived, dropped, raced>>
      /\ log' = log \o items /\ asked' = asked \cup Items(asks)
  BY ReceiveForm DEF connVars, pastVars
<1>2. /\ \A q \in Slot \ {r} : req'[q] = req[q]
      /\ req'[r].items = <<>> /\ req'[r].asks = <<>> /\ req'[r].pc \notin {"messages", "requests"}
  BY <1>1 DEF Settles, Became
<1>3. /\ log \in Seq(Msg \cup Own) /\ items \in Seq(Msg \cup Own)
      /\ Items(items) \subseteq Msg /\ Items(asks) \subseteq Subscriber
  BY ItemsOf DEF Base, Typed, Req
<1>4. Items(log') = Items(log) \cup Items(items)
  BY <1>1, <1>3, ItemsConcat
<1>5. Known'
  <2>1. Items(items) \cup Items(asks) \subseteq arrived
    BY DEF ItemInv, Known, KnownReq
  <2>2. KnownPage'
    BY <1>1, <1>4, <2>1 DEF ItemInv, Known, KnownPage
  <2> QED BY <1>1, <1>2, <2>2, LeavesKnown DEF ItemInv
<1> SUFFICES ASSUME ~raced PROVE Exclusive' /\ Placed'
  BY <1>1, <1>5 DEF ItemInv
<1>6. Known /\ Exclusive /\ Placed
  BY DEF ItemInv
<1>7. Exclusive'
  BY <1>1, <1>2, <1>6, FewerSlot, ExclusiveStays
<1>8. ASSUME NEW x \in arrived PROVE OnePlace(x)'
  <2>1. /\ \A h \in Chan : InChan(x, h)' <=> InChan(x, h)
        /\ \A q \in Slot : InReq(x, q)' <=> q # r /\ InReq(x, q)
    BY <1>1, <1>2, Leaves
  <2>2. CASE x \in Items(items)
    <3>1. ReqOnly(x, r) /\ x \notin Items(asks)
      BY <1>1, <1>3, <1>6, <2>2, HeldBy, ItemsAssumption
    <3>2. PICK j \in DOMAIN items : items[j] = x
      BY <2>2 DEF Items
    <3>3. \A k \in DOMAIN items : items[k] = x => k = j
      BY <3>2 DEF ItemInv, Known, KnownReq, Distinct
    <3>4. \A k \in DOMAIN log : log[k] # x
      BY <3>1 DEF ReqOnly, NoPage, Items
    <3>5. PICK i \in DOMAIN log' : i = Len(log) + j /\ log'[i] = x
      <4>1. Len(log) + j \in DOMAIN log' /\ log'[Len(log) + j] = x
        BY <1>1, <1>3, <3>2, Places
      <4> QED BY <4>1
    <3>6. ASSUME NEW k \in DOMAIN log', log'[k] = x PROVE k = i
      <4>1. k \notin DOMAIN log
        BY <1>1, <1>3, <3>4, <3>6, Places
      <4>2. PICK m \in DOMAIN items : k = Len(log) + m
        BY <1>1, <1>3, <4>1, Places
      <4>3. items[m] = x
        BY <1>1, <1>3, <3>6, <4>2, Places
      <4> QED BY <3>3, <3>5, <4>2, <4>3
    <3>7. LogOnly(x, i)'
      BY <1>1, <2>1, <3>1, <3>5, <3>6 DEF LogOnly, ReqOnly, NoChan, NoReq, NoPage
    <3> QED BY <3>5, <3>7 DEF OnePlace
  <2>3. CASE x \in Items(asks)
    <3>1. ReqOnly(x, r) /\ x \notin Items(items)
      BY <1>1, <1>3, <1>6, <2>3, HeldBy, ItemsAssumption
    <3>2. PageOnly(x)'
      BY <1>1, <1>4, <2>1, <2>3, <3>1 DEF PageOnly, ReqOnly, NoChan, NoReq, NoPage
    <3> QED BY <3>2 DEF OnePlace
  <2>4. CASE x \notin Items(items) \cup Items(asks)
    <3>1. \A q \in Slot : InReq(x, q)' <=> InReq(x, q)
      BY <2>1, <2>4 DEF InReq
    <3>2. \A k \in DOMAIN items : items[k] # x
      BY <2>4 DEF Items
    <3>3. LogWithout(x)
      <4>1. /\ DOMAIN log \subseteq DOMAIN log' /\ \A k \in DOMAIN log : log'[k] = log[k]
        BY <1>1, <1>3, Places
      <4>2. ASSUME NEW k \in DOMAIN log' \ DOMAIN log PROVE log'[k] # x
        <5>1. PICK m \in DOMAIN items : k = Len(log) + m
          BY <1>1, <1>3, Places
        <5>2. log'[k] = items[m]
          BY <1>1, <1>3, <5>1, Places
        <5> QED BY <3>2, <5>2
      <4> QED BY <4>1, <4>2 DEF LogWithout
    <3>4. OnePlace(x) /\ (x \in asked' <=> x \in asked) /\ dropped' = dropped
      BY <1>1, <1>6, <2>4 DEF Placed
    <3> QED BY <2>1, <3>1, <3>3, <3>4, PlaceStays
  <2> QED BY <2>2, <2>3, <2>4
<1> QED BY <1>1, <1>7, <1>8 DEF Placed

LEMMA ReceiveSend ==
    ASSUME Base, ItemInv, NEW r \in Slot, Receive(r), req[r].kind = "send" PROVE ItemInv'
<1>1. /\ Settles(r) /\ req[r].pc = "replied" /\ UNCHANGED <<asked, chan, sess, arrived, dropped, raced>>
      /\ log' = Append(log, req[r].reply)
  BY ReceiveForm DEF connVars, pastVars
<1>2. /\ \A q \in Slot \ {r} : req'[q] = req[q]
      /\ req'[r].items = <<>> /\ req'[r].asks = <<>> /\ req'[r].pc \notin {"messages", "requests"}
  BY <1>1 DEF Settles, Became
<1>3. log \in Seq(Msg \cup Own) /\ req[r].reply \in Own /\ req[r].items = <<>> /\ req[r].asks = <<>>
  BY DEF Base, Typed, Staged, StagedAt
<1>4. Items(log') = Items(log) \cup {req[r].reply} /\ req[r].reply \notin Msg
  BY <1>1, <1>3, ItemsAppend, ItemsAssumption
<1>5. Known'
  <2>1. KnownPage'
    BY <1>1, <1>4 DEF ItemInv, Known, KnownPage
  <2> QED BY <1>1, <1>2, <2>1, LeavesKnown DEF ItemInv
<1> SUFFICES ASSUME ~raced PROVE Exclusive' /\ Placed'
  BY <1>1, <1>5 DEF ItemInv
<1>6. Exclusive'
  BY <1>1, <1>2, FewerSlot, ExclusiveStays DEF ItemInv
<1>7. ASSUME NEW x \in arrived PROVE OnePlace(x)'
  <2>1. /\ \A h \in Chan : InChan(x, h)' <=> InChan(x, h)
        /\ \A q \in Slot : InReq(x, q)' <=> q # r /\ InReq(x, q)
    BY <1>1, <1>2, Leaves
  <2>2. ~InReq(x, r)
    BY <1>3 DEF InReq, Items
  <2>3. x # req[r].reply
    BY <1>3, ItemsAssumption DEF Base, Typed, Item
  <2>4. LogWithout(x)
    BY <1>1, <1>3, <2>3 DEF LogWithout
  <2> QED BY <1>1, <2>1, <2>2, <2>4, PlaceStays DEF ItemInv, Placed
<1> QED BY <1>1, <1>6, <1>7 DEF Placed

\* A thread starts on a list that no other is on.
LEMMA OneMore ==
    ASSUME NEW pc, NEW S, NEW h \in Chan, Alone(pc, S),
           \A r \in Slot : ~Takes(r, pc, h), \A s \in Sess : ~Puts(s, S, h)
    PROVE  /\ \A r \in Slot :
                 (/\ \A g \in Chan, q \in Slot : Takes(q, pc, g)' => Takes(q, pc, g) \/ (q = r /\ g = h)
                  /\ \A g \in Chan, s \in Sess : Puts(s, S, g)' => Puts(s, S, g))
                 => Alone(pc, S)'
           /\ \A s \in Sess :
                 (/\ \A g \in Chan, q \in Slot : Takes(q, pc, g)' => Takes(q, pc, g)
                  /\ \A g \in Chan, t \in Sess : Puts(t, S, g)' => Puts(t, S, g) \/ (t = s /\ g = h))
                 => Alone(pc, S)'
<1>1. ASSUME NEW r \in Slot,
             \A g \in Chan, q \in Slot : Takes(q, pc, g)' => Takes(q, pc, g) \/ (q = r /\ g = h),
             \A g \in Chan, s \in Sess : Puts(s, S, g)' => Puts(s, S, g)
      PROVE  Alone(pc, S)'
  BY <1>1 DEF Alone
<1>2. ASSUME NEW s \in Sess,
             \A g \in Chan, q \in Slot : Takes(q, pc, g)' => Takes(q, pc, g),
             \A g \in Chan, t \in Sess : Puts(t, S, g)' => Puts(t, S, g) \/ (t = s /\ g = h)
      PROVE  Alone(pc, S)'
  BY <1>2 DEF Alone
<1> QED BY <1>1, <1>2

LEMMA NotBusy ==
    ASSUME NEW h \in Chan
    PROVE  /\ ~MessagesBusy(h) => /\ \A r \in Slot : ~Takes(r, "messages", h)
                                  /\ \A s \in Sess : ~Puts(s, Msg, h)
           /\ ~RequestsBusy(h) => /\ \A r \in Slot : ~Takes(r, "requests", h)
                                  /\ \A s \in Sess : ~Puts(s, Subscriber, h)
  BY DEF MessagesBusy, RequestsBusy, Reading, Storing, Takes, Puts

LEMMA AloneStays ==
    ASSUME NEW pc, NEW S, Alone(pc, S),
           \A g \in Chan, q \in Slot : Takes(q, pc, g)' => Takes(q, pc, g),
           \A g \in Chan, s \in Sess : Puts(s, S, g)' => Puts(s, S, g)
    PROVE  Alone(pc, S)'
  BY DEF Alone

\* A request reads a list: what it takes is still there.
LEMMA RetrieveItems ==
    ASSUME Base, ItemInv, NEW r \in Slot, RetrieveMessages(r) \/ RetrieveRequests(r) PROVE ItemInv'
<1>0. PICK h \in Chan : h = At(r).hc
  BY RetrieveForms
<1>1. /\ UNCHANGED <<log, asked, chan, sess, arrived, dropped>>
      /\ \A q \in Slot \ {r} : req'[q] = req[q]
      /\ req'[r].reply = h /\ req[r].pc \in {"serving", "roster"} /\ (raced => raced')
  BY <1>0, RetrieveForms DEF Became, pageVars, connVars, Base, Typed
<1>2. \/ /\ req'[r].pc = "messages" /\ req'[r].items = chan[h].messages /\ req'[r].asks = req[r].asks
         /\ req[r].items = <<>>
         /\ ~raced' => ~MessagesBusy(h)
      \/ /\ req'[r].pc = "requests" /\ req'[r].items = req[r].items /\ req'[r].asks = chan[h].requests
         /\ ~raced' => ~RequestsBusy(h)
  <2>1. CASE RetrieveMessages(r)
    BY <1>0, <2>1, RetrieveForms DEF Became, Base, Staged, StagedAt
  <2>2. CASE RetrieveRequests(r)
    BY <1>0, <2>2, RetrieveForms DEF Became
  <2> QED BY <2>1, <2>2
<1>3. req[r].asks = <<>>
  BY <1>1 DEF Base, Staged, StagedAt
<1>4. Known'
  <2>1. ASSUME NEW q \in Slot
        PROVE  /\ Items(req'[q].items) \cup Items(req'[q].asks) \subseteq arrived'
               /\ Distinct(req'[q].items)
    <3>1. CASE q = r
      BY <1>1, <1>2, <3>1 DEF ItemInv, Known, KnownReq, KnownChan
    <3>2. CASE q # r
      BY <1>1, <3>2 DEF ItemInv, Known, KnownReq
    <3> QED BY <3>1, <3>2
  <2>2. KnownReq'
    BY <2>1 DEF KnownReq
  <2> QED BY <1>1, <2>2 DEF ItemInv, Known, KnownChan, KnownPage, KnownStoring
<1> SUFFICES ASSUME ~raced' PROVE Exclusive' /\ Placed'
  BY <1>4 DEF ItemInv
<1>5. ~raced /\ Exclusive /\ Placed
  BY <1>1 DEF ItemInv
<1>6. \A g \in Chan, s \in Sess : \A S : Puts(s, S, g)' <=> Puts(s, S, g)
  BY <1>1 DEF Puts
<1>7. \A g \in Chan, q \in Slot \ {r}, p \in {"messages", "requests"} : Takes(q, p, g)' <=> Takes(q, p, g)
  BY <1>1 DEF Takes
<1>8. \A g \in Chan, p \in {"messages", "requests"} : Takes(r, p, g)' <=> g = h /\ req'[r].pc = p
  BY <1>1, <1>2 DEF Takes
<1>9. Exclusive'
  <2>1. CASE req'[r].pc = "messages"
    <3>1. ~MessagesBusy(h)
      BY <1>2, <2>1
    <3>2. Alone("messages", Msg)'
      BY <1>1, <1>5, <1>6, <1>7, <1>8, <3>1, NotBusy, OneMore DEF Exclusive
    <3>3. Alone("requests", Subscriber)'
      BY <1>5, <1>6, <1>7, <1>8, <2>1, AloneStays DEF Exclusive
    <3>4. AsRead'
      BY <1>1, <1>2, <1>5, <1>6, <1>7, <1>8, <2>1 DEF AsRead, Exclusive
    <3> QED BY <3>2, <3>3, <3>4 DEF Exclusive
  <2>2. CASE req'[r].pc = "requests"
    <3>1. ~RequestsBusy(h)
      BY <1>2, <2>2
    <3>2. Alone("requests", Subscriber)'
      BY <1>1, <1>5, <1>6, <1>7, <1>8, <3>1, NotBusy, OneMore DEF Exclusive
    <3>3. Alone("messages", Msg)'
      BY <1>5, <1>6, <1>7, <1>8, <2>2, AloneStays DEF Exclusive
    <3>4. AsRead'
      BY <1>1, <1>2, <1>5, <1>6, <1>7, <1>8, <2>2 DEF AsRead, Exclusive
    <3> QED BY <3>2, <3>3, <3>4 DEF Exclusive
  <2> QED BY <1>2, <2>1, <2>2
<1>10. ASSUME NEW x \in arrived PROVE OnePlace(x)'
  <2>1. \A g \in Chan : InChan(x, g)' <=> InChan(x, g)
    BY <1>1 DEF InChan
  <2>2. \A q \in Slot \ {r} : InReq(x, q)' <=> InReq(x, q)
    BY <1>1 DEF InReq
  <2>3. InReq(x, r)' <=> InReq(x, r)
    BY <1>1, <1>2, <1>3 DEF InReq, Items
  <2>4. OnePlace(x) /\ LogWithout(x)
    BY <1>1, <1>5, KeptLog DEF Placed
  <2> QED BY <1>1, <2>1, <2>2, <2>3, <2>4, PlaceStays
<1> QED BY <1>1, <1>9, <1>10 DEF Placed

\* An item is in no list any more, and a request has it.
LEMMA ChanToReq ==
    ASSUME NEW x, NEW h \in Chan, ChanOnly(x, h), NEW r \in Slot, UNCHANGED <<log, asked, dropped>>,
           \A g \in Chan : InChan(x, g)' => g # h /\ InChan(x, g),
           \A q \in Slot : InReq(x, q)' <=> q = r \/ InReq(x, q)
    PROVE  OnePlace(x)'
<1>1. ReqOnly(x, r)'
  BY DEF ChanOnly, ReqOnly, NoChan, NoReq, NoPage
<1> QED BY <1>1 DEF OnePlace

LEMMA EmptyItems == Items(<<>>) = {} /\ Distinct(<<>>)
  BY DEF Items, Distinct

\* The request that empties a list is the only thread on it.
LEMMA EmptiesFewer ==
    ASSUME Exclusive, UNCHANGED sess, NEW r \in Slot, NEW h \in Chan, NEW p \in {"messages", "requests"},
           Takes(r, p, h), Emptied(h, p), \A q \in Slot \ {r} : req'[q] = req[q],
           req'[r].pc \notin {"messages", "requests"}
    PROVE  Fewer
<1>1. ASSUME NEW g \in Chan, NEW q \in Slot, NEW k \in {"messages", "requests"}, Takes(q, k, g)'
      PROVE  Takes(q, k, g) /\ req'[q] = req[q] /\ q # r
  BY <1>1 DEF Takes
<1>2. ASSUME NEW g \in Chan, NEW s \in Sess, NEW S, Puts(s, S, g)' PROVE Puts(s, S, g)
  BY <1>2 DEF Puts
<1>3. ASSUME p = "messages"
      PROVE  /\ \A q \in Slot : ~Takes(q, "messages", h)'
             /\ \A s \in Sess : ~Puts(s, Msg, h)'
  BY <1>1, <1>2, <1>3 DEF Exclusive, Alone
<1>4. ASSUME p = "requests"
      PROVE  /\ \A q \in Slot : ~Takes(q, "requests", h)'
             /\ \A s \in Sess : ~Puts(s, Subscriber, h)'
  BY <1>1, <1>2, <1>4 DEF Exclusive, Alone
<1>5. ASSUME NEW g \in Chan
      PROVE  /\ chan'[g].messages = chan[g].messages \/ (g = h /\ p = "messages")
             /\ chan'[g].requests = chan[g].requests \/ (g = h /\ p = "requests")
  BY DEF Emptied
<1> QED BY <1>1, <1>2, <1>3, <1>4, <1>5 DEF Fewer

LEMMA EmptiedKnown ==
    ASSUME Known, UNCHANGED <<log, asked, sess, arrived>>, dropped' \subseteq arrived,
           NEW r \in Slot, NEW h \in Chan, NEW p \in {"messages", "requests"}, Emptied(h, p),
           \A q \in Slot \ {r} : req'[q] = req[q],
           req'[r].items \in {req[r].items, <<>>}, req'[r].asks \in {req[r].asks, <<>>}
    PROVE  Known'
<1>1. KnownChan'
  <2> SUFFICES ASSUME NEW g \in Chan
               PROVE  /\ Items(chan'[g].messages) \cup Items(chan'[g].requests) \subseteq arrived'
                      /\ Distinct(chan'[g].messages) /\ Distinct(chan'[g].requests)
    BY DEF KnownChan
  <2>1. chan'[g].messages \in {chan[g].messages, <<>>} /\ chan'[g].requests \in {chan[g].requests, <<>>}
    BY DEF Emptied
  <2>2. /\ Items(chan[g].messages) \cup Items(chan[g].requests) \subseteq arrived
        /\ Distinct(chan[g].messages) /\ Distinct(chan[g].requests)
    BY DEF Known, KnownChan
  <2>3. Items(chan'[g].messages) \subseteq arrived /\ Distinct(chan'[g].messages)
    BY <2>1, <2>2, EmptyItems
  <2>4. Items(chan'[g].requests) \subseteq arrived /\ Distinct(chan'[g].requests)
    BY <2>1, <2>2, EmptyItems
  <2> QED BY <2>3, <2>4
<1>2. KnownReq'
  <2> SUFFICES ASSUME NEW q \in Slot
               PROVE  /\ Items(req'[q].items) \cup Items(req'[q].asks) \subseteq arrived'
                      /\ Distinct(req'[q].items)
    BY DEF KnownReq
  <2>1. req'[q].items \in {req[q].items, <<>>} /\ req'[q].asks \in {req[q].asks, <<>>}
    OBVIOUS
  <2>2. /\ Items(req[q].items) \cup Items(req[q].asks) \subseteq arrived
        /\ Distinct(req[q].items)
    BY DEF Known, KnownReq
  <2>3. Items(req'[q].items) \subseteq arrived /\ Distinct(req'[q].items)
    BY <2>1, <2>2, EmptyItems
  <2>4. Items(req'[q].asks) \subseteq arrived
    BY <2>1, <2>2, EmptyItems
  <2> QED BY <2>3, <2>4
<1>3. KnownPage'
  BY DEF Known, KnownPage
<1> QED BY <1>1, <1>2, <1>3 DEF Known, KnownStoring

LEMMA MessagesItems ==
    ASSUME Base, ItemInv, NEW r \in Slot, MessagesCleared(r) PROVE ItemInv'
<1>0. PICK h \in Chan : h = req[r].reply
  BY ClearedForms
<1>1. /\ req[r].pc = "messages" /\ Emptied(h, "messages") /\ Moves(r, "roster")
      /\ UNCHANGED <<log, asked, sess, arrived, dropped, raced>>
  BY <1>0, ClearedForms DEF pageVars, pastVars
<1>2. /\ \A q \in Slot \ {r} : req'[q] = req[q]
      /\ req'[r].pc = "roster"
      /\ req'[r].items = req[r].items /\ req'[r].asks = req[r].asks
  BY <1>1 DEF Moves, Became
<1>3. req[r].asks = <<>> /\ Items(req[r].items) \subseteq Msg
  BY <1>1, ItemsOf DEF Base, Staged, StagedAt
<1>4. Known'
  BY <1>1, <1>2, EmptiedKnown DEF ItemInv, Known, KnownPage
<1> SUFFICES ASSUME ~raced PROVE Exclusive' /\ Placed'
  BY <1>1, <1>4 DEF ItemInv
<1>5. Known /\ Exclusive /\ Placed
  BY DEF ItemInv
<1>6. Takes(r, "messages", h) /\ req[r].items = chan[h].messages
  BY <1>0, <1>1, <1>5 DEF Takes, Exclusive, AsRead
<1>7. Exclusive'
  BY <1>1, <1>2, <1>5, <1>6, EmptiesFewer, ExclusiveStays
<1>8. ASSUME NEW x \in arrived PROVE OnePlace(x)'
  <2>1. OnePlace(x)
    BY <1>5 DEF Placed
  <2>2. \A g \in Chan \ {h} : InChan(x, g)' <=> InChan(x, g)
    BY <1>1 DEF InChan, Emptied
  <2>3. /\ InChan(x, h)' <=> x \in Items(chan[h].requests)
        /\ InChan(x, h) <=> x \in Items(req[r].items) \/ x \in Items(chan[h].requests)
    BY <1>1, <1>6, EmptyItems DEF InChan, Emptied
  <2>4. \A q \in Slot \ {r} : InReq(x, q)' <=> InReq(x, q)
    BY <1>2 DEF InReq
  <2>5. /\ ~InReq(x, r)
        /\ InReq(x, r)' <=> x \in Items(req[r].items)
    BY <1>1, <1>2, <1>3, EmptyItems DEF InReq
  <2>6. CASE x \in Items(req[r].items)
    <3>1. x \notin Items(chan[h].requests)
      <4>1. chan[h].requests \in Seq(Subscriber)
        BY DEF Base, Typed, Channel
      <4>2. Items(chan[h].requests) \subseteq Subscriber
        BY <4>1 DEF Items
      <4> QED BY <1>3, <2>6, <4>2, ItemsAssumption
    <3>2. ChanOnly(x, h)
      BY <2>1, <2>3, <2>6, OnlyThere
    <3>3. \A g \in Chan : InChan(x, g)' => g # h /\ InChan(x, g)
      BY <2>2, <2>3, <3>1
    <3>4. \A q \in Slot : InReq(x, q)' <=> q = r \/ InReq(x, q)
      BY <2>4, <2>5, <2>6
    <3> QED BY <1>1, <3>2, <3>3, <3>4, ChanToReq
  <2>7. CASE x \notin Items(req[r].items)
    <3>1. \A g \in Chan : InChan(x, g)' <=> InChan(x, g)
      BY <2>2, <2>3, <2>7
    <3>2. \A q \in Slot : InReq(x, q)' <=> InReq(x, q)
      BY <2>4, <2>5, <2>7
    <3>3. LogWithout(x)
      BY <1>1, KeptLog
    <3> QED BY <1>1, <2>1, <3>1, <3>2, <3>3, PlaceStays
  <2> QED BY <2>6, <2>7
<1> QED BY <1>1, <1>7, <1>8 DEF Placed

LEMMA RequestsItems ==
    ASSUME Base, ItemInv, NEW r \in Slot, RequestsCleared(r) PROVE ItemInv'
<1>0. PICK h \in Chan : h = req[r].reply
  BY ClearedForms
<1>1. /\ req[r].pc = "requests" /\ Emptied(h, "requests")
      /\ UNCHANGED <<log, asked, sess, arrived, raced>>
  BY <1>0, ClearedForms DEF pageVars
<1>2. \/ /\ req'[r].pc = "replied" /\ req'[r].items = req[r].items /\ req'[r].asks = req[r].asks
         /\ dropped' = dropped
      \/ /\ req'[r].pc = "failed" /\ req'[r].items = <<>> /\ req'[r].asks = <<>>
         /\ dropped' = dropped \cup Items(req[r].items) \cup Items(req[r].asks)
  BY ClearedForms DEF Replied, Breaks, Became
<1>3. \A q \in Slot \ {r} : req'[q] = req[q]
  BY ClearedForms DEF Replied, Breaks, Became
<1>4. Items(req[r].asks) \subseteq Subscriber /\ Items(req[r].items) \subseteq Msg
  BY ItemsOf DEF Base
<1>5. Known'
  <2>1. dropped' \subseteq arrived
    BY <1>2 DEF ItemInv, Known, KnownPage, KnownReq
  <2>2. req'[r].items \in {req[r].items, <<>>} /\ req'[r].asks \in {req[r].asks, <<>>}
    BY <1>2
  <2> QED BY <1>1, <1>3, <2>1, <2>2, EmptiedKnown DEF ItemInv
<1> SUFFICES ASSUME ~raced PROVE Exclusive' /\ Placed'
  BY <1>1, <1>5 DEF ItemInv
<1>6. Known /\ Exclusive /\ Placed
  BY DEF ItemInv
<1>7. Takes(r, "requests", h) /\ req[r].asks = chan[h].requests
  BY <1>0, <1>1, <1>6 DEF Takes, Exclusive, AsRead
<1>8. Exclusive'
  BY <1>1, <1>2, <1>3, <1>6, <1>7, EmptiesFewer, ExclusiveStays
<1>9. ASSUME NEW x \in arrived PROVE OnePlace(x)'
  <2>1. OnePlace(x)
    BY <1>6 DEF Placed
  <2>2. \A g \in Chan \ {h} : InChan(x, g)' <=> InChan(x, g)
    BY <1>1 DEF InChan, Emptied
  <2>3. /\ InChan(x, h)' <=> x \in Items(chan[h].messages)
        /\ InChan(x, h) <=> x \in Items(req[r].asks) \/ x \in Items(chan[h].messages)
    BY <1>1, <1>7, EmptyItems DEF InChan, Emptied
  <2>4. \A q \in Slot \ {r} : InReq(x, q)' <=> InReq(x, q)
    BY <1>3 DEF InReq
  <2>5. InReq(x, r) <=> x \in Items(req[r].items)
    BY <1>1 DEF InReq
  <2>6. LogWithout(x) /\ UNCHANGED <<log, asked>>
    BY <1>1, KeptLog
  <2>7. CASE req'[r].pc = "replied"
    <3>1. InReq(x, r)' <=> x \in Items(req[r].items) \/ x \in Items(req[r].asks)
      BY <1>2, <2>7 DEF InReq
    <3>2. UNCHANGED dropped
      BY <1>2, <2>7
    <3>3. CASE x \in Items(req[r].asks)
      <4>1. x \notin Items(chan[h].messages)
        <5>1. chan[h].messages \in Seq(Msg)
          BY DEF Base, Typed, Channel
        <5>2. Items(chan[h].messages) \subseteq Msg
          BY <5>1 DEF Items
        <5> QED BY <1>4, <3>3, <5>2, ItemsAssumption
      <4>2. ChanOnly(x, h)
        BY <2>1, <2>3, <3>3, OnlyThere
      <4>3. \A g \in Chan : InChan(x, g)' => g # h /\ InChan(x, g)
        BY <2>2, <2>3, <4>1
      <4>4. \A q \in Slot : InReq(x, q)' <=> q = r \/ InReq(x, q)
        BY <2>4, <3>1, <3>3
      <4> QED BY <2>6, <3>2, <4>2, <4>3, <4>4, ChanToReq
    <3>4. CASE x \notin Items(req[r].asks)
      <4>1. \A g \in Chan : InChan(x, g)' <=> InChan(x, g)
        BY <2>2, <2>3, <3>4
      <4>2. \A q \in Slot : InReq(x, q)' <=> InReq(x, q)
        BY <2>4, <2>5, <3>1, <3>4
      <4> QED BY <2>1, <2>6, <3>2, <4>1, <4>2, PlaceStays
    <3> QED BY <3>3, <3>4
  <2>8. CASE req'[r].pc = "failed"
    <3>1. ~InReq(x, r)'
      BY <1>2, <2>8, EmptyItems DEF InReq
    <3>2. dropped' = dropped \cup Items(req[r].items) \cup Items(req[r].asks)
      BY <1>2, <2>8
    <3>3. CASE x \in Items(req[r].asks)
      <4>1. x \notin Items(chan[h].messages)
        <5>1. chan[h].messages \in Seq(Msg)
          BY DEF Base, Typed, Channel
        <5>2. Items(chan[h].messages) \subseteq Msg
          BY <5>1 DEF Items
        <5> QED BY <1>4, <3>3, <5>2, ItemsAssumption
      <4>2. ChanOnly(x, h)
        BY <2>1, <2>3, <3>3, OnlyThere
      <4>3. PageOnly(x)'
        BY <2>2, <2>3, <2>4, <2>6, <3>1, <3>2, <3>3, <4>1, <4>2 DEF PageOnly, ChanOnly, NoChan, NoReq, NoPage
      <4> QED BY <4>3 DEF OnePlace
    <3>4. CASE x \in Items(req[r].items)
      <4>1. x \notin Items(req[r].asks)
        BY <1>4, <3>4, ItemsAssumption
      <4>2. ReqOnly(x, r)
        BY <2>1, <2>5, <3>4, OnlyThere
      <4>3. PageOnly(x)'
        BY <2>2, <2>3, <2>4, <2>6, <3>1, <3>2, <3>4, <4>1, <4>2 DEF PageOnly, ReqOnly, NoChan, NoReq, NoPage
      <4> QED BY <4>3 DEF OnePlace
    <3>5. CASE x \notin Items(req[r].items) \cup Items(req[r].asks)
      <4>1. \A g \in Chan : InChan(x, g)' <=> InChan(x, g)
        BY <2>2, <2>3, <3>5
      <4>2. \A q \in Slot : InReq(x, q)' <=> InReq(x, q)
        BY <2>4, <2>5, <3>1, <3>5
      <4>3. x \in dropped' <=> x \in dropped
        BY <3>2, <3>5
      <4> QED BY <2>1, <2>6, <4>1, <4>2, <4>3, PlaceStays
    <3> QED BY <3>3, <3>4, <3>5
  <2> QED BY <1>2, <2>7, <2>8
<1> QED BY <1>1, <1>8, <1>9 DEF Placed

\* A listener reads a list.
LEMMA ArrivesItems ==
    ASSUME Base, ItemInv, NEW s \in Sess, NEW x \in Item, Arrives(s, x) PROVE ItemInv'
<1>0. PICK h \in Chan : h = sess[s].hc
  BY ArrivesForm
<1>1. /\ sess[s].storing = None /\ x \notin arrived
      /\ \A t \in Sess : sess[t].storing # None => sess[t].storing.item # x
      /\ UNCHANGED <<log, asked, req, chan, arrived, dropped>>
      /\ raced' = (raced \/ IF x \in Msg THEN MessagesBusy(h) ELSE RequestsBusy(h))
      /\ Turned(s, [item |-> x, list |-> IF x \in Msg THEN chan[h].messages ELSE chan[h].requests])
  BY <1>0, ArrivesForm DEF pageVars
<1>2. /\ \A t \in Sess \ {s} : sess'[t] = sess[t]
      /\ sess'[s].hc = h /\ sess'[s].storing # None /\ sess'[s].storing.item = x
      /\ sess'[s].storing.list = IF x \in Msg THEN chan[h].messages ELSE chan[h].requests
  <2>1. [item |-> x, list |-> IF x \in Msg THEN chan[h].messages ELSE chan[h].requests] # None
    <3>1. chan[h].messages \in Seq(Msg) /\ chan[h].requests \in Seq(Subscriber)
      BY DEF Base, Typed, Channel
    <3>2. (IF x \in Msg THEN chan[h].messages ELSE chan[h].requests) \in Seq(Msg \cup Subscriber)
      BY <3>1
    <3> QED BY <3>2, NoneAssumption DEF Item
  <2> QED BY <1>0, <1>1, <2>1 DEF Turned
<1>3. Known'
  <2>1. KnownStoring'
    <3>1. \A t \in Sess : sess'[t].storing # None =>
             /\ sess'[t].storing.item \notin arrived
             /\ Items(sess'[t].storing.list) \subseteq arrived /\ Distinct(sess'[t].storing.list)
      <4>1. /\ Items(sess'[s].storing.list) \subseteq arrived /\ Distinct(sess'[s].storing.list)
        BY <1>2 DEF ItemInv, Known, KnownChan
      <4> QED BY <1>1, <1>2, <4>1 DEF ItemInv, Known, KnownStoring
    <3>2. \A t, u \in Sess : (/\ sess'[t].storing # None /\ sess'[u].storing # None
                              /\ sess'[t].storing.item = sess'[u].storing.item) => t = u
      BY <1>1, <1>2 DEF ItemInv, Known, KnownStoring
    <3> QED BY <1>1, <3>1, <3>2 DEF KnownStoring
  <2> QED BY <1>1, <2>1 DEF ItemInv, Known, KnownChan, KnownReq, KnownPage
<1> SUFFICES ASSUME ~raced' PROVE Exclusive' /\ Placed'
  BY <1>3 DEF ItemInv
<1>4. ~raced /\ Exclusive /\ Placed /\ (IF x \in Msg THEN ~MessagesBusy(h) ELSE ~RequestsBusy(h))
  BY <1>1 DEF ItemInv
<1>5. \A g \in Chan, q \in Slot, p \in {"messages", "requests"} : Takes(q, p, g)' <=> Takes(q, p, g)
  BY <1>1 DEF Takes
<1>6. \A g \in Chan : \A S : /\ Puts(s, S, g)' <=> g = h /\ x \in S
                         /\ \A t \in Sess \ {s} : Puts(t, S, g)' <=> Puts(t, S, g)
  BY <1>2 DEF Puts
<1>7. x \in Subscriber <=> x \notin Msg
  BY ItemsAssumption DEF Item
<1>8. Exclusive'
  <2>1. CASE x \in Msg
    <3>1. Alone("messages", Msg)'
      BY <1>4, <1>5, <1>6, <2>1, NotBusy, OneMore DEF Exclusive
    <3>2. Alone("requests", Subscriber)'
      BY <1>4, <1>5, <1>6, <1>7, <2>1, AloneStays DEF Exclusive
    <3>3. AsRead'
      BY <1>1, <1>2, <1>4, <1>5, <1>6, <1>7, <2>1 DEF AsRead, Exclusive
    <3> QED BY <3>1, <3>2, <3>3 DEF Exclusive
  <2>2. CASE x \notin Msg
    <3>1. Alone("messages", Msg)'
      BY <1>4, <1>5, <1>6, <2>2, AloneStays DEF Exclusive
    <3>2. Alone("requests", Subscriber)'
      BY <1>4, <1>5, <1>6, <1>7, <2>2, NotBusy, OneMore DEF Exclusive
    <3>3. AsRead'
      BY <1>1, <1>2, <1>4, <1>5, <1>6, <1>7, <2>2 DEF AsRead, Exclusive
    <3> QED BY <3>1, <3>2, <3>3 DEF Exclusive
  <2> QED BY <2>1, <2>2
<1>9. ASSUME NEW y \in arrived PROVE OnePlace(y)'
  <2>1. /\ \A g \in Chan : InChan(y, g)' <=> InChan(y, g)
        /\ \A q \in Slot : InReq(y, q)' <=> InReq(y, q)
    BY <1>1 DEF InChan, InReq
  <2> QED BY <1>1, <1>4, <2>1, KeptLog, PlaceStays DEF Placed
<1> QED BY <1>1, <1>8, <1>9 DEF Placed

LEMMA NewestFirst ==
    ASSUME NEW S, NEW list \in Seq(S), NEW x \in S
    PROVE  /\ Items(<<x>> \o list) = {x} \cup Items(list)
           /\ x \notin Items(list) /\ Distinct(list) => Distinct(<<x>> \o list)
<1> DEFINE l == <<x>> \o list
<1>1. <<x>> \in Seq(S) /\ Items(<<x>>) = {x}
  BY DEF Items
<1>2. Items(l) = {x} \cup Items(list)
  <2>1. \A a, b \in Seq(S) : Items(a \o b) = Items(a) \cup Items(b)
    BY ItemsConcat
  <2>2. Items(<<x>> \o list) = Items(<<x>>) \cup Items(list)
    BY <1>1, <2>1, Zenon
  <2> QED BY <1>1, <2>2
<1>3. ASSUME x \notin Items(list), Distinct(list), NEW i \in DOMAIN l, NEW j \in DOMAIN l, l[i] = l[j]
      PROVE  i = j
  <2>1. l[1] = x /\ \A k \in DOMAIN l \ {1} : k - 1 \in DOMAIN list /\ l[k] = list[k - 1]
    OBVIOUS
  <2>2. \A k \in DOMAIN l \ {1} : l[k] # x
    BY <1>3, <2>1 DEF Items
  <2>3. CASE i = 1 \/ j = 1
    BY <1>3, <2>1, <2>2, <2>3
  <2>4. CASE i # 1 /\ j # 1
    <3>1. i - 1 \in DOMAIN list /\ j - 1 \in DOMAIN list /\ list[i - 1] = list[j - 1]
      BY <1>3, <2>1, <2>4
    <3>2. i - 1 = j - 1
      BY <1>3, <3>1 DEF Distinct
    <3> QED BY <3>2
  <2> QED BY <2>3, <2>4
<1> QED BY <1>2, <1>3 DEF Distinct

\* A listener replaces the list that it read: the item is in the channel.
LEMMA StoredItems == ASSUME Base, ItemInv, NEW s \in Sess, Stored(s) PROVE ItemInv'
<1>0. PICK h \in Chan, x \in Item : h = sess[s].hc /\ x = sess[s].storing.item
  BY StoredForm
<1>1. PICK old \in Seq(Item) : old = sess[s].storing.list
  <2>1. sess[s].storing \in Storing0 /\ sess[s].storing # None
    BY StoredForm DEF Base, Typed, Session
  <2> QED BY <2>1 DEF Storing0
<1> DEFINE l == <<x>> \o old
<1>2. /\ sess[s].storing # None
      /\ arrived' = arrived \cup {x} /\ \A g \in Chan \ {h} : chan'[g] = chan[g]
      /\ x \in Msg => chan'[h].messages = l /\ chan'[h].requests = chan[h].requests
      /\ x \notin Msg => chan'[h].requests = l /\ chan'[h].messages = chan[h].messages
      /\ UNCHANGED <<log, asked, req, dropped, raced>>
  BY <1>0, <1>1, StoredForm DEF pageVars
<1>3. /\ sess'[s].storing = None /\ \A t \in Sess \ {s} : sess'[t] = sess[t]
  BY StoredForm DEF Turned
<1>4. /\ x \notin arrived /\ Items(old) \subseteq arrived /\ Distinct(old)
      /\ \A t \in Sess \ {s} : sess[t].storing # None => sess[t].storing.item # x
  BY <1>0, <1>1, <1>2 DEF ItemInv, Known, KnownStoring
<1>5. Items(l) = {x} \cup Items(old) /\ Distinct(l)
  BY <1>4, NewestFirst
<1> HIDE DEF l
<1>6. Known'
  <2>1. KnownChan'
    <3> SUFFICES ASSUME NEW g \in Chan
                 PROVE  /\ Items(chan'[g].messages) \cup Items(chan'[g].requests) \subseteq arrived'
                        /\ Distinct(chan'[g].messages) /\ Distinct(chan'[g].requests)
      BY DEF KnownChan
    <3>1. /\ Items(chan[g].messages) \cup Items(chan[g].requests) \subseteq arrived
          /\ Distinct(chan[g].messages) /\ Distinct(chan[g].requests)
      BY DEF ItemInv, Known, KnownChan
    <3>2. chan'[g].messages \in {chan[g].messages, l} /\ chan'[g].requests \in {chan[g].requests, l}
      BY <1>2
    <3>3. Items(chan'[g].messages) \subseteq arrived' /\ Distinct(chan'[g].messages)
      BY <1>2, <1>4, <1>5, <3>1, <3>2
    <3>4. Items(chan'[g].requests) \subseteq arrived' /\ Distinct(chan'[g].requests)
      BY <1>2, <1>4, <1>5, <3>1, <3>2
    <3> QED BY <3>3, <3>4
  <2>2. KnownReq' /\ KnownPage'
    BY <1>2 DEF ItemInv, Known, KnownReq, KnownPage
  <2>3. KnownStoring'
    <3>1. \A t \in Sess : sess'[t].storing # None =>
             /\ sess'[t].storing.item \notin arrived'
             /\ Items(sess'[t].storing.list) \subseteq arrived' /\ Distinct(sess'[t].storing.list)
      BY <1>2, <1>3, <1>4 DEF ItemInv, Known, KnownStoring
    <3>2. \A t, u \in Sess : (/\ sess'[t].storing # None /\ sess'[u].storing # None
                              /\ sess'[t].storing.item = sess'[u].storing.item) => t = u
      BY <1>3 DEF ItemInv, Known, KnownStoring
    <3> QED BY <3>1, <3>2 DEF KnownStoring
  <2> QED BY <2>1, <2>2, <2>3 DEF Known
<1> SUFFICES ASSUME ~raced PROVE Exclusive' /\ Placed'
  BY <1>2, <1>6 DEF ItemInv
<1>7. Known /\ Exclusive /\ Placed
  BY DEF ItemInv
<1>8. x \in Subscriber <=> x \notin Msg
  BY ItemsAssumption DEF Item
<1>9. /\ x \in Msg => Puts(s, Msg, h) /\ old = chan[h].messages
      /\ x \notin Msg => Puts(s, Subscriber, h) /\ old = chan[h].requests
  <2>1. \A S : x \in S => Puts(s, S, h)
    BY <1>0, <1>2 DEF Puts
  <2> QED BY <1>1, <1>7, <1>8, <2>1 DEF Exclusive, AsRead
<1>10. Exclusive'
  <2>1. \A g \in Chan, q \in Slot, p \in {"messages", "requests"} : Takes(q, p, g)' <=> Takes(q, p, g)
    BY <1>2 DEF Takes
  <2>2. \A g \in Chan, t \in Sess : \A S : Puts(t, S, g)' => t # s /\ Puts(t, S, g) /\ sess'[t].storing = sess[t].storing
    BY <1>3 DEF Puts
  <2>3. x \in Msg => /\ \A q \in Slot : ~Takes(q, "messages", h)'
                     /\ \A t \in Sess : ~Puts(t, Msg, h)'
    BY <1>7, <1>9, <2>1, <2>2 DEF Exclusive, Alone
  <2>4. x \notin Msg => /\ \A q \in Slot : ~Takes(q, "requests", h)'
                        /\ \A t \in Sess : ~Puts(t, Subscriber, h)'
    BY <1>7, <1>9, <2>1, <2>2 DEF Exclusive, Alone
  <2>5. \A g \in Chan : /\ chan'[g].messages = chan[g].messages \/ (g = h /\ x \in Msg)
                        /\ chan'[g].requests = chan[g].requests \/ (g = h /\ x \notin Msg)
    BY <1>2
  <2>6. Fewer
    BY <1>2, <2>1, <2>2, <2>3, <2>4, <2>5 DEF Fewer
  <2> QED BY <1>7, <2>6, ExclusiveStays
<1>11. \A y, q : InReq(y, q)' <=> InReq(y, q)
  BY <1>2 DEF InReq
<1>12. \A y : /\ \A g \in Chan \ {h} : InChan(y, g)' <=> InChan(y, g)
              /\ InChan(y, h)' <=> y = x \/ InChan(y, h)
  <2>1. \A y : \A g \in Chan \ {h} : InChan(y, g)' <=> InChan(y, g)
    BY <1>2 DEF InChan
  <2>2. \A y : InChan(y, h)' <=> y = x \/ InChan(y, h)
    BY <1>2, <1>5, <1>9 DEF InChan
  <2> QED BY <2>1, <2>2
<1>13. ASSUME NEW y \in arrived PROVE OnePlace(y)'
  <2>1. y # x
    BY <1>4
  <2> QED BY <1>2, <1>7, <1>11, <1>12, <2>1, KeptLog, PlaceStays DEF Placed
<1>14. ChanOnly(x, h)'
  <2>1. /\ \A g \in Chan : ~InChan(x, g)
        /\ \A q \in Slot : ~InReq(x, q)
    BY <1>4, <1>7 DEF InChan, InReq, Known, KnownChan, KnownReq
  <2>2. x \notin Items(log)
    <3>1. log \in Seq(Msg \cup Own)
      BY DEF Base, Typed
    <3>2. Items(log) \subseteq Msg \cup Own
      BY <3>1 DEF Items
    <3> QED BY <1>4, <1>7, <3>2, ItemsAssumption DEF Known, KnownPage, Item
  <2>3. x \notin asked /\ x \notin dropped
    BY <1>4, <1>7 DEF Known, KnownPage
  <2> QED BY <1>2, <1>11, <1>12, <2>1, <2>2, <2>3 DEF ChanOnly, NoReq, NoPage
<1> QED BY <1>2, <1>10, <1>13, <1>14 DEF Placed, OnePlace

LEMMA ItemStep == ASSUME Base, ItemInv, [Next]_vars PROVE ItemInv'
<1>1. ASSUME NEW r \in Slot, Page(r) PROVE ItemInv'
  <2>1. CASE PageAsks(r) \/ ReceiveFailure(r) \/ (Receive(r) /\ req[r].kind \notin {"updates", "send"})
    BY <2>1, QuietPage, QuietStep
  <2>2. CASE Receive(r) /\ req[r].kind \in {"updates", "send"}
    BY <2>2, ReceiveUpdates, ReceiveSend
  <2>3. CASE Break(r)
    BY <2>3, BreakItems
  <2> QED BY <1>1, <2>1, <2>2, <2>3 DEF Page, PageAsks
<1>2. ASSUME NEW r \in Slot, Serve(r) PROVE ItemInv'
  BY <1>2, QuietServe, QuietStep, RetrieveItems, MessagesItems, RequestsItems DEF Serve
<1>3. ASSUME NEW s \in Sess, Listener(s) PROVE ItemInv'
  BY <1>3, StillForms, QuietStill, QuietStep, ArrivesItems, StoredItems DEF Listener, Item
<1>4. CheckAndClose \/ CloseThrows \/ Remove => ItemInv'
  BY StillForms, QuietStill, QuietStep
<1>5. UNCHANGED vars => ItemInv'
  BY QuietStep DEF vars, pageVars, connVars, pastVars, Quiet, ListsKept
<1> QED BY <1>1, <1>2, <1>3, <1>4, <1>5 DEF Next

LEMMA ItemInit == Init => ItemInv
<1> SUFFICES ASSUME Init PROVE ItemInv
  OBVIOUS
<1>1. [NewChan EXCEPT !.open = FALSE].messages = <<>> /\ [NewChan EXCEPT !.open = FALSE].requests = <<>>
  BY DEF NewChan
<1>2. Known
  BY <1>1, EmptyItems DEF Init, Known, KnownChan, KnownReq, KnownPage, KnownStoring, Idle, NoSess
<1>3. Exclusive
  BY DEF Init, Exclusive, Alone, AsRead, Takes, Puts, Idle, NoSess
<1>4. Placed
  BY DEF Init, Placed
<1> QED BY <1>2, <1>3, <1>4 DEF ItemInv

\* One place is one holder.
LEMMA OneHolder ==
    ASSUME Base, NEW x, OnePlace(x) PROVE Holders(x) = 1
<1> DEFINE inChan == {h \in Chan : x \in Items(chan[h].messages) \cup Items(chan[h].requests)}
           inReq  == {r \in Slot : \/ x \in Items(req[r].items) /\ req[r].pc # "messages"
                                   \/ x \in Items(req[r].asks) /\ req[r].pc # "requests"}
           inLog  == {i \in DOMAIN log : log[i] = x}
           onPage == {asked, dropped} \cap {S \in {asked, dropped} : x \in S}
<1>1. Holders(x) = Cardinality(inChan) + Cardinality(inReq) + Cardinality(inLog) + Cardinality(onPage)
  BY DEF Holders
<1>2. Cardinality({}) = 0 /\ \A y : Cardinality({y}) = 1
  BY FS_EmptySet, FS_Singleton
<1>3. /\ NoChan(x) => inChan = {}
      /\ NoReq(x) => inReq = {}
      /\ x \notin Items(log) => inLog = {}
      /\ x \notin asked /\ x \notin dropped => onPage = {}
  BY DEF NoChan, NoReq, InChan, InReq, Items
<1>4. ASSUME NEW h \in Chan, ChanOnly(x, h) PROVE Holders(x) = 1
  <2>1. inChan = {h}
    BY <1>4 DEF ChanOnly, InChan
  <2>2. inReq = {} /\ inLog = {} /\ onPage = {}
    BY <1>3, <1>4 DEF ChanOnly, NoPage
  <2> HIDE DEF inChan, inReq, inLog, onPage
  <2> QED BY <1>1, <1>2, <2>1, <2>2
<1>5. ASSUME NEW r \in Slot, ReqOnly(x, r) PROVE Holders(x) = 1
  <2>1. inReq = {r}
    BY <1>5 DEF ReqOnly, InReq
  <2>2. inChan = {} /\ inLog = {} /\ onPage = {}
    BY <1>3, <1>5 DEF ReqOnly, NoPage
  <2> HIDE DEF inChan, inReq, inLog, onPage
  <2> QED BY <1>1, <1>2, <2>1, <2>2
<1>6. ASSUME NEW i \in DOMAIN log, LogOnly(x, i) PROVE Holders(x) = 1
  <2>1. inLog = {i}
    BY <1>6 DEF LogOnly
  <2>2. inChan = {} /\ inReq = {} /\ onPage = {} /\ Cardinality({i}) = 1
    BY <1>2, <1>3, <1>6 DEF LogOnly
  <2> HIDE DEF inChan, inReq, inLog, onPage
  <2> QED BY <1>1, <1>2, <2>1, <2>2
<1>7. ASSUME PageOnly(x) PROVE Holders(x) = 1
  <2>1. onPage = {asked} \/ onPage = {dropped}
    BY <1>7 DEF PageOnly
  <2>2. inChan = {} /\ inReq = {} /\ inLog = {}
    BY <1>3, <1>7 DEF PageOnly
  <2>3. Cardinality(onPage) = 1
    BY <1>2, <2>1
  <2> HIDE DEF inChan, inReq, inLog, onPage
  <2> QED BY <1>1, <1>2, <2>2, <2>3
<1> QED BY <1>4, <1>5, <1>6, <1>7 DEF OnePlace

(* What a listener has put into a channel is in one place, for any number  *)
(* of polls, logins and listeners that overlap, unless two threads were    *)
(* between reading and replacing one list: Conserved.                      *)
THEOREM NothingIsLost == Spec => []Conserved
<1> DEFINE IInv == Base /\ ItemInv
<1>1. Init => IInv
  BY BaseInit, ItemInit
<1>2. IInv /\ [Next]_vars => IInv'
  BY BaseStep, ItemStep
<1>3. IInv => Conserved
  BY OneHolder DEF ItemInv, Placed, Conserved
<1> QED BY <1>1, <1>2, <1>3, PTL DEF Spec
=============================================================================
