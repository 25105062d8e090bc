-------------------------------- MODULE WebChat --------------------------------
(***************************************************************************)
(* The web client: the page (chat.js, system.js), the servlet that serves  *)
(* its requests, each on a thread of its own, the ChatConnection of the    *)
(* HTTP session with its WebHumanChannel, the listener threads that fill   *)
(* the channel from the chat server, and the WatchDog.                     *)
(*                                                                         *)
(* The page runs one callback at a time; Exchange says in which order the  *)
(* callbacks of one request come.  $get and its like give only onSuccess,  *)
(* so a request that fails changes nothing on the page, and neither does   *)
(* one whose connection breaks: its empty text does not parse as JSON.     *)
(* The lists of a channel are read and then replaced, in two steps.        *)
(***************************************************************************)
EXTENDS Integers, Sequences, FiniteSets

CONSTANTS Slot,         \* requests under way at one time, a bound
          Conn,         \* ChatConnections that are created, a bound
          Sess,         \* ClientSessions that are created, a bound
          Chan,         \* WebHumanChannels that are created, a bound
          Msg,          \* messages that arrive from the chat server
          Subscriber,   \* users that ask for a subscription
          Own,          \* messages the user sends
          Manages,      \* whether the user changes status and contacts, a bound
          RetryLimit,   \* 6 in wait_for_login
          MaxLogins,    \* bound on the login forms that are submitted
          MaxFails,     \* bound on the requests that fail on the way
          MaxChanges,   \* bound on the changes of the contacts
          None

ASSUME IdsAssumption == Conn \subseteq Nat /\ Sess \subseteq Nat /\ Chan \subseteq Nat /\ Slot \subseteq Nat
ASSUME LimitAssumption == RetryLimit \in Nat \ {0} /\ Manages \in BOOLEAN
ASSUME ItemsAssumption == Msg \cap Subscriber = {} /\ Own \cap (Msg \cup Subscriber) = {}
ASSUME NoneAssumption  == /\ None \notin Conn \cup Sess \cup Chan \cup Own
                          /\ None \notin [item : Msg \cup Subscriber, list : Seq(Msg \cup Subscriber)]

VARIABLES
    form, chat,     \* #login and #chat are visible
    retry,          \* log_retry
    waits,          \* timers of wait_for_login.delay(3)
    pollers,        \* PeriodicalExecuters of switch_to_chat
    log,            \* the messages shown, in order
    asked,          \* subscribers the user was asked about
    roster,         \* the contacts shown
    req,            \* [Slot -> a request under way, or Idle]
    conns,          \* conns.get(session id)
    connection,     \* [Conn -> [hc, session]]
    sess,           \* [Sess -> [logged, hc, up, storing]]
    chan,           \* [Chan -> [messages, requests, contacts, open]]
    contacts,       \* Roster.contacts, one list for all sessions: its version
    dog,            \* the WatchDog: "sleeps", "removes" or "dead"
    logins, fails,  \* how often these happened
    written,        \* own messages written to the stream
    arrived,        \* what a listener has put into a channel
    dropped,        \* what was taken from a channel and never reached the page
    raced,          \* two threads were between reading and replacing one list
    deaf            \* a login failed after it had replaced the channel

pageVars  == <<form, chat, retry, waits, pollers, log, asked, roster>>
countVars == <<logins, fails>>
connVars  == <<conns, connection, sess, chan, contacts>>
pastVars  == <<arrived, dropped, raced, deaf>>
vars == <<pageVars, req, connVars, dog, countVars, written, pastVars>>

Idle   == [kind |-> "idle", pc |-> "idle", at |-> None, items |-> <<>>,
           asks |-> <<>>, contacts |-> 0, reply |-> None]
NoSess == [logged |-> 0, hc |-> None, up |-> FALSE, storing |-> None]
NewChan == [messages |-> <<>>, requests |-> <<>>, contacts |-> 0, open |-> TRUE]
Items(seq) == {seq[i] : i \in DOMAIN seq}

Init ==
    /\ form = TRUE /\ chat = FALSE /\ retry = 0 /\ waits = 0 /\ pollers = 0
    /\ log = <<>> /\ asked = {} /\ roster = 0
    /\ req = [s \in Slot |-> Idle]
    /\ conns = None
    /\ connection = [c \in Conn |-> [hc |-> None, session |-> None]]
    /\ sess = [s \in Sess |-> NoSess]
    /\ chan = [h \in Chan |-> [NewChan EXCEPT !.open = FALSE]]
    /\ contacts = 0 /\ dog = "sleeps"
    /\ logins = 0 /\ fails = 0
    /\ written = {} /\ arrived = {} /\ dropped = {} /\ raced = FALSE /\ deaf = FALSE

Used(h) == \/ \E c \in Conn : connection[c].hc = h
           \/ \E s \in Sess : sess[s].hc = h
           \/ \E r \in Slot : req[r].pc \in {"messages", "requests"} /\ req[r].reply = h
Failed == [Idle EXCEPT !.kind = "failed", !.pc = "failed"]
First(S) == CHOOSE x \in S : \A y \in S : x <= y
FreeChans == {h \in Chan : ~Used(h)}
FreeSess  == {s \in Sess : sess[s] = NoSess}
FreeConns == {c \in Conn : connection[c].hc = None}
-------------------------------------------------------------------------------
(* The page: what makes a request.  $get, $post and $put hand it to the    *)
(* browser.                                                                *)

Ask(r, k, x) ==
    /\ req[r] = Idle /\ \A q \in Slot : q < r => req[q] # Idle
    /\ req' = [req EXCEPT ![r] = [Idle EXCEPT !.kind = k, !.pc = "arrives", !.reply = x]]

\* The login form is submitted: a click, or Enter in a field.
Submit(r) ==
    /\ form /\ logins < MaxLogins
    /\ logins' = logins + 1
    /\ Ask(r, "login", None)
    /\ UNCHANGED <<pageVars, connVars, dog, fails, written, pastVars>>

\* The timer of wait_for_login.
WaitForLogin(r) ==
    /\ waits > 0 /\ waits' = waits - 1
    /\ Ask(r, "wait", None)
    /\ UNCHANGED <<form, chat, retry, pollers, log, asked, roster, connVars, dog,
                   logins, fails, written, pastVars>>

\* Mutation: the page polls once and stops.
GetUpdatesOnce(r) ==
    /\ pollers > 0 /\ pollers' = pollers - 1
    /\ Ask(r, "updates", None)
    /\ UNCHANGED <<form, chat, retry, waits, log, asked, roster, connVars, dog, countVars,
                   written, pastVars>>

\* A PeriodicalExecuter calls get_updates; the calls before it may be under way.
GetUpdates(r) ==
    /\ pollers > 0
    /\ Ask(r, "updates", None)
    /\ UNCHANGED <<pageVars, connVars, dog, countVars, written, pastVars>>

\* Enter in the field of a chat window: send_message.
SendMessage(r, n) ==
    /\ chat /\ n \notin Items(log) /\ \A q \in Slot : req[q].reply # n
    /\ Ask(r, "send", n)
    /\ UNCHANGED <<pageVars, connVars, dog, countVars, written, pastVars>>

\* get_requests posts the answer to each request it asked the user about.
AnswerRequest(r, u) ==
    /\ u \in asked \ written /\ \A q \in Slot : req[q].reply # u
    /\ Ask(r, "answer", u)
    /\ UNCHANGED <<pageVars, connVars, dog, countVars, written, pastVars>>

\* change_status_to, add_contact and del_contact; one at a time, a bound.
ChangeStatus(r) ==
    /\ Manages /\ chat /\ \A q \in Slot : req[q].kind # "change"
    /\ Ask(r, "change", None)
    /\ UNCHANGED <<pageVars, connVars, dog, countVars, written, pastVars>>
-------------------------------------------------------------------------------
(* The page: what a reply does.  alert and confirm hold the page up. *)

\* start_login
StartLogin ==
    /\ retry' = 0 /\ form' = FALSE /\ waits' = waits + 1

LoginReply(x) ==
    /\ IF x = "ok" THEN StartLogin ELSE UNCHANGED <<retry, form, waits>>
    /\ UNCHANGED <<chat, pollers, log, asked, roster>>

\* switch_to_chat
SwitchToChat == chat' = TRUE /\ pollers' = pollers + 1

\* Mutation: the form is not shown again after the last retry.
WaitReplyGivesUp(x) ==
    /\ IF x = "ok" THEN SwitchToChat ELSE UNCHANGED <<chat, pollers>>
    /\ retry' = IF x = "wait" THEN retry + 1 ELSE retry
    /\ waits' = IF x = "wait" /\ retry + 1 < RetryLimit THEN waits + 1 ELSE waits
    /\ form' = (form \/ x = "fail")
    /\ UNCHANGED <<log, asked, roster>>

\* The callback of wait_for_login.
WaitReply(x) ==
    /\ IF x = "ok" THEN SwitchToChat ELSE UNCHANGED <<chat, pollers>>
    /\ retry' = IF x = "wait" THEN retry + 1 ELSE retry
    /\ waits' = IF x = "wait" /\ retry + 1 < RetryLimit THEN waits + 1 ELSE waits
    /\ form' = (form \/ x = "fail" \/ (x = "wait" /\ retry + 1 >= RetryLimit))
    /\ UNCHANGED <<log, asked, roster>>

\* get_messages, get_roster and get_requests, in this order.
UpdatesReply(q) ==
    /\ log' = log \o q.items
    /\ roster' = q.contacts
    /\ asked' = asked \cup Items(q.asks)
    /\ UNCHANGED <<form, chat, retry, waits, pollers>>

\* add_to_log of what was sent.
SendReply(q) ==
    /\ log' = Append(log, q.reply)
    /\ UNCHANGED <<form, chat, retry, waits, pollers, asked, roster>>

\* A reply reaches the page: onSuccess, evalJSON and the callback.
Receive(r) ==
    /\ req[r].pc = "replied"
    /\ req' = [req EXCEPT ![r] = Idle]
    /\ CASE req[r].kind = "login"   -> LoginReply(req[r].reply)
         [] req[r].kind = "wait"    -> WaitReply(req[r].reply)
         [] req[r].kind = "updates" -> UpdatesReply(req[r])
         [] req[r].kind = "send"    -> SendReply(req[r])
         [] req[r].kind \in {"answer", "change"} -> UNCHANGED pageVars
    /\ UNCHANGED <<connVars, dog, logins, fails, written, pastVars>>

\* The request failed in the servlet (status 500): no onSuccess, no onFailure.
ReceiveFailure(r) ==
    /\ req[r].pc = "failed"
    /\ req' = [req EXCEPT ![r] = Idle]
    /\ UNCHANGED <<pageVars, connVars, dog, countVars, written, pastVars>>

\* The connection of the browser breaks on the way there or back.
Break(r) ==
    /\ fails < MaxFails /\ fails' = fails + 1
    /\ req[r].pc \in {"arrives", "replied"}
    /\ req' = [req EXCEPT ![r] = Failed]
    /\ dropped' = dropped \cup Items(req[r].items) \cup Items(req[r].asks)
    /\ UNCHANGED <<pageVars, connVars, dog, logins, written, arrived, raced, deaf>>
-------------------------------------------------------------------------------
(* The servlet: route, and one view per request. *)

Serving(r, k) == req[r].pc = "serving" /\ req[r].kind = k
At(r)   == connection[req[r].at]
SessAt(r) == sess[At(r).session]

\* route: the connection of the HTTP session, or a new one that is not put yet.
Route(r) ==
    /\ req[r].pc = "arrives"
    /\ IF conns # None
       THEN /\ req' = [req EXCEPT ![r].pc = "serving", ![r].at = conns]
            /\ UNCHANGED <<connection, chan>>
       ELSE /\ FreeConns # {} /\ FreeChans # {}
            /\ LET c == First(FreeConns)  h == First(FreeChans) IN
                  /\ req' = [req EXCEPT ![r].pc = "creates", ![r].at = c]
                  /\ connection' = [connection EXCEPT ![c].hc = h]
                  /\ chan' = [chan EXCEPT ![h] = NewChan]
    /\ UNCHANGED <<pageVars, conns, sess, contacts, dog, countVars, written, pastVars>>

RoutePuts(r) ==
    /\ req[r].pc = "creates"
    /\ conns' = req[r].at
    /\ req' = [req EXCEPT ![r].pc = "serving"]
    /\ UNCHANGED <<pageVars, connection, sess, chan, contacts, dog, countVars, written, pastVars>>

Reply(r, x) == req' = [req EXCEPT ![r].pc = "replied", ![r].at = None, ![r].reply = x]

\* connect: the second login of a connection starts with a new channel.
ViewPostLogin(r) ==
    /\ Serving(r, "login")
    /\ req' = [req EXCEPT ![r].pc = "connects"]
    /\ IF At(r).session # None
       THEN /\ FreeChans # {}
            /\ connection' = [connection EXCEPT ![req[r].at].hc = First(FreeChans)]
            /\ chan' = [chan EXCEPT ![First(FreeChans)] = NewChan]
       ELSE UNCHANGED <<connection, chan>>
    /\ UNCHANGED <<pageVars, conns, sess, contacts, dog, countVars, written, pastVars>>

\* Mutation: the new session keeps the old channel.
ConnectOldChannel(r) ==
    /\ req[r].pc = "connects" /\ FreeSess # {}
    /\ LET s == First(FreeSess) IN
          /\ sess' = [sess EXCEPT ![s] = [NoSess EXCEPT !.up = TRUE, !.hc =
                          IF At(r).session # None THEN SessAt(r).hc ELSE At(r).hc]]
          /\ connection' = [connection EXCEPT ![req[r].at].session = s]
    /\ Reply(r, "ok")
    /\ UNCHANGED <<pageVars, conns, chan, contacts, dog, countVars, written, pastVars>>

\* connect: the socket, the session and the listener that fills the channel.
\* The session and the listener there were stay as they are.
Connect(r) ==
    /\ req[r].pc = "connects" /\ FreeSess # {}
    /\ LET s == First(FreeSess) IN
          /\ sess' = [sess EXCEPT ![s] = [NoSess EXCEPT !.up = TRUE, !.hc = At(r).hc]]
          /\ connection' = [connection EXCEPT ![req[r].at].session = s]
    /\ Reply(r, "ok")
    /\ UNCHANGED <<pageVars, conns, chan, contacts, dog, countVars, written, pastVars>>

\* No server, no naming server or no connection.
ConnectFails(r) ==
    /\ req[r].pc = "connects"
    /\ Reply(r, "error")
    /\ deaf' = (deaf \/ (At(r).session # None /\ SessAt(r).hc # At(r).hc))
    /\ UNCHANGED <<pageVars, connVars, dog, countVars, written, arrived, dropped, raced>>

\* view_get_login and checkLogin
ViewGetLogin(r) ==
    /\ Serving(r, "wait")
    /\ Reply(r, CASE At(r).session = None    -> "wait"
                  [] SessAt(r).logged = 0    -> "wait"
                  [] SessAt(r).logged = 1    -> "ok"
                  [] SessAt(r).logged = -1   -> "fail")
    /\ UNCHANGED <<pageVars, connVars, dog, countVars, written, pastVars>>

\* Threads between reading and replacing a list of channel h.
Reading(h, pc) == \E r \in Slot : req[r].pc = pc /\ req[r].reply = h
Storing(h, S)  == \E s \in Sess : sess[s].hc = h /\ sess[s].storing # None
                                    /\ sess[s].storing.item \in S
MessagesBusy(h) == Reading(h, "messages") \/ Storing(h, Msg)
RequestsBusy(h) == Reading(h, "requests") \/ Storing(h, Subscriber)

\* view_get_updates: retrieveMessages takes the list and then empties it.
RetrieveMessages(r) ==
    /\ Serving(r, "updates")
    /\ LET h == At(r).hc IN
          /\ req' = [req EXCEPT ![r].pc = "messages", ![r].reply = h, ![r].items = chan[h].messages]
          /\ raced' = (raced \/ MessagesBusy(h))
    /\ UNCHANGED <<pageVars, connVars, dog, countVars, written, arrived, dropped, deaf>>

\* Mutation: the list of messages is not emptied by the read.
MessagesKept(r) ==
    /\ req[r].pc = "messages"
    /\ req' = [req EXCEPT ![r].pc = "roster"]
    /\ UNCHANGED <<pageVars, connVars, dog, countVars, written, pastVars>>

MessagesCleared(r) ==
    /\ req[r].pc = "messages"
    /\ chan' = [chan EXCEPT ![req[r].reply].messages = <<>>]
    /\ req' = [req EXCEPT ![r].pc = "roster"]
    /\ UNCHANGED <<pageVars, conns, connection, sess, contacts, dog, countVars, written, pastVars>>

\* retrieveRoster, and getAndCleanRequests up to its reset.
RetrieveRequests(r) ==
    /\ req[r].pc = "roster"
    /\ LET h == At(r).hc IN
          /\ req' = [req EXCEPT ![r].pc = "requests", ![r].reply = h,
                                ![r].asks = chan[h].requests, ![r].contacts = chan[h].contacts]
          /\ raced' = (raced \/ RequestsBusy(h))
    /\ UNCHANGED <<pageVars, connVars, dog, countVars, written, arrived, dropped, deaf>>

\* The reset, and getJid, which throws when nobody logged in on the connection.
RequestsCleared(r) ==
    /\ req[r].pc = "requests"
    /\ chan' = [chan EXCEPT ![req[r].reply].requests = <<>>]
    /\ IF At(r).session # None
       THEN Reply(r, None) /\ UNCHANGED dropped
       ELSE /\ req' = [req EXCEPT ![r] = Failed]
            /\ dropped' = dropped \cup Items(req[r].items) \cup Items(req[r].asks)
    /\ UNCHANGED <<pageVars, conns, connection, sess, contacts, dog, countVars, written, arrived, raced, deaf>>

\* Mutation: the request is answered and nothing is written to the stream.
ReplyUnwritten(r) ==
    /\ req[r].pc = "serving" /\ req[r].kind \in {"send", "answer", "change"}
    /\ Reply(r, req[r].reply)
    /\ UNCHANGED <<pageVars, connVars, dog, countVars, written, pastVars>>

\* view_put_messages, view_post_status and those of the roster write to the
\* stream of the session; without one, or when it is broken, the view throws.
ViewWrites(r) ==
    /\ req[r].pc = "serving" /\ req[r].kind \in {"send", "answer", "change"}
    /\ IF At(r).session # None /\ SessAt(r).up
       THEN Reply(r, req[r].reply) /\ written' = written \cup ({req[r].reply} \ {None})
       ELSE req' = [req EXCEPT ![r] = Failed] /\ UNCHANGED written
    /\ UNCHANGED <<pageVars, connVars, dog, countVars, pastVars>>

Serve(r) ==
    \/ Route(r) \/ RoutePuts(r)
    \/ ViewPostLogin(r) \/ Connect(r) \/ ConnectFails(r)
    \/ ViewGetLogin(r)
    \/ RetrieveMessages(r) \/ MessagesCleared(r) \/ RetrieveRequests(r) \/ RequestsCleared(r)
    \/ ViewWrites(r)
-------------------------------------------------------------------------------
(* The listener of a session: what the chat server sends it. *)

Hears(s) == sess[s].up /\ sess[s].storing = None

\* <success/>
LoggedIn(s) ==
    /\ Hears(s) /\ sess[s].logged = 0
    /\ sess' = [sess EXCEPT ![s].logged = 1]
    /\ UNCHANGED <<pageVars, req, conns, connection, chan, contacts, dog, countVars, written, pastVars>>

\* <failure/>
NotAuthorized(s) ==
    /\ Hears(s) /\ sess[s].logged = 0
    /\ sess' = [sess EXCEPT ![s].logged = -1]
    /\ chan' = [chan EXCEPT ![sess[s].hc].open = FALSE]
    /\ UNCHANGED <<pageVars, req, conns, connection, contacts, dog, countVars, written, pastVars>>

\* insertMessage and insertRequest read the list ...
Arrives(s, x) ==
    /\ Hears(s) /\ sess[s].logged = 1
    /\ x \notin arrived /\ \A t \in Sess : sess[t].storing # None => sess[t].storing.item # x
    /\ LET h == sess[s].hc IN
          /\ sess' = [sess EXCEPT ![s].storing =
                [item |-> x, list |-> IF x \in Msg THEN chan[h].messages ELSE chan[h].requests]]
          /\ raced' = (raced \/ IF x \in Msg THEN MessagesBusy(h) ELSE RequestsBusy(h))
    /\ UNCHANGED <<pageVars, req, conns, connection, chan, contacts, dog, countVars,
                   written, arrived, dropped, deaf>>

\* ... and replace it, the newest first.
Stored(s) ==
    /\ sess[s].storing # None
    /\ LET h == sess[s].hc  x == sess[s].storing.item  l == <<x>> \o sess[s].storing.list IN
          /\ chan' = IF x \in Msg THEN [chan EXCEPT ![h].messages = l] ELSE [chan EXCEPT ![h].requests = l]
          /\ arrived' = arrived \cup {x}
    /\ sess' = [sess EXCEPT ![s].storing = None]
    /\ UNCHANGED <<pageVars, req, conns, connection, contacts, dog, countVars, written, dropped, raced, deaf>>

\* A roster push or a presence: Roster.contacts, and printRoster.
ContactsChange(s) ==
    /\ Hears(s) /\ sess[s].logged = 1 /\ contacts < MaxChanges
    /\ contacts' = contacts + 1
    /\ chan' = [chan EXCEPT ![sess[s].hc].contacts = contacts + 1]
    /\ UNCHANGED <<pageVars, req, conns, connection, sess, dog, countVars, written, pastVars>>

\* The server ends the stream, and the channel is closed; or the connection just
\* ends: the listener reads -1 for ever and the channel stays open.
StreamEnds(s) ==
    /\ Hears(s)
    /\ sess' = [sess EXCEPT ![s].up = FALSE]
    /\ \/ chan' = [chan EXCEPT ![sess[s].hc].open = FALSE]
       \/ UNCHANGED chan
    /\ UNCHANGED <<pageVars, req, conns, connection, contacts, dog, countVars, written, pastVars>>

Listener(s) ==
    \/ LoggedIn(s) \/ NotAuthorized(s) \/ Stored(s) \/ ContactsChange(s) \/ StreamEnds(s)
    \/ \E x \in Msg \cup Subscriber : Arrives(s, x)
-------------------------------------------------------------------------------
(* The WatchDog. *)

\* The connection is closed, or nothing was asked for the web timeout: possible,
\* say because the computer slept, whenever no request is under way.
Expired == \/ ~chan[connection[conns].hc].open
           \/ \A r \in Slot : req[r] = Idle

\* checkAndClose: close throws, and ends the thread, when there was no login.
CheckAndClose ==
    /\ dog = "sleeps" /\ conns # None
    /\ Expired
    /\ LET s == connection[conns].session IN
          IF s = None
          THEN dog' = "dead" /\ UNCHANGED sess
          ELSE dog' = "removes" /\ sess' = [sess EXCEPT ![s].up = FALSE]
    /\ UNCHANGED <<pageVars, req, conns, connection, chan, contacts, countVars, written, pastVars>>

\* The write of close to a broken stream may throw too.
CloseThrows ==
    /\ dog = "sleeps" /\ conns # None
    /\ Expired
    /\ connection[conns].session # None /\ ~sess[connection[conns].session].up
    /\ dog' = "dead"
    /\ UNCHANGED <<pageVars, req, connVars, countVars, written, pastVars>>

\* conns.remove; as many connections can be made again as requests are under way.
Remove ==
    /\ dog = "removes" /\ Cardinality(FreeConns) >= Cardinality(Slot)
    /\ conns' = None /\ dog' = "sleeps"
    /\ UNCHANGED <<pageVars, req, connection, sess, chan, contacts, countVars, written, pastVars>>
-------------------------------------------------------------------------------
Page(r) ==
    \/ Submit(r) \/ WaitForLogin(r) \/ GetUpdates(r)
    \/ \E n \in Own : SendMessage(r, n)
    \/ \E u \in Subscriber : AnswerRequest(r, u)
    \/ ChangeStatus(r)
    \/ Receive(r) \/ ReceiveFailure(r) \/ Break(r)

Next ==
    \/ \E r \in Slot : Page(r) \/ Serve(r)
    \/ \E s \in Sess : Listener(s)
    \/ CheckAndClose \/ CloseThrows \/ Remove

\* Timers fire, requests are served and answered.  The executers' timer is held
\* up by nothing but the bound on the requests under way: hence SF.
Fairness ==
    /\ \A r \in Slot : WF_vars(Serve(r)) /\ WF_vars(Receive(r) \/ ReceiveFailure(r))
    /\ WF_vars(\E r \in Slot : WaitForLogin(r))
    /\ SF_vars(\E r \in Slot : GetUpdates(r))

Spec == Init /\ [][Next]_vars /\ Fairness
-------------------------------------------------------------------------------
Kinds == {"idle", "failed", "login", "wait", "updates", "send", "answer", "change"}
Pcs   == {"idle", "arrives", "creates", "serving", "connects", "messages", "roster",
          "requests", "replied", "failed"}
Item  == Msg \cup Subscriber

TypeOK ==
    /\ form \in BOOLEAN /\ chat \in BOOLEAN /\ retry \in Nat /\ waits \in 0..MaxLogins
    /\ pollers \in 0..MaxLogins /\ log \in Seq(Msg \cup Own) /\ asked \subseteq Subscriber
    /\ roster \in 0..MaxChanges /\ contacts \in 0..MaxChanges
    /\ \A r \in Slot : /\ req[r].kind \in Kinds /\ req[r].pc \in Pcs
                        /\ req[r].at \in Conn \cup {None}
                        /\ Items(req[r].items) \subseteq Msg /\ Items(req[r].asks) \subseteq Subscriber
    /\ conns \in Conn \cup {None}
    /\ \A c \in Conn : connection[c].hc \in Chan \cup {None} /\ connection[c].session \in Sess \cup {None}
    /\ \A s \in Sess : sess[s].logged \in -1..1 /\ sess[s].hc \in Chan \cup {None}
    /\ dog \in {"sleeps", "removes", "dead"}
    /\ written \subseteq Own \cup Subscriber /\ arrived \subseteq Item /\ dropped \subseteq Item

\* Where item x is: in lists of channels that no request has emptied yet, on its
\* way to the page, shown, or lost with a reply.
Holders(x) ==
    Cardinality({h \in Chan : x \in Items(chan[h].messages) \cup Items(chan[h].requests)})
  + Cardinality({r \in Slot : \/ x \in Items(req[r].items) /\ req[r].pc # "messages"
                              \/ x \in Items(req[r].asks) /\ req[r].pc # "requests"})
  + Cardinality({i \in DOMAIN log : log[i] = x})
  + Cardinality({asked, dropped} \cap {S \in {asked, dropped} : x \in S})

\* What a listener put into a channel is in one place and reaches the page once,
\* whatever polls overlap, logins replace the channel and the WatchDog removes,
\* unless two threads are between reading and replacing one list of a channel.
Conserved == ~raced => \A x \in arrived : Holders(x) = 1

\* The channel the page polls is the one the listener of the current session
\* fills, unless a later login failed after connect had replaced the channel.
ListensToItsChannel ==
    \A c \in Conn : (/\ connection[c].session # None /\ ~deaf
                     /\ \A r \in Slot : ~(req[r].pc = "connects" /\ req[r].at = c))
                        => sess[connection[c].session].hc = connection[c].hc

\* A message of the user's own is shown only after it was written to the stream.
SentShown == Own \cap Items(log) \subseteq written

\* A login that hid the form ends with the chat or with the form again, unless a
\* request broke: a poll that fails is never made again.
LoginSettles == (~form /\ ~chat) ~> (form \/ chat \/ fails > 0)

\* While a connection stays logged in and in place the page comes to show the
\* contacts of its channel, though replies may come out of order.
RosterCatchesUp ==
    \A c \in Conn :
        <>[](chat /\ conns = c /\ connection[c].session # None)
            => <>[](connection[c].hc # None /\ roster = chan[connection[c].hc].contacts)
===============================================================================
