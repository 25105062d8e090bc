# A verification of scalampp

scalampp is a small XMPP chat network: chat servers that clients connect to, one
or more naming servers that know which chat servers are up and who is connected
to each, a command-line client, and a web client and an administration page with
the JavaScript libraries these two load. This directory holds TLA+ models of it,
the TLC runs that check them and the TLAPS proofs of most of what they check.
`PROJECT.json` is the index: what every definition stands for (`map`), what every run
and theorem shows, the components, and the hazards the properties are aimed at, each
at its line. Source paths below are relative to `src/src/`, those that begin with
`js/` to `src/public/`.

    tlc  -workers 2 -config MCSessionOne.cfg MCSessionManager
    tlapm SessionManagerProofs.tla

## 1. The system

| Part | State | Operations | Calls |
|---|---|---|---|
| Session table (`com/alcidesfonseca/xmpp/SessionManager.scala`, `Session`) | list of sessions (channel, user, resource, logged), `remoteSessions`: jid to remote object | create, close, destroy, send and its variants, count, export; all but export `synchronized` | channels of its sessions; `deliver` of other servers over RMI, with its monitor held |
| Selector loop (`sd/nio/NioServer.scala`, `NioOutChannel`) | sockets, a parser per socket | accept, read, end of stream | the parser, `closeSession` |
| Server parser (`XMPPServerParser.scala`) | `init`, `logged` of the session | one handler per stanza | session table, users |
| Stream splitting (`XMLParser`, `XMLValidator`) | the text not yet understood | a try at every `>` | either parser |
| Remote object (`sd/ns/server/PingBack.scala`) | none | ping, deliver, updateSessions | session table |
| Naming server (`sd/ns/LoadBalancer.scala`, `OnlineServer`) | `serverList`: address, stub, lastSeen, sessions | join, withdraw, keepAlive, getServer, database calls; nothing `synchronized` | updateSessions of every chat server |
| ServerChecker, naming console (`sd/ns/NamingServer.scala`) | registered url | prune late entries that do not answer; halt, restart | ping |
| Link to the naming server (`sd/ns/server/UpdateNSThread.scala`, `ServerConsole`) | stub, `updating` | look up, join, keepAlive every 5 s, pause | LoadBalancer |
| Lookup (`sd/ns/Connector.scala`, `sd/BootClient.scala`) | registry names | list, look up, ping, unbind | RMI registry, getServer |
| Users (`com/alcidesfonseca/db/*`) | users cached per server, rows of friends at the naming server | auth, createUser, change/insert/removeFriend | database over RMI |
| Client (`XMPPClientParser`, `ClientSession`, `XMPPClientCLI`, `sd/tcp/TCPClient.scala`) | stream status, contact list | stanza handlers, commands, reconnect | server |
| Web client (`sd/web`) | a ChatConnection per browser session, its channel, its chat session | a view per request, listener thread, watchdog | client parser, naming server |
| Chat page (`js/chat`) | form, log, contacts, chat windows | login and its polls, updates every 5 s, messages, status, contacts | web client |
| Administration (`AdminServlet`, `LoadBalancerBean`, `js/admin/admin.js`) | tables, tabs | polls, insert, change, delete of accounts | naming server |
| `js/lib/prototype.js` | active requests, the cache of handlers, marks in elements | Ajax, collections, forms, selectors, events | the browser |
| `js/lib/window/window.js` | windows, modal windows, overlay, levels, cookies | show, close, raise, drag, minimize, maximize | prototype |
| `js/lib/livepipe` | windows, overlay, observers, tabs | open, close, load, notify, observe | prototype |

`Config.vers` is `nio`: a chat server has one selector thread for all its
clients, the UpdateNSThread, the console, and the threads RMI runs incoming
calls on. The TCP (a thread per client) and UDP servers are alternatives that
the configuration does not select.

How the parts interact: a client's bytes reach the parser through the selector;
a handler reads and writes the session table and, for another user, writes to
that user's channels and calls `deliver` on every server the table
`remoteSessions` names for the jid. That table comes from the naming server:
every server reports its sessions with keepAlive, and when they have changed
the naming server sends all servers a new table.

Users and friends are rows of a database at the naming server: every chat server
keeps its own list of users and changes rows over RMI, and so does the
administration page. The web client is a server to the browser and a client to a
chat server; the page polls it, and its answers may come in any order.

What is hard about it: the monitor of the session table is held across writes
that may fail and across remote calls, and the methods recur into each other;
the naming server's list is read and assigned by many threads without a lock;
tables and stubs are stale when they are used; every process may be lost and
come back; a call that fails half way leaves its second half undone; polls,
listener and watchdog of the web client change the same channel without a lock;
callbacks and observers change the lists they are called from.

### What makes each part correct

- Session table: a message is written to every session it is for, once; a
  session whose channel is broken leaves the table; the sender learns of a
  failure; the recursion ends; nothing is written for a session that has been
  removed; every handler returns.
- Naming server and link: a server that is up is in the list, and can be called
  through it; a server that is gone leaves it; tables name the server a session
  is really at and follow changes.
- Users: both sides of a subscription agree once a handshake is over; no
  concurrent change is lost; a user name is created once.
- Stream: negotiation ends in a bound session, or in a refusal, however the
  bytes are split; what one stanza leaves behind does not disturb the next.
- Lookup: someone who looks for a naming server finds a live one if there is
  one; a live one is not unbound.
- Web client and chat page: what arrives is handed to the browser once; the page
  polls the channel its session fills; a login ends; the contacts shown become
  the contacts there are; nothing is shown as sent that was not.
- Administration: the tables become what the database and the naming server have.
- Ajax: no callback twice, none before the one it follows; the count of requests right; one poll at a
  time, and always a next one.
- Windows of both libraries: a page is never left behind an overlay that nothing
  takes away; what is opened last is on top; what is put back is as it was.
- Collections, selectors, events: each operator gives what it promises, or the
  cases in which it does not are known.

## 2. Modules

| Module | Models | Run by |
|---|---|---|
| `SessionManager` | session tables of any number of servers, stanza handlers, selector loop, remote object | `MCSessionManager` |
| `Delivery` | what the servers together promise for a message: the abstract specification of `SessionManager` | - |
| `Federation` | `UpdateNSThread`, `LoadBalancer`, `ServerChecker` | `MCFederation` |
| `Accounts` | `UserManager`, `RemoteDatabase`, `Database`, the handlers that change friends | `MCAdmin` |
| `Admin` (extends `Accounts`) | `AdminServlet`, `LoadBalancerBean`, `admin.js`, `system.js`, `tabs.js` | `MCAdmin` |
| `WebChat` | `chat.js`, `system.js`, `ChatServlet`, `ChatConnection`, `WebHumanChannel`, `WatchDog`, the listener | `MCWebChat` |
| `Exchange` | what a request promises: the abstract specification of `Ajax` | - |
| `Ajax` | `Ajax.Request`, `Responders`, `Updater`, `PeriodicalUpdater` | `MCAjax` |
| `Desktop` | `Windows`, `Window`, `Dialog` of `window.js`: what is open, modal, in front | `MCDesktop` |
| `Frame` | the place and size of one such window | `MCLibrary` |
| `LivePipe` | `Control.Window`, `Overlay`, `Modal`, `LightBox` | `MCLivePipe` |
| `Notifier` | `Object.Event` of `livepipe.js` | `MCLibrary` |
| `Observers` | `Event` of `prototype.js` and `livepipe.js` | `MCLibrary` |
| `Collections`, `Library` | `Enumerable`, `Array`, `Hash`, `Form`, `Template`, `String` of `prototype.js` as operators; what they promise | `MCLibrary` |
| `Selectors` | insertion, traversal, `Selector` without XPath | `MCLibrary` |

The theorems are in `SessionManagerProofs` and `DeliveryProofs` (of
`SessionManager`), `FederationProofs`, `AccountsProofs` (of `Accounts` and `Admin`),
`WebChatProofs`, `PrototypeProofs` (of `Ajax` and `Observers`), `WindowProofs` (of
`Frame` and `Desktop`) and `LivePipeProofs` (of `LivePipe` and `Notifier`). A
definition under a comment "Mutation" is not part of a model: it is a plausible bug
of the definition after it, which the property listed with it in `PROJECT.json` must
detect.

**`SessionManager`.** `sessions`, `who`, `res` are the list of sessions with
their user and resource; `sock` is the socket of a connection (`broken`: the
peer is gone and the server does not know; a write may then succeed or throw);
`remote` is `remoteSessions`; `lock` the owner of the monitor; `alive` is FALSE
when an exception has left the selector thread. `stack[t]` is the call stack of a
thread, and the call being executed is its head. Every `synchronized` call from
outside is a `sync` frame, taken when the monitor is free (`EnterMonitor`);
inside, the methods call each other directly, as a reentrant monitor allows. A
remote call is a `sync` frame at the other server: RMI runs it on another
thread, so it waits even when its own chain of calls already owns that monitor.
`send` is `GetOutChannels`, then one `Write` or `WriteFails` a channel, then
`GetForeignChannels` and one `Deliver` or `DeliverFails` an entry. `WriteFails`
pushes what the catch block does: `closeSession` and the error to the sender.
`destroySession` is `DestroySession`, a `TellFriend` for each friend, and
`CloseChannel`. `sent`, `owed`, `missed`, `bounced` and `written` are history.
`Delivery` has that history and no threads, stacks, monitors or tables: a connection
is new, listed or gone (`phase`), has a jid, and a message is under way from `Send`
to `Finish`. In between servers take it for the channels they list (`Take`), write it
(`Write`), miss one (`Miss`) and write errors (`Report`). `Delivered` is the
refinement, with a message `Underway` while a frame of some stack carries it.

**`Federation`.** `call[s]` is the call of server `s` the naming server executes;
its methods are cut at every read and assignment of `serverList` and at every
remote call: `join` is `JoinCount`, `JoinReads`, `JoinAssigns`; `keepAlive` is
`UpdateAlive`, a `Push` and `UpdateSessions` or `PushFails` for each entry, and
`CountsListed`; the checker's filter is a `CheckOne` for each entry, and
`CheckAssigns`. An entry of the list is an object: two of one address are
distinguished by `copy`, and an object nobody refers to is as good as new
(`Collect`). A stub names the process it was exported by and answers only as long
as that process lives. `exported` is history: the jids a server ever reported.

**`Accounts` and `Admin`.** `pass` and `rows` are the two tables; `users[s]` is
the list a server has read, with whether the object is there; `lb[s]` whether its
proxy has a naming server; `task[s]` the changes of rows the stanza being handled
still has to make, a database call a step (`Exists`, `ReadSub`, then `Insert`,
`Update` or `Delete`), between which the link may be lost and set again
(`LinkChanges`).
`changeFriend` merges directions (`Merge`) and its update hits the rows of every
owner with that friend. On the page, `requests` are those under way, `tab` what
`setActiveTab` shows and marks, `accounts` and `servers` the tables. A request is
served in one step, a deletion in two (friends, then user), and answered, lost,
or served with a bean that could not ask (`Fails`). `intended`, `spoilt`,
`differs`, `latest` and `behind` are history.

**`WebChat`.** A request `req[r]` goes through `Route` (which makes a
`ChatConnection` when the HTTP session has none, and puts it in a second step,
`RoutePuts`), its view, and `Receive` on the page. Each list of the channel is read
and replaced in two steps, by views (`RetrieveMessages`, `MessagesCleared`) and by
the listener (`Arrives`, `Stored`). `Connect` replaces channel and session; the
listener of the earlier session goes on filling the earlier channel. `StreamEnds`
is the end of a stream with the stanza that closes the channel, or without it. The
`WatchDog` closes and removes in two steps, and dies where `close` throws.

**`Ajax`.** `step`, `ready`, `deferred`, `complete` follow `request()` and
`respondToReadyState`; state 4 is two steps, because the result callback may hold
the page up while further events come (`Again`), and three for a request of the
updater, whose content may stop it. `fault` is what threw: a call of `request()`,
`new Ajax.Response`, `onComplete`, or `onException` after the result callback or a
script had. `updater`, `timer`, `running` are the `PeriodicalUpdater`. `log` is what
`Exchange` allows: `Ordered` is the refinement `Exchange` with `calls <- log`.

**`Desktop` and `LivePipe`** have the page in one record `ui`; each function of
the library is an operator from a `ui` to the next and an action is a call from
the page, a click or a timer. **`Frame`** has the numbers of one window, in the
vertical. **`Notifier`** goes through `notify` an observer at a time.
**`Observers`** keeps the cache of wrappers beside what the browser has.
**`Collections`** and **`Selectors`** are operators; `Library` and
`SelectorsNext` change an array, a hash, a form, a text or a page one element at a
time, and the properties compare the operators with a definition of what they
mean on all values that are reached.

### What the models leave out

- `SessionManager`: the order of the list (writes go in any order); the
  empty `to`, a prefix of everything; the moment between `logged = true` and
  `user = u` in which an export sees a session without a name; the content of
  stanzas; partial writes. `UpdateSessions` hands out what the other servers
  export at that moment, and it stays as it is for any time: that is how tables
  get stale here.
- `Federation`: the order of `serverList`; a report changes an entry when the set
  of its jids differs, not their order; time is not counted: an entry may grow
  late at any moment, and this is only represented for entries that do not
  answer, because the checker keeps the others. One naming server runs at a time;
  a replacement starts with an empty list, and stubs of the former one fail. A
  lost process starts again only after the naming server has finished its last
  call. `getServer`, `withdraw` (which nothing calls) and the registry.
- `Accounts`: the file behind the tables, names and groups of friends. `Admin`:
  the figures of a server (memory, threads), confirmations.
- `WebChat`: one browser session; the negotiation before a login is answered;
  `view_get_messages` and `view_get_roster`, which the page does not ask for. `Connect`
  is one step where `ChatConnection.java:58-81` assigns its fields one by one.
- `Ajax`: synchronous requests, evaluation of scripts, decay, which of the result
  callbacks is called (`onSuccess`, `onFailure` or the one of the status).
- `Desktop`, `LivePipe`, `Frame`: effects, which no page loads; iframe shims and
  other repairs for old browsers; the horizontal, which follows the vertical; resize
  and scroll events that change neither, for which `_recenter` does something only for
  windows it has not seen yet; a scroll of the parent, whose observer `destroy` leaves.
- `Collections`, `Selectors`: values are few strings with the comparisons of the
  language; text nodes, XPath, and the parsing of expressions.

## 3. What is checked

| Run | Shows | Instance and bounds |
|---|---|---|
| `session_one_server` | `NoWriteAfterRemoval`, `ServedOrPurged`, `FailureReported`, `CascadeBounded`, `HandlersReturn`, `Delivered`, `TypeOK` | one server and selector thread; three connections, two of one user, so that losing one leaves exactly one and offline presences are sent, and whose resources begin alike; one message, to the sender's bare jid or to the other user's full jid; any connection may break at any time |
| `session_three_servers` | `FullJidOnce` | three servers with a thread each, one user with the same full jid on two of them, messages to it and to a beginning of it, tables of any age, one server whose remote object may fail |
| `session_ring` | finds `HandlersReturn` violated | two servers with a thread and a client each |
| `federation_reports` | `RoutesExported`, `ServerJoins`, `TypeOK` | two servers, one change of sessions each, one restart, one halted at its console, one replacement of the naming server |
| `federation_churn` | `ServerJoins`, `CrashedPruned` | two servers, one of which is lost and restarted, with the checker running |
| `accounts` | `LoginsKnown`, `SubscriptionsMerge`, `TableCurrent`, `ServersCatchUp` | two servers, two names, one password, two requests under way; four operations of the servers alone, three together with the page; any number of polls |
| `webchat_page` | `SentShown`, `LoginSettles`, `RosterCatchesUp` | one login, two polls of it, two requests under way, one message of the user's, one subscriber, one change of contacts; the stream and the WatchDog may end at any time |
| `webchat_relogin` | `Conserved`, `ListensToItsChannel` | two logins, one poll each, two requests under way, one of which may break, one message that arrives |
| `ajax_requests` | `Ordered`, `CountAccounts`, `OneChain`, `PollGoesOn` | three requests of an application or an updater that is started twice |
| `desktop` | `ModalStack`, `Dismissable`, `Stacked`, `ChatOnTop` | a chat window, two dialogs, a panel; levels up to 6; both settings of `keepMultiModalWindow`; the page resized at any time |
| `livepipe` | `Layered`, `Dismissable`, `IndicatorGoes`, `ModalAlone` | any three of seven windows of all kinds; both kinds of browser |
| `library` | `DragFollows`, `Restores`, `Agrees`, `Notified`, `Attached`, `PageAgrees` | a page of 8 pixels with a grid of 2 and windows of 2 to 5; arrays of 4, hashes and forms of 3, texts of 4; three observers and one of the class, two of `observeOnce`; three event names; three elements |

No deadlock check where the system may stop: all peers gone, all windows open or
destroyed, all requests made. `session_three_servers` and `session_ring` restrict
the next-state relation to messages that cross servers (`RelayNext`): peers do not
break and no presence is sent, since `session_one_server` has these.
`federation_reports` leaves the checker out (`ReportNext`); `federation_churn` has
it, and no sessions. `MCAdmin` and `MCLibrary` choose at the start which part of
their modules moves: the polls, the servers alone, or servers and page; one of
five parts of the libraries that have nothing in common.

Why the bounds are enough for what is asked:

- A cascade of closings needs a broken channel in the table of a user with a
  second session and a friend whose channel is broken too: three connections. A
  relay that comes back needs a server that is neither the sender's nor the first
  recipient's: three servers. The races for `serverList` are between two threads
  with the checker a third; two copies of an entry is the most one lost join
  leaves.
- A direction of a subscription is lost by two servers and one row; the update of
  another owner's row needs two names and a pair each; a list is wrong by one
  operation elsewhere after it was read. Deletion, insertion and a visit to the
  tab are three requests of which two overlap.
- A poll that is overtaken needs two requests; a channel that is lost needs two
  logins, or two requests that both find no connection. A race for a list needs one
  message: what it conserves is the message itself.
- Two chains of an updater need one request in flight when it is stopped and
  another after the second start; the third request is the application's, so that
  the count has others to be confused with.
- What goes wrong between modal windows goes wrong with the second: two dialogs, or
  two modals, and one window that is not modal below.
- `notify` skips the element behind the one that went: three observers. Positions
  and siblings of `:nth`, and an element inside another, need three elements. The
  operators of collections treat no element, one and several differently.

`session_ring` is the run that finds a disagreement, entered under `findings`:
two servers deliver to each other, each holding its monitor, and neither returns.
Its counterexample is fair: all threads go on, and both wait for ever.

### Fairness

`FairSpec` of `SessionManager`: each thread goes on with its calls when it can;
whether a client sends, breaks, or a table is pushed is left open. `FairSpec` of
`Federation`: each `UpdateNSThread` (its sleeps end after 5 s and its loop has no
exit), each call the naming server executes (an RMI thread), the checker (an
endless loop with a 5 s sleep) and the lateness of an entry that is not updated;
crashes, restarts, console commands and changes of sessions have none. `WebChat`:
a request that is under way is served and answered or fails, each by a thread of
the container or the browser; the timer of `wait_for_login` fires; the
`PeriodicalExecuter` fires again and again, strongly fair because only the bound on
requests under way can hold it up. What the user does, what arrives, the stream,
the WatchDog: none. `Ajax`: a request that was sent reaches state 4 and its
handling ends. `Admin`: the executer of `get_servers`, the views of the
servlet and the callbacks. `Desktop`, `LivePipe` and the parts of `library` have safety
properties only.

## 4. What is proved

For all values of the constants that satisfy the named assumptions, which TLC also
evaluates in every run. Every safety property that a passing run checks is a
theorem, but for `Agrees` and `PageAgrees`.

- `SessionManagerProofs!TypeCorrect`, `FederationProofs!TypeCorrect`,
  `PrototypeProofs!TypeCorrect`: `[]TypeOK`.
- `SessionManagerProofs!SnapshotSound`, `NoLateWrite`: no message is written for
  a removed session. `send` iterates over a list it took before the first
  write, and the writes destroy sessions, so "every channel in the list belongs
  to a listed session" is not an invariant. The inductive invariant `IInv` says
  that such a channel belongs to a listed session, or is closed, or is about to
  be closed by a call *further up the same stack* (`SnapshotInv`). To keep it
  when another thread destroys a session one needs that this thread would have
  to be in the same monitor: a frame that runs inside a monitor belongs to its
  owner (`HeldInv`), and the frame that releases it is the last of that
  server's on the stack (`LastInv`). `PlaceInv` ties the frames to the server
  of the connections they name. Each step is a replacement of the head of one
  stack (`Shift`), and the lemmas say what that does to the positions below.
- `DeliveryProofs` follows a message over all stacks. Its lemmas about a step
  (`Moves`) say which frames are new and where the others went.
  `CascadeIsBounded`: who destroys a session has taken it off the list, so above
  the call that closes its channel nothing closes it again (`OnceInv`).
  The other three rest on `RelayInv`: a frame that carries a message is on the
  stack of the thread of its sender and has its jids (`CarrierInv`), no two that
  carry it are inside the monitor of one server (`ServersInv`), and the first is
  on the sender's server (`OriginInv`). `NoneMissesAMessage`: a channel that a
  `send` took is written to, off the table, or still served by a frame of that
  stack (`OwedInv`). `FailureIsReported`: a failed write on the sender's server was
  answered with an error, or a frame of the stack is to write it (`MissedInv`).
  `FullJidArrivesOnce`: a table has one server for a full jid that no other begins
  with, so the calls that
  relay a message form a chain and all but the last have no server left
  (`ChainInv`); a channel that has it belongs to a server the chain is still
  in, so the chain cannot come back and write again (`VisitedInv`).
- `DeliveryProofs!DeliversAsPromised`: `SessionManager` implements `Delivery`, for any
  number of servers that call each other with tables of any age. `PromiseInv` adds
  to the above what the frames that are about a message know of it. Only a message
  asks for errors (`KindInv`); below a frame that carries one are others that do, and
  the monitors they hold (`BelowInv`); the channels it has still to write to were
  taken for it (`TakenInv`); an error goes to the sender's jid, has a cause (a write
  that failed or a server that may not answer), and is written while a call that
  carries the message waits (`ComplaintInv`); who sent has logged in (`NamedInv`); and a
  channel whose write failed is off the table, or its destruction is on the stack of
  the sender's thread (`PurgedInv`). Each action of a thread is then one
  step of `Delivery` (`SendTakes`, `WriteWrites`, `FailureMisses`, `DestroyLeaves`,
  `ReturnFinishes`) or none (`OthersStutter`): what is under way changes only when
  the last frame that carries a message goes (`UnderwayStep`), and what `Finish`
  asks for is what `NoneMissesAMessage` and `FailureIsReported` rest on.
- `DeliveryProofs!MonitorsGoOn`, `OneServerGoesOn`: what can be proved towards
  `HandlersReturn`. The owner of a monitor has the frame that gives it back on its
  stack (`OwnerInv`). A call outside of a monitor above one that is inside was made
  by `deliver`, and for another server, as no table of a server names itself
  (`AbroadInv`). So no monitor is kept after its handler, who has one waits at most in
  `deliver`, and on one server never: the circle that `session_ring` finds is the
  only kind of deadlock.
- `FederationProofs!RoutesSound`: no table routes a jid to an address that never
  reported it. The inductive invariant `RInv` follows a report on its way:
  through the call (`CallReported`), the entry (`EntriesReported`), the computed
  table that is not delivered yet, to the server; nothing about the contents of
  the list is needed, which is why no race for the list can break it.
- `AccountsProofs!LoginsSound`, `MergeSound`. `AccountsStep` says what any step of
  page, servlet and network can do to the accounts: one of the operations of
  `Accounts`, or nothing. `LoginsKnown` is inductive with the types: every
  operation that makes a list differ from the table names the name in `differs`.
  `SubscriptionsMerge` speaks of rows nobody is changing; its invariant
  (`MergeInv`) says of a row under change that it still says what was agreed
  *before* the call that is pending (`Before`), what `ReadSub` has read of it is
  what it says, and no other server has a call for it, or else it is spoilt.
- `AccountsProofs!TableSound`: the administration page is current. What it shows, and
  what an answer on its way would make it show, agrees with the accounts, or else
  `behind` says so or a request that will ask again is pending (`TableInv`).
- `WebChatProofs`. `Base` says how requests, connections, sessions and channels hang
  together (`Typed`, `Wired`, `Staged`, `Filled`). `SentIsWritten`: what a
  request to send is about is written when it is answered.
  `PolledChannelIsFilled` is inductive on `Base`. `NothingIsLost`: instead of
  counting, `Placed` says that each item that arrived is in one place, and that
  a list that is being read and replaced counts for its channel while it is
  (`Exclusive`: one thread at a time, and what it read is still there, as long
  as no two threads raced). `Known` keeps apart what is stored from what arrived.
- `PrototypeProofs!CallbacksOrdered`: `Ajax` implements `Exchange`, every step a
  callback it allows or a stutter. Which callbacks a request has had follows
  from where it is (`Shape`, one request at a time). `CountSound` adds that the
  set of what counts is finite and that the count is its size (`Counted`),
  `OneChainOnly` that only `this.updater` can be part of a chain, or become so by a
  second report of an answer that could not be read (`Going`, `Chained`).
- `PrototypeProofs!AttachedAlways`: the cache and the browser have the same handlers.
  The id of an element is its own, except on WebKit (`Numbered`), so what is
  cached under an id is of the element that is asked for (`Cached`), and what is
  cached is what was asked for (`Told`).
- `WindowProofs!DragFollowsAlways`: the difference of pointer and top is kept by
  every step of a drag, also where the constraint holds both back (`Held`).
  `RestoresAlways`: what a maximized window goes back to is kept in the window, in
  the cookie and in the history, and the three agree (`Sized`, `Remembered`) as long
  as the window was not shown while minimized. The height of a minimized one is in
  the window alone, and lost with the page.
- `WindowProofs!StackSound`, `LastIsReachable`, `LevelsApart`, `OpenedOnTop`, about
  `Desktop`: the functions of the library are operators from a page to the next,
  and a lemma each says that it makes a proper page of a proper one. `Proper`
  is that each level is taken once and is at most `maxZ` (`Levels`), and, as
  long as no modal window was shown twice or left out of turn, that `modals` is a
  stack whose last is over the overlay and the others under it, hidden, or raised
  by a resize (`Stack`). While `closeAllModalWindows` runs the page is not proper, since the
  overlay goes first; `Leaving` is what it is then.
- `LivePipeProofs!LaterIsAbove`, `ClickCloses`, `IndicatorsGo`, `ModalsOpenAlone`,
  about `LivePipe`, from `IInv`: what the fields have to do with each other
  (`Tidy`), and that a click on the overlay closes each modal window it was shown for
  that is not stranded (`Leaves`), which `open` breaks for the window that opens and
  for no other.
- `LivePipeProofs!NoneIsNotifiedTwice`, about `Notifier`: what is left before the
  index has been called and nothing after it has (`Turn`), as entries only move
  to the front and the one that may come is put last. Those that miss their turn
  moved there unseen, one for each that left.

Assumptions: kinds of windows and of items do not overlap (`KindsAssumption`,
`ItemsAssumption`), a jid begins with itself (`ExtendsAssumption`), a `None` is none of the values it stands beside
(`NoneAssumption`), identities that are counted are numbers (`IdsAssumption`), bounds
and sizes are numbers (`BoundsAssumption`, `PageAssumption`), a message is for a jid
(`TargetAssumption`), and a client has a server, and a thread of that server
(`ClientAssumption`). The bounds in the guards may be any numbers, and the sets of
clients, messages, windows and requests of any size.

Loops of the code are recursive functions over the numbers of a list. What a round
keeps is carried to the end by a least counterexample: the numbers at which it
fails have a least one (lemma `Least`, from the well-foundedness of `<`), and the
round before that one did not fail (`LoopHolds`). `closeAll`,
`closeAllModalWindows`, `without` and `invoke` are proved about in that way.

Only model-checked: every liveness property (`HandlersReturn`, `ServerJoins`,
`CrashedPruned`, `PollGoesOn`, `LoginSettles`, `RosterCatchesUp`, `ServersCatchUp`), as
TLAPS does not support reasoning about ENABLED, hence fairness. `Agrees` and
`PageAgrees` compare operators with their definitions over all inputs up to a
bound; they are built from RECURSIVE operators, `SelectSeq` and folds of the
library, whose values the provers cannot unfold for inputs of any size. The
`TypeOK` of `WebChat`, `Desktop` and `LivePipe` and `FrameTypeOK` are stated for
readers and no run lists them; the types that the proofs need are in `Typed`,
`UI` and `Window` of the proof modules. The `TypeOK` of `Ajax` is proved and in no run.
`Delivered` is a theorem for any number of servers; the run that checks it has one.

## 5. What the code does and its readers may not expect

The models follow the code in all of this; properties that except it name the
case.

- A chat message for a bare jid with two resources on another server is delivered
  once per resource, each time to both (`SessionManager.scala:54`). A full jid is a
  prefix too: a message for `home` goes to `home2` as well, and twice to both when
  they are on one other server. `FullJidOnce` is about jids no other begins with
  (`Sole`); for the others only the rest of `Delivered` holds.
- The end of a connection closes the socket and leaves the session in the table
  until a write to it fails (`NioServer.scala:59`).
- Offline presence is sent when one session of the user is left, not when none is
  (`SessionManager.scala:31`).
- Pushes overlap, and an older table may stay (`LoadBalancer.scala:71`). A server
  that restarts before it is pruned keeps an entry with a dead stub
  (`LoadBalancer.scala:30`). A list that three delays hit at once may have an
  address twice.
- The UPDATE of a subscription changes the rows of all owners with that friend
  (`UserManager.scala:39`); accepting once more what is "both" makes it one
  direction again. `createUser` reports success when the insert was dropped or
  refused, and a refused insert costs the server its link. The administration
  page is told "ok" whatever the bean swallowed, and a naming server that cannot
  be asked is shown as one server "localhost".
- A poll of `wait_for_login` that fails is never made again: the page stays with
  neither form nor chat (`chat.js:115`; `LoginSettles` excepts broken requests).
- The second login of a browser session replaces the channel before it knows
  whether it will connect (`ChatConnection.java:83`): the page then polls a channel
  nobody fills.
- The WatchDog dies at the first abandoned connection that never logged in
  (`ChatConnection.java:37`); no connection is closed after that.
- A message that arrives between `retrieveMessages`' read and its reset is lost,
  and two polls at once may both get one (`WebHumanChannel.scala:25`).
- `Ajax.activeRequestCount` stays one too high for each request whose `open`,
  `setRequestHeaders`, `send` or `onComplete` threw, whose answer could not be read
  (`X-JSON` that is not UTF-8), or whose `onException` threw.
- `onLoading` is called by a timer of 10 ms, also after `onComplete` when the answer
  was faster (`prototype.js:1228`); `Exchange` gives it no place in the order. A
  `PeriodicalUpdater` that its own content stops goes on, as `updateComplete` sets the
  timer after the content (`prototype.js:1446`); started again it polls twice.
- A modal window of `window.js` that is destroyed while `show` waits 10 ms for the
  opacity leaves the overlay up. `closeAllModalWindows` skips windows. With
  `keepMultiModalWindow` a resize or a scroll raises the centered dialogs that are
  under the overlay over it (`window.js:829`), where they can be answered out of turn.
- A window that is minimized when the page is loaded again has lost its height, since
  `minimize` sets it to 0 before the cookie is saved (`window.js:909`, 1158); it is
  unfolded to the least height. If it was maximized too, it no longer is.
- A modal window of `livepipe` that takes the place of another is without an
  overlay, except in browsers that report aborted requests; a modal lightbox loses
  `closeOnClick`. One whose request fails before it is open, or whose image never
  comes, leaves the overlay up and nothing to click: its link is under the overlay
  (`livepipe/window.js:276`, 307; `Stranded`), and only code of the page can open it.
- An observer of `observeOnce` makes `notify` skip the next one. On WebKit, `window`
  and `document` share an id in the cache of handlers, and stopping one may leave a
  listener of the other. Stopping all handlers of the window, of an event or at all,
  throws and stops none, as `window` has no `stopObserving` of its own
  (`livepipe.js:222`, 228; `prototype.js:2565`).
- Without XPath, an id after `>`, `+` or a descendant combinator is found when the
  steps before it have found that same element (`div > #i` for a `div` with that id,
  wherever it is; `prototype.js:3199`, `Strays`), `match("*")` is false for every
  element (3044), and `:nth` is wrong in the three cases `Selected` names. A window shown
  while it is minimized grows at each restore. The administration page opened at
  `#accounts` shows an empty table until the tab is left and visited again.

## 6. Not modelled, and the plan

- *Looking up a naming server* (`Connector`, the registry part of `NamingServer`,
  `BootClient`, `getServer`): several naming servers under names `n`, the unbinding
  of one that does not answer. Next, as a module `Registry` beside `Federation`: a
  live naming server is found, and none is unbound while it lives.
- *Splitting the stream* (`XMLParser`, `XMLValidator`) and *the negotiation* of
  `XMPPServerParser` and `XMPPClientParser`, as a module `Stream`: two byte streams
  of symbols, against an abstract specification that moves whole stanzas.
- *UDP server* and the *thread-per-connection server*: not configured.
  `Client[c].thread` of `SessionManager` is a constant, so that the second needs
  only another instance. *Command line*: its prompt is input and output.
- *Text of stanzas*, *configuration*: templates and constants. *Effects, tooltips,
  debug windows, JSON, Base64, TLS helpers*: third-party code no page loads or that
  only formats.
- Of `prototype.js`: classes and methodizing, dimensions and styles, XPath,
  extensions of elements for old browsers. They keep no state that the rest
  depends on, or none at all.

Theorems worth proving next: what `Insertion`, the traversals and the methods of
`Enumerable` promise, restated as recursive functions over the numbers of a list so
that `LoopHolds` applies; with the modules above, that a naming server that lives is
found, and that `Stream` implements the moving of whole stanzas.
