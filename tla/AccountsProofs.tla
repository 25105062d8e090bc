--------------------------- MODULE AccountsProofs ---------------------------
(***************************************************************************)
(* Proofs about Admin, for any servers, names and passwords: who may log   *)
(* in, what a row of friends says when the handlers are done, and that the *)
(* table of the page catches up.  The lemma AccountsStep says what a step  *)
(* of the page, the servlet or the network can do to the accounts; the     *)
(* theorems rest on it.                                                    *)
(***************************************************************************)
EXTENDS Admin, TLAPS

User == [there : BOOLEAN, known : SUBSET (Name \X Password)]

CallRec == [pair : Pair, deed : Deed]

TaskRec == [calls : Seq(CallRec), step : {"exists", "read", "insert", "update", "delete"}, seen : Sub]

\* A handler changes each row once.
Distinct(calls) == \A i, j \in DOMAIN calls : calls[i].pair = calls[j].pair => i = j

\* The steps that follow "exists" suit the call.
Suits(step, deed) ==
    \/ step = "insert" /\ deed \in {"none", "from", "to", "add"}
    \/ step \in {"read", "update"} /\ deed \in {"none", "from", "to"}
    \/ step = "delete" /\ deed = "remove"

Proper(t) ==
    /\ Distinct(t.calls)
    /\ t.step = "exists" \/ Suits(t.step, t.calls[1].deed)

AccountsType ==
    /\ pass \in [Name -> Password \cup {NoPassword}]
    /\ users \in [Server -> User]
    /\ lb \in [Server -> BOOLEAN]
    /\ differs \in [Server -> SUBSET Name]
    /\ rows \in [Pair -> Seq(Sub)]
    /\ intended \in [Pair -> SUBSET {"from", "to"}]
    /\ spoilt \subseteq Pair
    /\ task \in [Server -> TaskRec]
    /\ \A s \in Server : Proper(task[s])

\* What a request of the page may ask for.
Sound(r) ==
    /\ r.kind \in {"put", "post"} => r.name \in Name /\ r.password \in Password
    /\ r.kind = "delete" => r.name \in Name
    /\ r.stage = "half" => r.kind = "delete"

RequestsSound ==
    /\ DOMAIN requests = Slot
    /\ \A i \in Slot : DOMAIN requests[i] = DOMAIN NoRequest /\ Sound(requests[i])

AccountsOnly == <<pass, rows, users, lb, task, intended, spoilt, differs>>

AccountsNext ==
    \/ ServerStep
    \/ \E n \in Name, p \in Password \cup {NoPassword} : SetAccount(n, p)
    \/ \E n \in Name : DbDeleteFriends(n)
    \/ UNCHANGED AccountsOnly

-----------------------------------------------------------------------------
(* A new request is sound, and so are those there were. *)
LEMMA SendSound ==
    ASSUME RequestsSound, NEW k, NEW n, NEW p, Sound(Request(k, n, p)), Send(Request(k, n, p))
    PROVE  RequestsSound'
  BY DEF RequestsSound, Send, Sound, Request, NoRequest, FreeSlots

LEMMA InitSound == AdminInit => RequestsSound
  BY DEF AdminInit, RequestsSound, Sound, Get, Request, NoRequest

LEMMA AnsweredAt ==
    ASSUME RequestsSound, NEW i \in Slot, NEW x
    PROVE  Answered(i, x) = [requests EXCEPT ![i] = [requests[i] EXCEPT !.stage = "answered", !.result = x]]
  BY DEF Answered, RequestsSound, NoRequest

(* What a step of Next leaves of the requests, and does to the accounts. *)
LEMMA AccountsStep ==
    ASSUME NoPassword \notin Password, RequestsSound, [Next]_vars
    PROVE  RequestsSound' /\ AccountsNext
<1> USE DEF RequestsSound, Sound
<1>1. CASE OfServers
  BY <1>1 DEF OfServers, AccountsNext
<1>2. CASE PollServers
  <2>1. Sound(Get("servers"))
    BY DEF Get, Request, NoRequest
  <2>2. RequestsSound'
    BY <1>2, <2>1, SendSound DEF PollServers, Get
  <2> QED BY <1>2, <2>2 DEF PollServers, AccountsNext, AccountsOnly, accountsVars
<1>3. CASE OnlineChanges
  BY <1>3 DEF OnlineChanges, AccountsNext, AccountsOnly
<1>4. ASSUME NEW t \in Tab, ClickTab(t) PROVE RequestsSound' /\ AccountsNext
  <2>1. Sound(Get("accounts"))
    BY DEF Get, Request, NoRequest
  <2>2. RequestsSound'
    BY <1>4, <2>1, SendSound DEF ClickTab, Get
  <2> QED BY <1>4, <2>2 DEF ClickTab, AccountsNext, AccountsOnly
<1>5. ASSUME NEW n \in Name, NEW p, NEW k, Submit(k, n, p),
             (k \in {"put", "post"} /\ p \in Password) \/ k = "delete"
      PROVE  RequestsSound' /\ AccountsNext
  <2>1. Sound(Request(k, n, p))
    BY <1>5 DEF Request, NoRequest
  <2>2. RequestsSound'
    BY <1>5, <2>1, SendSound DEF Submit
  <2> QED BY <1>5, <2>2 DEF Submit, AccountsNext, AccountsOnly
<1>6. ASSUME NEW i \in Slot, Serve(i) PROVE RequestsSound' /\ AccountsNext
  <2>0. /\ DOMAIN requests' = Slot
        /\ \A j \in Slot \ {i} : \/ requests'[j] = requests[j]
                                 \/ \E b : requests'[j] = [requests[j] EXCEPT !.overtaken = b]
        /\ \E x : requests'[i] = [requests[i] EXCEPT !.stage = "answered", !.result = x]
    <3>1. CASE requests[i].kind = "servers"
      <4>1. requests' = [requests EXCEPT ![i] = [requests[i] EXCEPT !.stage = "answered", !.result = online]]
        BY <1>6, <3>1, AnsweredAt DEF Serve
      <4> QED BY <4>1
    <3>2. CASE requests[i].kind = "accounts"
      <4>1. Answered(i, Names)[i] = [requests[i] EXCEPT !.stage = "answered", !.result = Names]
        <5>1. Answered(i, Names) = [requests EXCEPT ![i] = [requests[i] EXCEPT !.stage = "answered", !.result = Names]]
          BY AnsweredAt
        <5> QED BY <5>1
      <4>2. requests' = [j \in Slot |-> IF j = i THEN Answered(i, Names)[i]
                                        ELSE [requests[j] EXCEPT !.overtaken =
                                                 @ \/ (requests[j].kind = "accounts" /\ requests[j].stage = "answered")]]
        BY <1>6, <3>2 DEF Serve
      <4> HIDE DEF RequestsSound
      <4> QED BY <4>1, <4>2, Zenon
    <3> QED BY <1>6, <3>1, <3>2 DEF Serve
  <2>1. RequestsSound'
    <3>1. \A j \in Slot \ {i} : DOMAIN requests'[j] = DOMAIN NoRequest /\ Sound(requests'[j])
      BY <2>0 DEF NoRequest
    <3>2. DOMAIN requests'[i] = DOMAIN NoRequest /\ Sound(requests'[i])
      BY <2>0, <1>6 DEF NoRequest, Serve
    <3> QED BY <2>0, <3>1, <3>2
  <2> QED BY <1>6, <2>1 DEF Serve, AccountsNext, AccountsOnly, accountsVars
<1>7. ASSUME NEW i \in Slot, Change(i) PROVE RequestsSound' /\ AccountsNext
  <2>1. RequestsSound'
    BY <1>7 DEF Change, Answered, NoRequest
  <2>2. AccountsNext
    BY <1>7 DEF Change, AccountsNext, AccountsOnly, accountsVars, DbCreateUser, DbUpdateUser, DbDeleteUser
  <2> QED BY <2>1, <2>2
<1>8. ASSUME NEW i \in Slot, Fails(i) PROVE RequestsSound' /\ AccountsNext
  <2>1. RequestsSound'
    BY <1>8 DEF Fails, Answered, NoRequest
  <2> QED BY <1>8, <2>1 DEF Fails, AccountsNext, AccountsOnly
<1>9. ASSUME NEW i \in Slot, Answer(i) \/ Lose(i) PROVE RequestsSound' /\ AccountsNext
  <2>0. \E r \in {NoRequest, Get("accounts")} : requests' = [requests EXCEPT ![i] = r]
    BY <1>9 DEF Answer, Lose, Settled
  <2>1. \A r \in {NoRequest, Get("accounts")} : DOMAIN r = DOMAIN NoRequest /\ Sound(r)
    <3>1. DOMAIN NoRequest = DOMAIN NoRequest /\ Sound(NoRequest)
      BY DEF NoRequest
    <3>2. DOMAIN Get("accounts") = DOMAIN NoRequest /\ Sound(Get("accounts"))
      BY DEF Get, Request, NoRequest
    <3> QED BY <3>1, <3>2
  <2>2. RequestsSound'
    BY <2>0, <2>1
  <2> QED BY <1>9, <2>2 DEF Answer, Lose, AccountsNext, AccountsOnly, accountsVars
<1>10. CASE UNCHANGED vars
  BY <1>10 DEF vars, adminVars, accountsVars, AccountsNext, AccountsOnly
<1> QED BY <1>1, <1>2, <1>3, <1>4, <1>5, <1>6, <1>7, <1>8, <1>9, <1>10 DEF Next
-----------------------------------------------------------------------------
(* The list a server has after its first use lists a name once, and what   *)
(* it may have wrong is in Behind.                                         *)
Agrees(s, known, behind_) ==
    /\ \A d, e \in known : d[1] = e[1] => d = e
    /\ \A n \in Name \ behind_ : \A p \in Password : <<n, p>> \in known <=> pass[n] = p

LEMMA LoadedAgrees ==
    ASSUME NoPassword \notin Password, AccountsType, LoginsKnown, NEW s \in Server
    PROVE  Loaded(s) \in User /\ Loaded(s).there /\ Behind(s) \subseteq Name
           /\ Agrees(s, Loaded(s).known, Behind(s))
<1> USE DEF AccountsType, User
<1>1. Stored \subseteq Name \X Password
  BY DEF Stored
<1>2. Agrees(s, Stored, {})
  BY DEF Stored, Agrees
<1>3. CASE users[s].there
  BY <1>3 DEF Loaded, Behind, Agrees, LoginsKnown
<1>4. CASE ~users[s].there /\ lb[s]
  BY <1>1, <1>2, <1>4 DEF Loaded, Behind
<1>5. CASE ~users[s].there /\ ~lb[s]
  BY <1>5 DEF Loaded, Behind, Agrees
<1> QED BY <1>3, <1>4, <1>5

(* What a handler that begins does: its calls are those of the task, and   *)
(* the rows they name are intended to say more, or nothing.                *)
LEMMA BeginFacts ==
    ASSUME AccountsType, NEW s \in Server, NEW calls \in Seq(CallRec), Distinct(calls), Begin(s, calls)
    PROVE  /\ task' = [task EXCEPT ![s] = [Idle EXCEPT !.calls = calls]]
           /\ task' \in [Server -> TaskRec]
           /\ intended' \in [Pair -> SUBSET {"from", "to"}] /\ spoilt' \subseteq Pair
           /\ spoilt \subseteq spoilt'
           /\ \A i \in DOMAIN calls :
                 LET p == calls[i].pair
                 IN  /\ intended'[p] = Agreed(intended[p], calls[i].deed)
                     /\ p \notin spoilt' => (\A t \in Server : ~Pending(t, p)) /\ calls[i].deed \notin intended[p]
           /\ \A p \in Pair : (\A i \in DOMAIN calls : calls[i].pair # p) => intended'[p] = intended[p]
<1> USE DEF AccountsType
<1> DEFINE deed(p) == CHOOSE x \in Deed : \E i \in DOMAIN calls : calls[i] = [pair |-> p, deed |-> x]
           pairs == {calls[i].pair : i \in DOMAIN calls}
<1>1. \A i \in DOMAIN calls : calls[i] \in CallRec
  OBVIOUS
<1>2. ASSUME NEW i \in DOMAIN calls
      PROVE  deed(calls[i].pair) = calls[i].deed /\ calls[i].deed \in Deed /\ calls[i].pair \in Pair
  <2>1. calls[i] = [pair |-> calls[i].pair, deed |-> calls[i].deed] /\ calls[i].deed \in Deed
    BY <1>1 DEF CallRec
  <2>2. ASSUME NEW x \in Deed, NEW k \in DOMAIN calls, calls[k] = [pair |-> calls[i].pair, deed |-> x]
        PROVE  x = calls[i].deed
    <3>1. k = i
      BY <2>2 DEF Distinct
    <3> QED BY <2>1, <2>2, <3>1
  <2>3. deed(calls[i].pair) = calls[i].deed
    BY <2>1, <2>2
  <2> QED BY <1>1, <2>3 DEF CallRec
<1>3. /\ task' = [task EXCEPT ![s] = [Idle EXCEPT !.calls = calls]]
      /\ intended' = [p \in Pair |-> IF p \in pairs THEN Agreed(intended[p], deed(p)) ELSE intended[p]]
      /\ spoilt' = spoilt \cup {p \in pairs : \/ \E t \in Server : Pending(t, p)
                                              \/ deed(p) \in intended[p]}
  BY DEF Begin
<1>4. [Idle EXCEPT !.calls = calls] \in TaskRec
  BY DEF Idle, TaskRec, Sub
<1>5. task' \in [Server -> TaskRec]
  BY <1>3, <1>4
<1>6. \A p \in pairs : p \in Pair /\ deed(p) \in Deed
  <2> SUFFICES ASSUME NEW p \in pairs PROVE p \in Pair /\ deed(p) \in Deed
    OBVIOUS
  <2>1. PICK i \in DOMAIN calls : p = calls[i].pair
    OBVIOUS
  <2> HIDE DEF deed
  <2> QED BY <1>2, <2>1
<1> HIDE DEF deed
<1>7. intended' \in [Pair -> SUBSET {"from", "to"}] /\ spoilt' \subseteq Pair /\ spoilt \subseteq spoilt'
  <2>1. spoilt' \subseteq Pair /\ spoilt \subseteq spoilt'
    BY <1>3, <1>6
  <2>2. \A p \in Pair : intended'[p] \in SUBSET {"from", "to"}
    BY <1>3, <1>6 DEF Agreed
  <2> QED BY <1>3, <2>1, <2>2
<1>8. ASSUME NEW i \in DOMAIN calls
      PROVE  LET p == calls[i].pair
             IN  /\ intended'[p] = Agreed(intended[p], calls[i].deed)
                 /\ p \notin spoilt' => (\A t \in Server : ~Pending(t, p)) /\ calls[i].deed \notin intended[p]
  BY <1>2, <1>3
<1>9. ASSUME NEW p \in Pair, \A i \in DOMAIN calls : calls[i].pair # p
      PROVE  intended'[p] = intended[p]
  BY <1>3, <1>9
<1> QED BY <1>3, <1>5, <1>7, <1>8, <1>9

(* The calls of the three handlers. *)
LEMMA CallsOfHandlers ==
    ASSUME NEW u \in Name, NEW v \in Name, u # v, NEW a \in Deed, NEW b \in Deed
    PROVE  LET c == [pair |-> <<u, v>>, deed |-> a]  d == [pair |-> <<v, u>>, deed |-> b]
           IN  /\ <<c>> \in Seq(CallRec) /\ Distinct(<<c>>) /\ <<c>> \o <<>> = <<c>>
               /\ <<c>> \o <<d>> \in Seq(CallRec) /\ Distinct(<<c>> \o <<d>>)
<1> DEFINE c == [pair |-> <<u, v>>, deed |-> a]
           d == [pair |-> <<v, u>>, deed |-> b]
<1>1. c \in CallRec /\ d \in CallRec /\ c.pair # d.pair
  BY DEF CallRec, Pair
<1>2. /\ <<c>> \in Seq(CallRec) /\ Distinct(<<c>>) /\ <<c>> \o <<>> = <<c>>
      /\ <<c>> \o <<d>> \in Seq(CallRec) /\ Distinct(<<c>> \o <<d>>)
  <2> HIDE DEF c, d
  <2> QED BY <1>1 DEF Distinct
<1> QED BY <1>2

(* Each of them is the beginning of some such calls. *)
Handler(s, u, v) ==
    \/ Subscribed(s, u, v) \/ Unsubscribed(s, u, v)
    \/ \E deed \in {"add", "remove"} : RosterSet(s, u, v, deed)

LEMMA HandlerBegins ==
    ASSUME NEW s \in Server, NEW u \in Name, NEW v \in Name, Handler(s, u, v)
    PROVE  \E calls \in Seq(CallRec) : Distinct(calls) /\ Begin(s, calls)
<1>1. CASE Subscribed(s, u, v) /\ Knows(s, v)
  BY <1>1, CallsOfHandlers DEF Subscribed, Deed
<1>2. CASE Subscribed(s, u, v) /\ ~Knows(s, v)
  BY <1>2, CallsOfHandlers DEF Subscribed, Deed
<1>3. CASE Unsubscribed(s, u, v)
  BY <1>3, CallsOfHandlers DEF Unsubscribed, Deed
<1>4. ASSUME NEW deed \in {"add", "remove"}, RosterSet(s, u, v, deed)
      PROVE  \E calls \in Seq(CallRec) : Distinct(calls) /\ Begin(s, calls)
  BY <1>4, CallsOfHandlers DEF RosterSet, Deed
<1> QED BY <1>1, <1>2, <1>3, <1>4 DEF Handler

(* The call that is done leaves the task, and the others stay. *)
LEMMA DoneFacts ==
    ASSUME AccountsType, NEW s \in Server, task[s].calls # <<>>, Done(s)
    PROVE  /\ task' \in [Server -> TaskRec] /\ \A t \in Server : Proper(task'[t])
           /\ \A t \in Server \ {s} : task'[t] = task[t]
           /\ task'[s].step = "exists" /\ task'[s].calls = Tail(task[s].calls)
           /\ Call(s) \in CallRec /\ 1 \in DOMAIN task[s].calls
           /\ \A i \in DOMAIN task'[s].calls : i + 1 \in DOMAIN task[s].calls /\ i + 1 # 1
                                              /\ task'[s].calls[i] = task[s].calls[i + 1]
           /\ \A i \in DOMAIN task[s].calls : i # 1 => i - 1 \in DOMAIN task'[s].calls
<1> USE DEF AccountsType
<1> DEFINE c == task[s].calls
<1>1. c \in Seq(CallRec) /\ c # <<>>
  BY DEF TaskRec
<1>2. task' = [task EXCEPT ![s] = [Idle EXCEPT !.calls = Tail(c)]]
  BY DEF Done
<1> HIDE DEF c
<1>3. /\ Tail(c) \in Seq(CallRec) /\ c[1] \in CallRec /\ 1 \in DOMAIN c
      /\ \A i \in DOMAIN Tail(c) : i + 1 \in DOMAIN c /\ i + 1 # 1 /\ Tail(c)[i] = c[i + 1]
      /\ \A i \in DOMAIN c : i # 1 => i - 1 \in DOMAIN Tail(c)
  BY <1>1
<1>4. Distinct(Tail(c))
  <2>1. Distinct(c)
    BY DEF c, Proper
  <2> SUFFICES ASSUME NEW i \in DOMAIN Tail(c), NEW j \in DOMAIN Tail(c), Tail(c)[i].pair = Tail(c)[j].pair
               PROVE  i = j
    BY DEF Distinct
  <2>2. i + 1 = j + 1
    BY <1>3, <2>1 DEF Distinct
  <2> QED BY <1>1, <2>2
<1>5. [Idle EXCEPT !.calls = Tail(c)] \in TaskRec
  BY <1>3 DEF Idle, TaskRec, Sub
<1>6. task'[s] = [Idle EXCEPT !.calls = Tail(c)] /\ task'[s].calls = Tail(c) /\ task'[s].step = "exists"
  BY <1>2 DEF Idle
<1>7. task' \in [Server -> TaskRec] /\ \A t \in Server \ {s} : task'[t] = task[t]
  BY <1>2, <1>5
<1>8. \A t \in Server : Proper(task'[t])
  BY <1>4, <1>6, <1>7 DEF Proper
<1> QED BY <1>3, <1>6, <1>7, <1>8 DEF c, Call

(* The values that an UPDATE leaves in the rows it finds. *)
LEMMA Overwritten ==
    ASSUME NEW row \in Seq(Sub), NEW new \in Sub
    PROVE  /\ [i \in DOMAIN row |-> new] \in Seq(Sub)
           /\ row = <<>> => [i \in DOMAIN row |-> new] = <<>>
           /\ Len(row) = 1 => [i \in DOMAIN row |-> new] = <<new>>
<1> DEFINE r == [i \in DOMAIN row |-> new]
<1>1. DOMAIN row = 1..Len(row) /\ Len(row) \in Nat
  OBVIOUS
<1>2. r \in [1..Len(row) -> Sub]
  BY <1>1
<1>3. r \in Seq(Sub) /\ Len(r) = Len(row)
  BY <1>1, <1>2
<1>4. \A i \in 1..Len(r) : r[i] = new
  BY <1>1, <1>3
<1> HIDE DEF r
<1>5. row = <<>> => r = <<>>
  BY <1>3
<1>6. Len(row) = 1 => r = <<new>>
  BY <1>3, <1>4
<1> QED BY <1>3, <1>5, <1>6 DEF r

(* What a step does to what the server's list has to agree with. *)
LEMMA AccountsTypeStep ==
    ASSUME NoPassword \notin Password, AccountsType, AccountsNext
    PROVE  AccountsType'
<1> USE DEF AccountsType
<1>1. CASE UNCHANGED AccountsOnly
  BY <1>1 DEF AccountsOnly
<1>2. ASSUME NEW n \in Name, NEW p \in Password \cup {NoPassword}, SetAccount(n, p)
      PROVE  AccountsType'
  BY <1>2 DEF SetAccount
<1>3. ASSUME NEW n \in Name, DbDeleteFriends(n)
      PROVE  AccountsType'
  <2>1. \A p \in Pair : rows'[p] \in Seq(Sub)
    BY <1>3 DEF DbDeleteFriends
  <2> QED BY <1>3, <2>1 DEF DbDeleteFriends
<1>4. ASSUME NEW s \in Server, NEW n \in Name, NEW p \in Password, CreateUser(s, n, p)
      PROVE  AccountsType'
  <2>1. Loaded(s) \in User /\ Behind(s) \subseteq Name
    BY DEF Loaded, Behind, User, Stored
  <2>2. [Loaded(s) EXCEPT !.known = @ \cup {<<n, p>>}] \in User
    BY <2>1 DEF User
  <2>3. CASE Knows(s, n)
    BY <1>4, <2>1, <2>3 DEF CreateUser
  <2>4. CASE ~Knows(s, n)
    <3>1. users' = [users EXCEPT ![s] = [Loaded(s) EXCEPT !.known = @ \cup {<<n, p>>}]]
      BY <1>4, <2>4 DEF CreateUser
    <3>2. users' \in [Server -> User]
      BY <2>2, <3>1
    <3>3. pass' \in [Name -> Password \cup {NoPassword}] /\ lb' \in [Server -> BOOLEAN]
      BY <1>4, <2>4 DEF CreateUser
    <3>4. differs' \in [Server -> SUBSET Name]
      <4>1. \E new \in BOOLEAN : differs' = [t \in Server |->
                  IF t = s THEN Behind(s) \cup (IF new THEN {} ELSE {n})
                  ELSE IF new THEN differs[t] \cup {n} ELSE differs[t]]
        BY <1>4, <2>4 DEF CreateUser
      <4> HIDE DEF AccountsType
      <4> QED BY <2>1, <4>1 DEF AccountsType
    <3> QED BY <1>4, <3>2, <3>3, <3>4 DEF CreateUser
  <2> QED BY <2>3, <2>4
<1>5. ASSUME NEW s \in Server, Auth(s)
      PROVE  AccountsType'
  <2>1. Loaded(s) \in User /\ Behind(s) \subseteq Name
    BY DEF Loaded, Behind, User, Stored
  <2> QED BY <1>5, <2>1 DEF Auth
<1>6. ASSUME NEW s \in Server, LinkChanges(s)
      PROVE  AccountsType'
  BY <1>6 DEF LinkChanges
<1>7. ASSUME NEW s \in Server, NEW u \in Name, NEW v \in Name, Handler(s, u, v)
      PROVE  AccountsType'
  <2>1. PICK calls \in Seq(CallRec) : Distinct(calls) /\ Begin(s, calls)
    BY <1>7, HandlerBegins
  <2>2. UNCHANGED <<pass, rows, users, lb, differs>>
    BY <1>7 DEF Handler, Subscribed, Unsubscribed, RosterSet
  <2>3. \A t \in Server : Proper(task'[t])
    <3>1. task' = [task EXCEPT ![s] = [Idle EXCEPT !.calls = calls]] /\ Proper([Idle EXCEPT !.calls = calls])
      BY <2>1, BeginFacts DEF Idle, Proper
    <3> QED BY <2>1, <3>1
  <2> QED BY <2>1, <2>2, <2>3, BeginFacts
<1>8. ASSUME NEW s \in Server, Exists(s) PROVE AccountsType'
  <2>1. task[s] \in TaskRec /\ Call(s) \in CallRec
    BY <1>8 DEF Exists, At, Call, TaskRec
  <2>2. task' \in [Server -> TaskRec] /\ \A t \in Server : Proper(task'[t])
    <3>1. CASE Done(s)
      BY <1>8, <3>1, DoneFacts DEF Exists, At
    <3>2. ASSUME NEW x, Suits(x, Call(s).deed), task' = [task EXCEPT ![s].step = x]
          PROVE  task' \in [Server -> TaskRec] /\ \A t \in Server : Proper(task'[t])
      <4>1. [task[s] EXCEPT !.step = x] \in TaskRec /\ Proper([task[s] EXCEPT !.step = x])
        BY <2>1, <3>2 DEF TaskRec, Proper, Call, Suits
      <4> QED BY <3>2, <4>1
    <3>3. CASE ~Done(s)
      <4> DEFINE x == Follows(Call(s).deed, lb[s] /\ rows[Call(s).pair] # <<>>)
      <4>1. x # "over" /\ task' = [task EXCEPT ![s].step = x]
        BY <1>8, <3>3 DEF Exists
      <4>2. Suits(x, Call(s).deed)
        BY <2>1, <4>1 DEF Follows, Suits, CallRec, Deed
      <4> HIDE DEF x
      <4> QED BY <3>2, <4>1, <4>2 DEF Suits
    <3> QED BY <3>1, <3>3
  <2>3. spoilt' \subseteq Pair /\ UNCHANGED <<pass, rows, users, lb, intended, differs>>
    BY <1>8, <2>1 DEF Exists, CallRec
  <2> QED BY <2>2, <2>3
<1>9. ASSUME NEW s \in Server, ReadSub(s) PROVE AccountsType'
  <2>1. task[s] \in TaskRec /\ Call(s) \in CallRec
    BY <1>9 DEF ReadSub, At, Call, TaskRec
  <2>2. PICK r \in TaskRec : task' = [task EXCEPT ![s] = r] /\ Proper(r)
    <3>1. CASE lb[s] /\ rows[Call(s).pair] # <<>>
      <4> DEFINE x == rows[Call(s).pair][1]
                 r == [task[s] EXCEPT !.step = "update", !.seen = x]
      <4>1. x \in Sub
        BY <2>1, <3>1 DEF CallRec
      <4>2. r \in TaskRec /\ Proper(r)
        <5>1. task[s].step = "read" /\ Proper(task[s])
          BY <1>9 DEF ReadSub, At
        <5> HIDE DEF x
        <5> QED BY <2>1, <4>1, <5>1 DEF TaskRec, Proper, Suits
      <4>3. task' = [task EXCEPT ![s] = r]
        BY <1>9, <3>1 DEF ReadSub
      <4> HIDE DEF r
      <4> QED BY <4>2, <4>3
    <3>2. CASE ~(lb[s] /\ rows[Call(s).pair] # <<>>)
      <4>1. Idle \in TaskRec /\ Proper(Idle)
        BY DEF Idle, TaskRec, Sub, Distinct, Proper
      <4> QED BY <1>9, <3>2, <4>1 DEF ReadSub
    <3> QED BY <3>1, <3>2
  <2>4. task' \in [Server -> TaskRec] /\ \A t \in Server : Proper(task'[t])
    BY <2>2
  <2>5. spoilt' \subseteq Pair /\ UNCHANGED <<pass, rows, users, lb, intended, differs>>
    BY <1>9 DEF ReadSub
  <2> QED BY <2>4, <2>5
<1>10. ASSUME NEW s \in Server, Insert(s) \/ Delete(s) PROVE AccountsType'
  <2>1. /\ task' \in [Server -> TaskRec] /\ \A t \in Server : Proper(task'[t])
        /\ Call(s) \in CallRec
    BY <1>10, DoneFacts DEF Insert, Delete, Written, At
  <2>2. PICK row \in Seq(Sub) : Written(s, row)
    <3>1. Append(rows[Call(s).pair], IF Call(s).deed = "add" THEN "none" ELSE Call(s).deed) \in Seq(Sub)
             \/ ~Insert(s)
      <4>1. Insert(s) => Call(s).deed \in {"none", "from", "to", "add"}
        BY DEF Insert, At, Proper, Suits, Call
      <4> QED BY <2>1, <4>1 DEF CallRec, Sub
    <3>2. <<>> \in Seq(Sub)
      OBVIOUS
    <3> QED BY <1>10, <3>1, <3>2 DEF Insert, Delete
  <2>3. rows' \in [Pair -> Seq(Sub)] /\ spoilt' \subseteq Pair
    BY <2>1, <2>2 DEF Written, CallRec
  <2> QED BY <2>1, <2>2, <2>3 DEF Written
<1>11. ASSUME NEW s \in Server, Update(s) PROVE AccountsType'
  <2>1. /\ task' \in [Server -> TaskRec] /\ \A t \in Server : Proper(task'[t])
        /\ Call(s) \in CallRec
    BY <1>11, DoneFacts DEF Update, At
  <2>2. Merge(task[s].seen, Call(s).deed) \in Sub
    BY <1>11 DEF Update, At, Proper, Suits, Call, Merge, Sub
  <2>3. \A p \in Pair : [i \in DOMAIN rows[p] |-> Merge(task[s].seen, Call(s).deed)] \in Seq(Sub)
    BY <2>2, Overwritten
  <2>4. rows' \in [Pair -> Seq(Sub)] /\ spoilt' \subseteq Pair
    <3>1. CASE lb[s]
      <4>1. rows' = [p \in Pair |-> IF p \in {q \in Pair : q[2] = Call(s).pair[2]}
                                    THEN [i \in DOMAIN rows[p] |-> Merge(task[s].seen, Call(s).deed)] ELSE rows[p]]
        BY <1>11, <3>1 DEF Update
      <4>2. spoilt' \subseteq Pair
        BY <1>11, <3>1 DEF Update
      <4> QED BY <2>3, <4>1, <4>2
    <3>2. CASE ~lb[s]
      BY <1>11, <2>1, <3>2 DEF Update, CallRec
    <3> QED BY <3>1, <3>2
  <2> QED BY <1>11, <2>1, <2>4 DEF Update
<1> QED BY <1>1, <1>2, <1>3, <1>4, <1>5, <1>6, <1>7, <1>8, <1>9, <1>10, <1>11
        DEF AccountsNext, ServerStep, Handler
-----------------------------------------------------------------------------
(* Whoever changes an account tells every server that it is behind, except *)
(* the server whose own list has the change.                               *)
LEMMA LoginsStep ==
    ASSUME NoPassword \notin Password, AccountsType, LoginsKnown, AccountsNext
    PROVE  LoginsKnown'
<1> USE DEF AccountsType, User
<1>1. CASE UNCHANGED <<pass, users, differs>>
  BY <1>1 DEF LoginsKnown
<1>2. ASSUME NEW n \in Name, NEW p \in Password \cup {NoPassword}, SetAccount(n, p)
      PROVE  LoginsKnown'
  <2>1. users' = users /\ pass' = [pass EXCEPT ![n] = p]
        /\ \A s \in Server : differs[s] \subseteq differs'[s] /\ (p # pass[n] => n \in differs'[s])
    BY <1>2 DEF SetAccount
  <2> QED BY <2>1 DEF LoginsKnown
<1>3. ASSUME NEW s \in Server, Auth(s) PROVE LoginsKnown'
  <2>1. Agrees(s, Loaded(s).known, Behind(s))
    BY LoadedAgrees
  <2> QED BY <1>3, <2>1 DEF Auth, LoginsKnown, Agrees
<1>4. ASSUME NEW s \in Server, NEW n \in Name, NEW p \in Password, CreateUser(s, n, p) PROVE LoginsKnown'
  <2>1. Loaded(s) \in User /\ Loaded(s).there /\ Agrees(s, Loaded(s).known, Behind(s))
    BY LoadedAgrees
  <2>2. CASE Knows(s, n)
    <3>1. users' = [users EXCEPT ![s] = Loaded(s)] /\ differs' = [differs EXCEPT ![s] = Behind(s)] /\ pass' = pass
      BY <1>4, <2>2 DEF CreateUser
    <3>2. users \in [Server -> User] /\ differs \in [Server -> SUBSET Name]
      OBVIOUS
    <3> HIDE DEF AccountsType, User
    <3> QED BY <2>1, <3>1, <3>2 DEF LoginsKnown, Agrees
  <2>3. CASE ~Knows(s, n)
    <3> DEFINE new == lb[s] /\ pass[n] = NoPassword
               l == [Loaded(s) EXCEPT !.known = @ \cup {<<n, p>>}]
    <3>1. /\ users' = [users EXCEPT ![s] = l]
          /\ pass' = IF new THEN [pass EXCEPT ![n] = p] ELSE pass
          /\ differs' = [t \in Server |-> IF t = s THEN Behind(s) \cup (IF new THEN {} ELSE {n})
                                          ELSE IF new THEN differs[t] \cup {n} ELSE differs[t]]
      BY <1>4, <2>3 DEF CreateUser
    <3>2. l.there /\ l.known = Loaded(s).known \cup {<<n, p>>} /\ l \in User
      BY <2>1
    <3>3. \A d, e \in l.known : d[1] = e[1] => d = e
      <4>1. \A e \in Loaded(s).known : e[1] # n
        BY <2>3 DEF Knows
      <4>2. \A d, e \in Loaded(s).known : d[1] = e[1] => d = e
        BY <2>1 DEF Agrees
      <4>3. <<n, p>>[1] = n
        OBVIOUS
      <4> HIDE DEF l
      <4> QED BY <3>2, <4>1, <4>2, <4>3
    <3>4. \A q \in Password : <<n, q>> \in l.known <=> q = p
      BY <2>1, <2>3, <3>2 DEF Knows
    <3>5. \A m \in Name \ {n}, q \in Password : <<m, q>> \in l.known <=> <<m, q>> \in Loaded(s).known
      BY <3>2
    <3> HIDE DEF l
    <3>6. \A m \in Name \ differs'[s] : \A q \in Password : <<m, q>> \in l.known <=> pass'[m] = q
      <4>1. CASE new
        BY <2>1, <3>1, <3>4, <3>5, <4>1 DEF Agrees
      <4>2. CASE ~new
        BY <2>1, <3>1, <3>4, <3>5, <4>2 DEF Agrees
      <4> QED BY <4>1, <4>2
    <3>7. ASSUME NEW t \in Server \ {s}, users'[t].there
          PROVE  /\ \A d, e \in users'[t].known : d[1] = e[1] => d = e
                 /\ \A m \in Name \ differs'[t] : \A q \in Password : <<m, q>> \in users'[t].known <=> pass'[m] = q
      <4>1. users'[t] = users[t] /\ users[t].there
        BY <3>1, <3>7
      <4>2. CASE new
        BY <3>1, <4>1, <4>2 DEF LoginsKnown
      <4>3. CASE ~new
        BY <3>1, <4>1, <4>3 DEF LoginsKnown
      <4> QED BY <4>2, <4>3
    <3>8. users'[s] = l
      BY <3>1
    <3> QED BY <3>3, <3>6, <3>7, <3>8 DEF LoginsKnown
  <2> QED BY <2>2, <2>3
<1>5. ASSUME NEW n \in Name, DbDeleteFriends(n) PROVE UNCHANGED <<pass, users, differs>>
  BY <1>5 DEF DbDeleteFriends
<1>6. ASSUME NEW s \in Server,
             Exists(s) \/ ReadSub(s) \/ Insert(s) \/ Update(s) \/ Delete(s) \/ LinkChanges(s)
      PROVE  UNCHANGED <<pass, users, differs>>
  BY <1>6 DEF Exists, ReadSub, Insert, Update, Delete, Written, LinkChanges
<1>7. ASSUME NEW s \in Server, NEW u \in Name, NEW v \in Name, Handler(s, u, v)
      PROVE  UNCHANGED <<pass, users, differs>>
  BY <1>7 DEF Handler, Subscribed, Unsubscribed, RosterSet
<1>8. UNCHANGED AccountsOnly => UNCHANGED <<pass, users, differs>>
  BY DEF AccountsOnly
<1> QED BY <1>1, <1>2, <1>3, <1>4, <1>5, <1>6, <1>7, <1>8 DEF AccountsNext, ServerStep, Handler

LInv == RequestsSound /\ AccountsType /\ LoginsKnown

LEMMA LInit == ASSUME NoPassword \notin Password, AdminInit PROVE LInv
<1> USE DEF AdminInit, AccountsInit
<1>1. Stored \subseteq Name \X Password /\ Agrees(0, Stored, {})
  BY DEF Stored, Agrees
<1>2. AccountsType
  <2>0. Unread \in User /\ [there |-> TRUE, known |-> Stored] \in User
    BY <1>1 DEF User, Unread
  <2>1. /\ users \in [Server -> User] /\ pass \in [Name -> Password \cup {NoPassword}]
        /\ lb \in [Server -> BOOLEAN] /\ differs \in [Server -> SUBSET Name]
    <3>1. users \in [Server -> {Unread, [there |-> TRUE, known |-> Stored]}]
      OBVIOUS
    <3>2. users \in [Server -> User]
      BY ONLY <2>0, <3>1
    <3> QED BY <3>2
  <2>2. <<>> \in Seq(Sub) /\ <<"from">> \in Seq(Sub)
    BY DEF Sub
  <2>3. rows \in [Pair -> Seq(Sub)]
    BY <2>2
  <2>4. intended \in [Pair -> SUBSET {"from", "to"}] /\ spoilt = {}
    OBVIOUS
  <2>5. Idle \in TaskRec /\ Proper(Idle)
    BY DEF Idle, TaskRec, Sub, Distinct, Proper
  <2> QED BY <2>1, <2>3, <2>4, <2>5 DEF AccountsType
<1>3. LoginsKnown
  BY <1>1 DEF LoginsKnown, Unread, Agrees
<1> QED BY <1>2, <1>3, InitSound DEF LInv

(* A server accepts the accounts of the database, and no others, but for   *)
(* the names that were changed behind its back: LoginsKnown, for any       *)
(* servers, names and passwords, and however the requests of the page and  *)
(* the calls of the servers overlap.                                       *)
THEOREM LoginsSound == Spec => []LoginsKnown
<1>1. ASSUME LInv, [Next]_vars PROVE LInv'
  BY <1>1, AccountsAssumption, AccountsStep, AccountsTypeStep, LoginsStep DEF LInv
<1>2. AdminInit => LInv
  BY AccountsAssumption, LInit
<1>3. LInv => LoginsKnown
  BY DEF LInv
<1> QED BY <1>1, <1>2, <1>3, PTL DEF Spec
-----------------------------------------------------------------------------
(* What a row says, and what it says before a call that is still to come:  *)
(* the invariant that makes SubscriptionsMerge inductive.                  *)
Says(row, agreed) ==
    \/ agreed = {} /\ row \in {<<>>, <<"none">>}
    \/ agreed = {"from"} /\ row = <<"from">>
    \/ agreed = {"to"} /\ row = <<"to">>
    \/ agreed = {"from", "to"} /\ row = <<"both">>

Before(row, agreed, deed) ==
    \/ deed \in {"none", "remove"} /\ agreed = {} /\ Len(row) <= 1
    \/ deed \in {"from", "to"} /\ deed \in agreed /\ Says(row, agreed \ {deed})
    \/ deed = "add" /\ Says(row, agreed)

MergeAt(p) ==
    /\ (\A s \in Server : ~Pending(s, p)) => Says(rows[p], intended[p])
    /\ \A s, t \in Server : Pending(s, p) /\ Pending(t, p) => s = t
    /\ \A s \in Server : \A i \in DOMAIN task[s].calls : task[s].calls[i].pair = p =>
          /\ Before(rows[p], intended[p], task[s].calls[i].deed)
          /\ i = 1 /\ task[s].step = "insert" => rows[p] = <<>>
          /\ i = 1 /\ task[s].step = "update" => rows[p] = <<task[s].seen>>

MergeInv == \A p \in Pair \ spoilt : MergeAt(p)

LEMMA SaysShort ==
    ASSUME NEW row \in Seq(Sub), NEW agreed, NEW deed, Before(row, agreed, deed) \/ Says(row, agreed)
    PROVE  Len(row) <= 1 /\ (row = <<>> \/ row = <<row[1]>>)
<1>1. Len(row) <= 1
  <2>1. Len(<<>>) <= 1 /\ \A x : Len(<<x>>) <= 1
    OBVIOUS
  <2>2. \A a : Says(row, a) => row = <<>> \/ \E x : row = <<x>>
    BY DEF Says
  <2>3. \A a : Says(row, a) => Len(row) <= 1
    BY <2>1, <2>2
  <2> QED BY <2>3 DEF Before
<1>2. Len(row) \in Nat /\ DOMAIN row = 1..Len(row) /\ (Len(row) = 0 => row = <<>>)
  OBVIOUS
<1>3. Len(row) = 1 => row = <<row[1]>>
  OBVIOUS
<1> QED BY <1>1, <1>2, <1>3

(* Nothing happens to a row nobody touches. *)
LEMMA MergeStays ==
    ASSUME NEW p \in Pair, MergeAt(p), UNCHANGED task, rows'[p] = rows[p], intended'[p] = intended[p]
    PROVE  MergeAt(p)'
  BY DEF MergeAt, Pending

LEMMA BeginMerge ==
    ASSUME AccountsType, MergeInv, NEW s \in Server, NEW calls \in Seq(CallRec), Distinct(calls),
           Begin(s, calls), task[s].calls = <<>>, UNCHANGED rows
    PROVE  MergeInv'
<1> SUFFICES ASSUME NEW p \in Pair, p \notin spoilt' PROVE MergeAt(p)'
  BY BeginFacts DEF MergeInv
<1>1. p \notin spoilt /\ MergeAt(p)
  BY BeginFacts DEF MergeInv
<1>2. /\ task'[s].calls = calls /\ task'[s].step = "exists"
      /\ \A t \in Server \ {s} : task'[t] = task[t]
  <2>1. task' = [task EXCEPT ![s] = [Idle EXCEPT !.calls = calls]]
    BY BeginFacts
  <2> QED BY <2>1 DEF AccountsType, Idle
<1>3. ~Pending(s, p)
  BY DEF Pending
<1>4. CASE \A i \in DOMAIN calls : calls[i].pair # p
  <2>1. intended'[p] = intended[p]
    BY <1>4, BeginFacts
  <2>2. ~Pending(s, p)'
    BY <1>2, <1>4 DEF Pending
  <2>3. \A t \in Server : Pending(t, p)' <=> Pending(t, p)
    BY <1>2, <1>3, <2>2 DEF Pending
  <2> QED BY <1>1, <1>2, <1>4, <2>1, <2>3 DEF MergeAt
<1>5. ASSUME NEW i \in DOMAIN calls, calls[i].pair = p PROVE MergeAt(p)'
  <2>1. /\ intended'[p] = Agreed(intended[p], calls[i].deed)
        /\ \A t \in Server : ~Pending(t, p)
        /\ calls[i].deed \notin intended[p]
    <3>1. LET q == calls[i].pair
          IN  /\ intended'[q] = Agreed(intended[q], calls[i].deed)
              /\ q \notin spoilt' => (\A t \in Server : ~Pending(t, q)) /\ calls[i].deed \notin intended[q]
      BY BeginFacts
    <3> QED BY <1>5, <3>1
  <2>2. Says(rows[p], intended[p])
    BY <1>1, <2>1 DEF MergeAt
  <2>3. \A j \in DOMAIN calls : calls[j].pair = p => j = i
    BY <1>5 DEF Distinct
  <2>4. Len(rows[p]) <= 1
    BY <2>2, SaysShort DEF AccountsType
  <2>5. Before(rows[p], intended'[p], calls[i].deed)
    <3>1. calls[i].deed \in Deed
      <4>1. calls[i] \in CallRec
        OBVIOUS
      <4> QED BY <4>1 DEF CallRec
    <3>2. CASE calls[i].deed \in {"from", "to"}
      <4>1. intended'[p] \ {calls[i].deed} = intended[p] /\ calls[i].deed \in intended'[p]
        BY <2>1, <3>2 DEF Agreed
      <4> QED BY <2>2, <3>2, <4>1 DEF Before
    <3>3. CASE calls[i].deed = "add"
      BY <2>1, <2>2, <3>3 DEF Before, Agreed
    <3>4. CASE calls[i].deed \in {"none", "remove"}
      BY <2>1, <2>4, <3>4 DEF Before, Agreed
    <3> QED BY <3>1, <3>2, <3>3, <3>4 DEF Deed
  <2>6. \A t \in Server : Pending(t, p)' => t = s
    BY <1>2, <2>1 DEF Pending
  <2>7. Pending(s, p)'
    BY <1>2, <1>5 DEF Pending
  <2>8. ASSUME NEW t \in Server, NEW j \in DOMAIN task'[t].calls, task'[t].calls[j].pair = p
        PROVE  t = s /\ j = i
    <3>1. t = s
      BY <2>6, <2>8 DEF Pending
    <3> QED BY <1>2, <2>3, <2>8, <3>1
  <2> QED BY <1>2, <2>5, <2>6, <2>7, <2>8 DEF MergeAt
<1> QED BY <1>4, <1>5

LEMMA ReadMerge ==
    ASSUME AccountsType, MergeInv, NEW s \in Server, ReadSub(s) PROVE MergeInv'
<1> SUFFICES ASSUME NEW p \in Pair, p \notin spoilt' PROVE MergeAt(p)'
  BY DEF MergeInv, ReadSub
<1>1. p \notin spoilt /\ MergeAt(p) /\ UNCHANGED <<rows, intended>>
  BY DEF MergeInv, ReadSub
<1>2. CASE lb[s] /\ rows[Call(s).pair] # <<>>
  <2>1. /\ \A t \in Server \ {s} : task'[t] = task[t]
        /\ task'[s].calls = task[s].calls /\ task'[s].step = "update"
        /\ task'[s].seen = rows[Call(s).pair][1]
    <3> DEFINE x == rows[Call(s).pair][1]
    <3>1. task' = [task EXCEPT ![s] = [task[s] EXCEPT !.step = "update", !.seen = x]]
      BY <1>2 DEF ReadSub
    <3>2. task[s] \in TaskRec /\ task \in [Server -> TaskRec]
      BY DEF AccountsType
    <3> HIDE DEF x
    <3>3. task'[s] = [task[s] EXCEPT !.step = "update", !.seen = x]
      BY <3>1, <3>2
    <3>4. task'[s].calls = task[s].calls /\ task'[s].step = "update" /\ task'[s].seen = x
      BY <3>2, <3>3 DEF TaskRec
    <3> QED BY <3>1, <3>2, <3>4 DEF x
  <2>2. \A t \in Server : Pending(t, p)' <=> Pending(t, p)
    BY <2>1 DEF Pending
  <2>3. ASSUME 1 \in DOMAIN task[s].calls, task[s].calls[1].pair = p PROVE rows[p] = <<task'[s].seen>>
    <3>1. Before(rows[p], intended[p], task[s].calls[1].deed)
      BY <1>1, <2>3 DEF MergeAt
    <3>2. rows[p] = <<rows[p][1]>>
      BY <1>2, <2>3, <3>1, SaysShort DEF AccountsType, Call
    <3> QED BY <2>1, <2>3, <3>2 DEF Call
  <2> QED BY <1>1, <2>1, <2>2, <2>3 DEF MergeAt
<1>3. CASE ~(lb[s] /\ rows[Call(s).pair] # <<>>)
  <2>1. /\ \A t \in Server \ {s} : task'[t] = task[t]
        /\ task'[s].calls = <<>> /\ ~Pending(s, p)
    BY <1>3 DEF ReadSub, AccountsType, Idle
  <2>2. \A t \in Server : Pending(t, p)' <=> Pending(t, p)
    BY <2>1 DEF Pending
  <2> QED BY <1>1, <2>1, <2>2 DEF MergeAt
<1> QED BY <1>2, <1>3

(* What is left when the call of pair p or of another is done.  Only the   *)
(* server that calls, and only for the call itself, may change row p.      *)
LEMMA DoneMerge ==
    ASSUME AccountsType, NEW s \in Server, task[s].calls # <<>>, Done(s), NEW p \in Pair, MergeAt(p),
           intended'[p] = intended[p],
           IF Call(s).pair = p THEN Says(rows'[p], intended[p]) ELSE rows'[p] = rows[p]
    PROVE  MergeAt(p)'
<1>1. /\ \A t \in Server \ {s} : task'[t] = task[t]
      /\ task'[s].step = "exists" /\ 1 \in DOMAIN task[s].calls
      /\ \A i \in DOMAIN task'[s].calls : i + 1 \in DOMAIN task[s].calls /\ i + 1 # 1
                                         /\ task'[s].calls[i] = task[s].calls[i + 1]
      /\ \A i \in DOMAIN task[s].calls : i # 1 => i - 1 \in DOMAIN task'[s].calls
  BY DoneFacts
<1>2. \A i \in DOMAIN task[s].calls : i # 1 => (i - 1) + 1 = i
  BY DEF AccountsType, TaskRec
<1>3. CASE Call(s).pair = p
  <2>1. Pending(s, p)
    BY <1>1, <1>3 DEF Pending, Call
  <2>2. ~Pending(s, p)'
    <3>1. Distinct(task[s].calls)
      BY DEF AccountsType, Proper
    <3> QED BY <1>1, <1>3, <3>1 DEF Pending, Call, Distinct
  <2>3. \A t \in Server : ~Pending(t, p)'
    BY <1>1, <2>1, <2>2 DEF MergeAt, Pending
  <2> QED BY <1>3, <2>3 DEF MergeAt, Pending
<1>4. CASE Call(s).pair # p
  <2>1. Pending(s, p)' <=> Pending(s, p)
    <3>1. ASSUME Pending(s, p) PROVE Pending(s, p)'
      <4>1. PICK i \in DOMAIN task[s].calls : task[s].calls[i].pair = p
        BY <3>1 DEF Pending
      <4>2. i # 1
        BY <1>4, <4>1 DEF Call
      <4> QED BY <1>1, <1>2, <4>1, <4>2 DEF Pending
    <3>2. ASSUME Pending(s, p)' PROVE Pending(s, p)
      BY <1>1, <3>2 DEF Pending
    <3> QED BY <3>1, <3>2
  <2>2. \A t \in Server : Pending(t, p)' <=> Pending(t, p)
    BY <1>1, <2>1 DEF Pending
  <2>3. ASSUME NEW i \in DOMAIN task'[s].calls, task'[s].calls[i].pair = p
        PROVE  Before(rows[p], intended[p], task'[s].calls[i].deed)
    BY <1>1, <2>3 DEF MergeAt
  <2> QED BY <1>1, <1>4, <2>2, <2>3 DEF MergeAt
<1> QED BY <1>3, <1>4

(* A call that writes makes the row say what was agreed. *)
LEMMA WriteSays ==
    ASSUME NEW row \in Seq(Sub), NEW agreed \in SUBSET {"from", "to"}, NEW deed \in Deed, Before(row, agreed, deed)
    PROVE  /\ row = <<>> /\ deed # "remove" => Says(<<IF deed = "add" THEN "none" ELSE deed>>, agreed)
           /\ deed \in {"none", "from", "to"} => \A seen : row = <<seen>> => Says(<<Merge(seen, deed)>>, agreed)
           /\ deed = "remove" \/ (row = <<>> /\ deed = "add") => Says(<<>>, agreed)
<1>1. CASE deed \in {"none", "add", "remove"}
  BY <1>1 DEF Before, Says, Merge
<1>2. CASE deed = "from"
  <2>1. agreed = {"from"} \/ agreed = {"from", "to"}
    BY <1>2 DEF Before
  <2>2. agreed = {"from"} => agreed \ {deed} = {}
    BY <1>2
  <2>3. agreed = {"from", "to"} => agreed \ {deed} = {"to"}
    BY <1>2
  <2> QED BY <1>2, <2>1, <2>2, <2>3 DEF Before, Says, Merge
<1>3. CASE deed = "to"
  <2>1. agreed = {"to"} \/ agreed = {"from", "to"}
    BY <1>3 DEF Before
  <2>2. agreed = {"to"} => agreed \ {deed} = {}
    BY <1>3
  <2>3. agreed = {"from", "to"} => agreed \ {deed} = {"from"}
    BY <1>3
  <2> QED BY <1>3, <2>1, <2>2, <2>3 DEF Before, Says, Merge
<1> QED BY <1>1, <1>2, <1>3 DEF Deed

LEMMA ExistsMerge ==
    ASSUME AccountsType, MergeInv, NEW s \in Server, Exists(s) PROVE MergeInv'
<1> SUFFICES ASSUME NEW p \in Pair, p \notin spoilt' PROVE MergeAt(p)'
  BY DEF MergeInv, Exists
<1>1. p \notin spoilt /\ MergeAt(p) /\ UNCHANGED <<rows, intended>> /\ task[s].calls # <<>>
  BY DEF MergeInv, Exists, At
<1>2. Call(s).pair = p => lb[s]
  BY DEF Exists
<1>3. Call(s) \in CallRec /\ 1 \in DOMAIN task[s].calls
  BY <1>1 DEF AccountsType, TaskRec, Call
<1> DEFINE x == Follows(Call(s).deed, lb[s] /\ rows[Call(s).pair] # <<>>)
<1>4. CASE x = "over"
  <2>1. Done(s)
    BY <1>4 DEF Exists
  <2>2. ASSUME Call(s).pair = p PROVE Says(rows[p], intended[p])
    <3>1. Before(rows[p], intended[p], Call(s).deed)
      BY <1>1, <1>3, <2>2 DEF MergeAt, Call
    <3>2. Call(s).deed = "add" \/ (Call(s).deed = "remove" /\ rows[p] = <<>>)
      BY <1>2, <1>4, <2>2 DEF Follows
    <3> QED BY <3>1, <3>2 DEF Before, Says
  <2> QED BY <1>1, <2>1, <2>2, DoneMerge
<1>5. CASE x # "over"
  <2>1. /\ \A t \in Server \ {s} : task'[t] = task[t]
        /\ task'[s].calls = task[s].calls /\ task'[s].step = x
    <3>1. task' = [task EXCEPT ![s].step = x] /\ task[s] \in TaskRec
      BY <1>5 DEF Exists, AccountsType
    <3> HIDE DEF x
    <3> QED BY <3>1 DEF AccountsType, TaskRec
  <2>2. x # "update" /\ (x = "insert" /\ Call(s).pair = p => rows[p] = <<>>)
    BY <1>2 DEF Follows
  <2>3. \A t \in Server : Pending(t, p)' <=> Pending(t, p)
    BY <2>1 DEF Pending
  <2> HIDE DEF x
  <2> QED BY <1>1, <2>1, <2>2, <2>3 DEF MergeAt, Call
<1> QED BY <1>4, <1>5

LEMMA InsertMerge ==
    ASSUME AccountsType, MergeInv, NEW s \in Server, Insert(s) \/ Delete(s) PROVE MergeInv'
<1> SUFFICES ASSUME NEW p \in Pair, p \notin spoilt' PROVE MergeAt(p)'
  BY DEF MergeInv, Insert, Delete, Written
<1>1. p \notin spoilt /\ MergeAt(p) /\ intended' = intended /\ Done(s) /\ task[s].calls # <<>>
  BY DEF MergeInv, Insert, Delete, Written, At
<1>2. CASE Call(s).pair # p
  <2>1. rows'[p] = rows[p]
    BY <1>2 DEF Insert, Delete, Written, AccountsType
  <2> QED BY <1>1, <1>2, <2>1, DoneMerge
<1>3. CASE Call(s).pair = p
  <2>1. Call(s) \in CallRec /\ 1 \in DOMAIN task[s].calls
    BY <1>1, DoneFacts
  <2>2. Before(rows[p], intended[p], Call(s).deed) /\ rows[p] \in Seq(Sub) /\ Call(s).deed \in Deed
        /\ intended[p] \in SUBSET {"from", "to"}
    BY <1>1, <1>3, <2>1 DEF MergeAt, Call, CallRec, AccountsType
  <2>3. CASE Insert(s)
    <3> DEFINE x == IF Call(s).deed = "add" THEN "none" ELSE Call(s).deed
    <3>1. rows[p] = <<>> /\ Call(s).deed # "remove"
      BY <1>1, <1>3, <2>1, <2>3 DEF MergeAt, Call, Insert, At, AccountsType, Proper, Suits
    <3>2. rows'[p] = <<x>>
      <4>1. rows' = [rows EXCEPT ![p] = Append(rows[p], x)]
        BY <1>3, <2>3 DEF Insert, Written
      <4> HIDE DEF x
      <4> QED BY <3>1, <4>1 DEF AccountsType
    <3>3. Says(<<x>>, intended[p])
      BY <2>2, <3>1, WriteSays
    <3> QED BY <1>1, <1>3, <3>2, <3>3, DoneMerge
  <2>4. CASE Delete(s)
    <3>1. Call(s).deed = "remove"
      BY <1>1, <2>4 DEF Delete, At, AccountsType, Proper, Suits, Call
    <3>2. rows'[p] = <<>>
      BY <1>3, <2>4 DEF Delete, Written, AccountsType
    <3>3. Says(<<>>, intended[p])
      BY <2>2, <3>1, WriteSays
    <3> QED BY <1>1, <1>3, <3>2, <3>3, DoneMerge
  <2> QED BY <2>3, <2>4
<1> QED BY <1>2, <1>3

LEMMA UpdateMerge ==
    ASSUME AccountsType, MergeInv, NEW s \in Server, Update(s) PROVE MergeInv'
<1> SUFFICES ASSUME NEW p \in Pair, p \notin spoilt' PROVE MergeAt(p)'
  BY DEF MergeInv, Update
<1> DEFINE new == Merge(task[s].seen, Call(s).deed)
<1>1. p \notin spoilt /\ MergeAt(p) /\ intended' = intended /\ Done(s)
      /\ task[s].calls # <<>> /\ task[s].step = "update"
  BY DEF MergeInv, Update, At
<1>2. Call(s) \in CallRec /\ 1 \in DOMAIN task[s].calls
  BY <1>1, DoneFacts
<1>3. new \in Sub /\ Call(s).deed \in {"none", "from", "to"} /\ Call(s).deed \in Deed
  BY <1>1 DEF AccountsType, Proper, Suits, Call, Merge, Sub, Deed
<1>4. lb[s] => rows'[p] = IF p[2] = Call(s).pair[2] THEN [i \in DOMAIN rows[p] |-> new] ELSE rows[p]
  BY DEF Update
<1>5. ~lb[s] => rows' = rows /\ Call(s).pair # p
  BY DEF Update
<1>6. lb[s] /\ p[2] = Call(s).pair[2] /\ p # Call(s).pair => rows[p] = <<>>
  BY DEF Update
<1>7. rows[p] \in Seq(Sub) /\ intended[p] \in SUBSET {"from", "to"}
  BY DEF AccountsType
<1> HIDE DEF new
<1>8. CASE Call(s).pair # p
  <2>1. rows'[p] = rows[p]
    BY <1>3, <1>4, <1>5, <1>6, <1>7, <1>8, Overwritten
  <2> QED BY <1>1, <1>8, <2>1, DoneMerge
<1>9. CASE Call(s).pair = p
  <2>1. rows[p] = <<task[s].seen>> /\ Before(rows[p], intended[p], Call(s).deed)
    BY <1>1, <1>2, <1>9 DEF MergeAt, Call
  <2>2. rows'[p] = <<new>>
    BY <1>3, <1>4, <1>5, <1>7, <1>9, <2>1, Overwritten
  <2>3. Says(<<new>>, intended[p])
    BY <1>3, <1>7, <2>1, WriteSays DEF new
  <2> QED BY <1>1, <1>9, <2>2, <2>3, DoneMerge
<1> QED BY <1>8, <1>9

LEMMA MergeStep ==
    ASSUME AccountsType, MergeInv, AccountsNext PROVE MergeInv'
<1>1. CASE UNCHANGED <<rows, task, intended, spoilt>>
  <2>1. \A p \in Pair \ spoilt : MergeAt(p)'
    BY <1>1, MergeStays DEF MergeInv
  <2> QED BY <1>1, <2>1 DEF MergeInv
<1>2. ASSUME NEW n \in Name, DbDeleteFriends(n) PROVE MergeInv'
  <2> SUFFICES ASSUME NEW p \in Pair, p \notin spoilt' PROVE MergeAt(p)'
    BY DEF MergeInv
  <2>1. p \notin spoilt /\ MergeAt(p) /\ UNCHANGED task
    BY <1>2 DEF DbDeleteFriends, MergeInv
  <2>2. CASE p[1] = n
    <3>1. rows'[p] = <<>> /\ intended'[p] = {} /\ \A s \in Server : ~Pending(s, p)
      BY <1>2, <2>2 DEF DbDeleteFriends
    <3> QED BY <2>1, <3>1 DEF MergeAt, Pending, Says
  <2>3. CASE p[1] # n
    <3>1. rows'[p] = rows[p] /\ intended'[p] = intended[p]
      BY <1>2, <2>3 DEF DbDeleteFriends, AccountsType
    <3> QED BY <2>1, <3>1, MergeStays
  <2> QED BY <2>2, <2>3
<1>3. ASSUME NEW s \in Server, NEW u \in Name, NEW v \in Name, Handler(s, u, v)
      PROVE  MergeInv'
  <2>1. PICK calls \in Seq(CallRec) : Distinct(calls) /\ Begin(s, calls)
    BY <1>3, HandlerBegins
  <2>2. UNCHANGED rows /\ task[s].calls = <<>>
    BY <1>3 DEF Handler, Subscribed, Unsubscribed, RosterSet, Free
  <2> QED BY <2>1, <2>2, BeginMerge
<1>4. ASSUME NEW s \in Server, Exists(s) \/ ReadSub(s) \/ Insert(s) \/ Delete(s) \/ Update(s) PROVE MergeInv'
  BY <1>4, ExistsMerge, ReadMerge, InsertMerge, UpdateMerge
<1>5. ASSUME NEW s \in Server,
             Auth(s) \/ LinkChanges(s) \/ \E n \in Name, p \in Password : CreateUser(s, n, p)
      PROVE  UNCHANGED <<rows, task, intended, spoilt>>
  BY <1>5 DEF Auth, LinkChanges, CreateUser
<1>6. ASSUME NEW n \in Name, NEW p, SetAccount(n, p) PROVE UNCHANGED <<rows, task, intended, spoilt>>
  BY <1>6 DEF SetAccount
<1>7. UNCHANGED AccountsOnly => UNCHANGED <<rows, task, intended, spoilt>>
  BY DEF AccountsOnly
<1> QED BY <1>1, <1>2, <1>3, <1>4, <1>5, <1>6, <1>7 DEF AccountsNext, ServerStep, Handler

(* When the handlers are done a row says what was agreed, for any servers  *)
(* and names: SubscriptionsMerge.  A handler that is under way leaves a    *)
(* row saying what was agreed before it, until its write.                  *)
THEOREM MergeSound == Spec => []SubscriptionsMerge
<1> DEFINE IInv == LInv /\ MergeInv
<1>1. AdminInit => IInv
  <2> SUFFICES ASSUME AdminInit PROVE IInv
    OBVIOUS
  <2>1. \A p \in Pair : Says(rows[p], intended[p]) /\ \A s \in Server : task[s].calls = <<>>
    BY DEF AdminInit, AccountsInit, Says, Idle
  <2>2. MergeInv
    BY <2>1 DEF MergeInv, MergeAt, Pending
  <2> QED BY <2>2, AccountsAssumption, LInit
<1>2. IInv /\ [Next]_vars => IInv'
  BY AccountsAssumption, AccountsStep, AccountsTypeStep, LoginsStep, MergeStep DEF LInv
<1>3. IInv => SubscriptionsMerge
  <2> SUFFICES ASSUME MergeInv, NEW p \in Pair \ spoilt, \A s \in Server : ~Pending(s, p)
               PROVE  IF intended[p] = {} THEN rows[p] \in {<<>>, <<"none">>}
                      ELSE rows[p] = IF intended[p] = {"from", "to"} THEN <<"both">>
                                     ELSE <<CHOOSE x \in intended[p] : TRUE>>
    BY DEF SubscriptionsMerge
  <2>1. Says(rows[p], intended[p])
    BY DEF MergeInv, MergeAt
  <2>2. \A y : (CHOOSE x \in {y} : TRUE) = y
    OBVIOUS
  <2> QED BY <2>1, <2>2 DEF Says
<1> QED BY <1>1, <1>2, <1>3, PTL DEF Spec
-----------------------------------------------------------------------------
(* The table of the page: what is out of date, if anything, is made good   *)
(* by a request that is still to be answered, or behind says so.  This is  *)
(* the invariant that makes TableCurrent inductive.                        *)
Asks(r) == r.kind = "accounts" /\ r.stage = "sent"

Wrote(r) == r.kind \in {"put", "delete"} /\ r.stage = "answered"

Reads(r) == r.kind = "accounts" /\ r.stage = "answered" /\ ~r.overtaken

Stale == behind \/ \E i \in Slot : Asks(requests[i]) \/ Wrote(requests[i])

ReadInv == \A i \in Slot : Reads(requests[i]) => requests[i].result = Names \/ Stale

LatestInv == latest => accounts = Names \/ Stale

TabInv == tab.shown = {tab.link} /\ tab.marked = tab.shown

TableInv == ReadInv /\ LatestInv /\ TabInv

(* A step that reads nothing and fills no table: what it makes stale is    *)
(* stale, what was stale stays so, and no answer becomes a newest one.     *)
LEMMA TableStays ==
    ASSUME ReadInv, LatestInv, UNCHANGED <<accounts, latest>>,
           Names' = Names \/ Stale', Stale => Stale',
           \A i \in Slot : Reads(requests'[i]) => Reads(requests[i]) /\ requests'[i].result = requests[i].result
    PROVE  ReadInv' /\ LatestInv'
  BY Zenon DEF ReadInv, LatestInv

(* A request that is sent takes a free slot. *)
LEMMA SendStays ==
    ASSUME RequestsSound, NEW k, NEW n, NEW p, Send(Request(k, n, p)), UNCHANGED behind
    PROVE  /\ Stale => Stale'
           /\ \A i \in Slot : Reads(requests'[i]) => Reads(requests[i]) /\ requests'[i].result = requests[i].result
<1>1. PICK f \in FreeSlots : requests' = [requests EXCEPT ![f] = Request(k, n, p)]
  BY DEF Send
<1>2. f \in Slot /\ requests[f].stage = "none"
  BY <1>1 DEF FreeSlots
<1>3. Request(k, n, p).stage = "sent"
  BY DEF Request, NoRequest
<1>4. requests'[f].stage = "sent" /\ \A i \in Slot \ {f} : requests'[i] = requests[i]
  BY <1>1, <1>2, <1>3 DEF RequestsSound
<1>5. ASSUME NEW i \in Slot, Asks(requests[i]) \/ Wrote(requests[i]) PROVE requests'[i] = requests[i]
  BY <1>2, <1>4, <1>5 DEF Asks, Wrote
<1>6. Stale => Stale'
  <2>1. SUFFICES ASSUME NEW i \in Slot, Asks(requests[i]) \/ Wrote(requests[i])
                 PROVE  Asks(requests'[i]) \/ Wrote(requests'[i])
    BY DEF Stale
  <2> QED BY <1>5, <2>1
<1>7. \A i \in Slot : Reads(requests'[i]) => requests'[i] = requests[i]
  BY <1>4 DEF Reads
<1> QED BY <1>6, <1>7

(* A slot is changed: the page is as stale as it was if that request made  *)
(* it so no more than it does.                                             *)
LEMMA SlotStale ==
    ASSUME DOMAIN requests = Slot, NEW i \in Slot, NEW r, requests' = [requests EXCEPT ![i] = r],
           Asks(requests[i]) \/ Wrote(requests[i]) => Asks(r) \/ Wrote(r) \/ behind',
           behind => behind'
    PROVE  /\ Stale => Stale'
           /\ Asks(r) \/ Wrote(r) => Stale'
           /\ requests'[i] = r /\ \A j \in Slot \ {i} : requests'[j] = requests[j]
<1>1. requests'[i] = r /\ \A j \in Slot \ {i} : requests'[j] = requests[j]
  OBVIOUS
<1>2. Asks(r) \/ Wrote(r) => Stale'
  BY <1>1 DEF Stale
<1>3. ASSUME NEW j \in Slot, Asks(requests[j]) \/ Wrote(requests[j]) PROVE Stale'
  <2>1. CASE j = i
    BY <1>1, <1>3, <2>1 DEF Stale
  <2>2. CASE j # i
    <3>1. requests'[j] = requests[j]
      BY <1>1, <2>2
    <3>2. Asks(requests'[j]) \/ Wrote(requests'[j])
      BY <1>3, <3>1
    <3> QED BY <3>2 DEF Stale
  <2> QED BY <2>1, <2>2
<1>4. Stale => Stale'
  BY <1>3 DEF Stale
<1> QED BY <1>1, <1>2, <1>4

(* What answers a request changes of it. *)
LEMMA AnsweredFields ==
    ASSUME RequestsSound, NEW i \in Slot, NEW x
    PROVE  /\ [requests[i] EXCEPT !.stage = "answered", !.result = x].stage = "answered"
           /\ [requests[i] EXCEPT !.stage = "answered", !.result = x].result = x
           /\ [requests[i] EXCEPT !.stage = "answered", !.result = x].kind = requests[i].kind
  BY DEF RequestsSound, NoRequest

(* The names with an account change in two steps only. *)
LEMMA NamesKept ==
    ASSUME AccountsType, NEW n \in Name, NEW p
    PROVE  DbUpdateUser(n, p) /\ p # NoPassword => Names' = Names
<1> SUFFICES ASSUME DbUpdateUser(n, p), p # NoPassword PROVE Names' = Names
  OBVIOUS
<1>1. CASE pass[n] = NoPassword
  BY <1>1 DEF DbUpdateUser, accountsVars, Names
<1>2. CASE pass[n] # NoPassword
  BY <1>2 DEF DbUpdateUser, SetAccount, Names, AccountsType
<1> QED BY <1>1, <1>2

(* view_get_accounts reads what is there, and every answer that is still   *)
(* to come back is older.                                                  *)
LEMMA ServeTable ==
    ASSUME RequestsSound, TableInv, NEW i \in Slot, Serve(i) PROVE TableInv'
<1>1. CASE requests[i].kind = "servers"
  <2> DEFINE r == [requests[i] EXCEPT !.stage = "answered", !.result = online]
  <2>1. /\ requests' = [requests EXCEPT ![i] = r]
        /\ UNCHANGED <<latest, behind, accounts, tab, pass>>
    BY <1>1, AnsweredAt DEF Serve, accountsVars
  <2>2. r.kind = "servers"
    BY <1>1, AnsweredFields
  <2>3. /\ ~Asks(requests[i]) /\ ~Wrote(requests[i]) /\ ~Reads(r)
        /\ DOMAIN requests = Slot
    BY <1>1, <2>2 DEF Asks, Wrote, Reads, RequestsSound
  <2> HIDE DEF r
  <2>4. /\ Stale => Stale'
        /\ requests'[i] = r /\ \A j \in Slot \ {i} : requests'[j] = requests[j]
    BY <2>1, <2>3, SlotStale
  <2>5. \A j \in Slot : Reads(requests'[j]) => requests'[j] = requests[j]
    BY <2>3, <2>4
  <2>6. Names' = Names
    BY <2>1 DEF Names
  <2>7. ReadInv' /\ LatestInv'
    BY <2>1, <2>4, <2>5, <2>6, TableStays DEF TableInv
  <2> QED BY <2>1, <2>7 DEF TableInv, TabInv
<1>2. CASE requests[i].kind # "servers"
  <2> DEFINE r == [requests[i] EXCEPT !.stage = "answered", !.result = Names]
  <2>1. /\ requests' = [j \in Slot |-> IF j = i THEN Answered(i, Names)[i]
                                       ELSE [requests[j] EXCEPT !.overtaken =
                                                @ \/ (requests[j].kind = "accounts" /\ requests[j].stage = "answered")]]
        /\ latest' = FALSE /\ UNCHANGED <<tab, pass>>
    BY <1>2 DEF Serve, accountsVars
  <2>2. Answered(i, Names)[i] = r
    <3>1. Answered(i, Names) = [requests EXCEPT ![i] = r] /\ DOMAIN requests = Slot
      BY AnsweredAt DEF RequestsSound
    <3> HIDE DEF r
    <3> QED BY <3>1
  <2>3. requests'[i] = r /\ r.result = Names
    <3>1. r.result = Names
      BY AnsweredFields
    <3> HIDE DEF r
    <3> QED BY <2>1, <2>2, <3>1
  <2>4. ASSUME NEW j \in Slot \ {i} PROVE ~Reads(requests'[j])
    <3>1. DOMAIN requests[j] = DOMAIN NoRequest
      BY DEF RequestsSound
    <3>2. requests'[j] = [requests[j] EXCEPT !.overtaken =
                             @ \/ (requests[j].kind = "accounts" /\ requests[j].stage = "answered")]
      BY <2>1
    <3>3. /\ requests'[j].kind = requests[j].kind /\ requests'[j].stage = requests[j].stage
          /\ requests'[j].overtaken = (requests[j].overtaken \/ (requests[j].kind = "accounts" /\ requests[j].stage = "answered"))
      BY <3>1, <3>2 DEF NoRequest
    <3> QED BY <3>3 DEF Reads
  <2>5. Names' = Names
    BY <2>1 DEF Names
  <2>6. ReadInv'
    BY <2>3, <2>4, <2>5 DEF ReadInv
  <2> QED BY <2>1, <2>6 DEF TableInv, TabInv, LatestInv
<1> QED BY <1>1, <1>2

(* A change of the accounts leaves its answer to come, and the callback    *)
(* will ask for them again: the table is stale until then.                 *)
LEMMA ChangeTable ==
    ASSUME NoPassword \notin Password, RequestsSound, AccountsType, TableInv, NEW i \in Slot, Change(i)
    PROVE  TableInv'
<1>0. UNCHANGED <<tab, accounts, latest, behind>> /\ DOMAIN requests = Slot
  BY DEF Change, RequestsSound
<1> DEFINE r == [requests[i] EXCEPT !.stage = "answered", !.result = {}]
           h == [requests[i] EXCEPT !.stage = "half"]
<1>1. /\ requests[i].stage \in {"sent", "half"} /\ requests[i].kind \in {"put", "post", "delete"}
      /\ \/ requests' = [requests EXCEPT ![i] = r]
         \/ requests' = [requests EXCEPT ![i] = h] /\ UNCHANGED pass
  BY AnsweredAt DEF Change, DbDeleteFriends, RequestsSound, Sound
<1>2. /\ r.kind = requests[i].kind /\ r.stage = "answered"
      /\ h.kind = requests[i].kind /\ h.stage = "half"
  BY AnsweredFields DEF RequestsSound, NoRequest
<1>3. \/ requests' = [requests EXCEPT ![i] = r] /\ Wrote(r)
      \/ Names' = Names
  <2>1. CASE requests[i].kind = "post"
    <3>1. DbUpdateUser(requests[i].name, requests[i].password)
      BY <2>1 DEF Change, RequestsSound, Sound
    <3>2. requests[i].name \in Name /\ requests[i].password # NoPassword
      BY <2>1 DEF RequestsSound, Sound
    <3> QED BY <3>1, <3>2, NamesKept
  <2>2. CASE requests[i].kind # "post"
    BY <1>1, <1>2, <2>2 DEF Wrote, Names
  <2> QED BY <2>1, <2>2
<1>4. ~Asks(requests[i]) /\ ~Wrote(requests[i]) /\ ~Reads(r) /\ ~Reads(h)
  BY <1>1, <1>2 DEF Asks, Wrote, Reads
<1> HIDE DEF r, h
<1>5. /\ Stale => Stale'
      /\ Names' = Names \/ Stale'
      /\ \A j \in Slot : Reads(requests'[j]) => requests'[j] = requests[j]
  <2>1. CASE requests' = [requests EXCEPT ![i] = r]
    <3>1. /\ Stale => Stale'
          /\ Asks(r) \/ Wrote(r) => Stale'
          /\ requests'[i] = r /\ \A j \in Slot \ {i} : requests'[j] = requests[j]
      BY <1>0, <1>4, <2>1, SlotStale
    <3> QED BY <1>3, <1>4, <3>1
  <2>2. CASE requests' = [requests EXCEPT ![i] = h] /\ UNCHANGED pass
    <3>1. /\ Stale => Stale'
          /\ requests'[i] = h /\ \A j \in Slot \ {i} : requests'[j] = requests[j]
      BY <1>0, <1>4, <2>2, SlotStale
    <3> QED BY <1>4, <2>2, <3>1 DEF Names
  <2> QED BY <1>1, <2>1, <2>2
<1>6. ReadInv' /\ LatestInv'
  BY <1>0, <1>5, TableStays DEF TableInv
<1> QED BY <1>0, <1>6 DEF TableInv, TabInv

(* The servlet that cannot ask says so in behind, or answers a change.     *)
LEMMA FailsTable ==
    ASSUME RequestsSound, TableInv, NEW i \in Slot, Fails(i) PROVE TableInv'
<1> DEFINE x == IF requests[i].kind = "servers" THEN {"localhost"} ELSE {}
           r == [requests[i] EXCEPT !.stage = "answered", !.result = x]
<1>0. /\ UNCHANGED <<tab, accounts, latest, pass>> /\ DOMAIN requests = Slot
      /\ requests' = [requests EXCEPT ![i] = r]
      /\ behind' = (behind \/ requests[i].kind = "accounts") /\ requests[i].stage \in {"sent", "half"}
  BY AnsweredAt DEF Fails, RequestsSound
<1>1. r.kind = requests[i].kind /\ r.stage = "answered"
  BY AnsweredFields
<1>2. Reads(r) => behind'
  BY <1>0, <1>1 DEF Reads
<1>3. Asks(requests[i]) \/ Wrote(requests[i]) => behind'
  BY <1>0 DEF Asks, Wrote
<1> HIDE DEF r
<1>4. /\ Stale => Stale'
      /\ requests'[i] = r /\ \A j \in Slot \ {i} : requests'[j] = requests[j]
  BY <1>0, <1>3, SlotStale
<1>5. Names' = Names
  BY <1>0 DEF Names
<1>6. CASE behind'
  <2>1. Stale'
    BY <1>6 DEF Stale
  <2> QED BY <1>0, <2>1 DEF TableInv, TabInv, ReadInv, LatestInv
<1>7. CASE ~behind'
  <2>1. \A j \in Slot : Reads(requests'[j]) => requests'[j] = requests[j]
    BY <1>2, <1>4, <1>7
  <2>2. ReadInv' /\ LatestInv'
    BY <1>0, <1>4, <1>5, <2>1, TableStays DEF TableInv
  <2> QED BY <1>0, <2>2 DEF TableInv, TabInv
<1> QED BY <1>6, <1>7

(* The callback of a change asks for the accounts; that of a request for   *)
(* them fills the table, the newest one if no later request was served.    *)
LEMMA AnswerTable ==
    ASSUME RequestsSound, TableInv, NEW i \in Slot, Answer(i) PROVE TableInv'
<1> DEFINE r == IF requests[i].kind \in {"put", "delete"} THEN Get("accounts") ELSE NoRequest
<1>0. /\ UNCHANGED <<tab, behind, pass>> /\ DOMAIN requests = Slot
      /\ requests' = [requests EXCEPT ![i] = r] /\ requests[i].stage = "answered"
      /\ accounts' = IF requests[i].kind = "accounts" THEN requests[i].result ELSE accounts
      /\ latest' = IF requests[i].kind = "accounts" THEN ~requests[i].overtaken ELSE latest
  BY DEF Answer, RequestsSound, Settled, accountsVars
<1>1. Asks(Get("accounts")) /\ ~Reads(Get("accounts")) /\ ~Reads(NoRequest)
  BY DEF Asks, Reads, Get, Request, NoRequest
<1>2. /\ Asks(requests[i]) \/ Wrote(requests[i]) => Asks(r) \/ Wrote(r)
      /\ ~Reads(r)
  BY <1>0, <1>1 DEF Asks, Wrote
<1> HIDE DEF r
<1>3. /\ Stale => Stale'
      /\ requests'[i] = r /\ \A j \in Slot \ {i} : requests'[j] = requests[j]
  BY <1>0, <1>2, SlotStale
<1>4. Names' = Names
  BY <1>0 DEF Names
<1>5. ReadInv'
  <2> SUFFICES ASSUME NEW j \in Slot, Reads(requests'[j])
               PROVE  requests'[j].result = Names' \/ Stale'
    BY DEF ReadInv
  <2>1. requests'[j] = requests[j]
    BY <1>2, <1>3
  <2>2. Reads(requests[j])
    BY <2>1
  <2> QED BY <1>3, <1>4, <2>1, <2>2 DEF TableInv, ReadInv
<1>6. LatestInv'
  <2>1. CASE requests[i].kind = "accounts"
    <3>1. latest' => Reads(requests[i])
      BY <1>0, <2>1 DEF Reads
    <3> QED BY <1>0, <1>3, <1>4, <2>1, <3>1 DEF TableInv, ReadInv, LatestInv
  <2>2. CASE requests[i].kind # "accounts"
    BY <1>0, <1>3, <1>4, <2>2 DEF TableInv, LatestInv
  <2> QED BY <2>1, <2>2
<1> QED BY <1>0, <1>5, <1>6 DEF TableInv, TabInv

(* A request for the accounts that is lost, and the answer of a change,    *)
(* leave behind.                                                           *)
LEMMA LoseTable ==
    ASSUME RequestsSound, TableInv, NEW i \in Slot, Lose(i) PROVE TableInv'
<1>0. /\ UNCHANGED <<tab, accounts, latest, pass>> /\ DOMAIN requests = Slot
      /\ requests' = [requests EXCEPT ![i] = NoRequest]
      /\ behind' = (behind \/ requests[i].kind = "accounts"
                           \/ (requests[i].stage = "answered" /\ requests[i].kind \in {"put", "delete"}))
  BY DEF Lose, Settled, RequestsSound
<1>1. /\ Asks(requests[i]) \/ Wrote(requests[i]) => behind'
      /\ behind => behind'
  BY <1>0 DEF Asks, Wrote
<1>2. ~Reads(NoRequest)
  BY DEF Reads, NoRequest
<1>3. /\ Stale => Stale'
      /\ requests'[i] = NoRequest /\ \A j \in Slot \ {i} : requests'[j] = requests[j]
  BY <1>0, <1>1, SlotStale
<1>4. Names' = Names
  BY <1>0 DEF Names
<1>5. \A j \in Slot : Reads(requests'[j]) => requests'[j] = requests[j]
  BY <1>2, <1>3
<1>6. ReadInv' /\ LatestInv'
  BY <1>0, <1>3, <1>4, <1>5, TableStays DEF TableInv
<1> QED BY <1>0, <1>6 DEF TableInv, TabInv

LEMMA TableStep ==
    ASSUME NoPassword \notin Password, RequestsSound, AccountsType, TableInv, [Next]_vars
    PROVE  TableInv'
<1>1. CASE OfServers
  <2>1. /\ UNCHANGED <<requests, tab, accounts, latest>>
        /\ behind' = (behind \/ Names' # Names)
    BY <1>1 DEF OfServers
  <2>2. /\ Stale => Stale'
        /\ Names' = Names \/ Stale'
    BY <2>1 DEF Stale
  <2>3. ReadInv' /\ LatestInv'
    BY <2>1, <2>2, TableStays DEF TableInv
  <2> QED BY <2>1, <2>3 DEF TableInv, TabInv
<1>2. ASSUME NEW k, NEW n, NEW p, Send(Request(k, n, p)), UNCHANGED <<pass, accounts, latest, behind>>
      PROVE  ReadInv' /\ LatestInv'
  <2>1. Names' = Names
    BY <1>2 DEF Names
  <2> QED BY <1>2, <2>1, SendStays, TableStays DEF TableInv
<1>3. UNCHANGED <<pass, requests, accounts, latest, behind>> => ReadInv' /\ LatestInv'
  BY DEF TableInv, ReadInv, LatestInv, Names, Stale
<1>4. CASE PollServers
  BY <1>2, <1>4 DEF PollServers, accountsVars, Get, TableInv, TabInv
<1>5. CASE OnlineChanges
  BY <1>3, <1>5 DEF OnlineChanges, TableInv, TabInv
<1>6. ASSUME NEW t \in Tab, ClickTab(t) PROVE TableInv'
  <2>1. ReadInv' /\ LatestInv'
    BY <1>2, <1>3, <1>6 DEF ClickTab, Get
  <2>2. tab' = [link |-> t, marked |-> {t}, shown |-> (tab.shown \ {tab.link}) \cup {t}]
    BY <1>6 DEF ClickTab, Activate
  <2> QED BY <2>1, <2>2 DEF TableInv, TabInv
<1>7. ASSUME NEW k, NEW n, NEW p, Submit(k, n, p) PROVE TableInv'
  BY <1>2, <1>7 DEF Submit, TableInv, TabInv
<1>8. CASE UNCHANGED vars
  BY <1>3, <1>8 DEF vars, adminVars, accountsVars, TableInv, TabInv
<1> QED BY <1>1, <1>4, <1>5, <1>6, <1>7, <1>8, ServeTable, ChangeTable, FailsTable, AnswerTable, LoseTable
        DEF Next

(* When its requests are settled the table of the page shows the accounts  *)
(* of the database, or one of the four exceptions holds, for any number of *)
(* requests that overlap in any order: TableCurrent.  Until they are       *)
(* settled, whatever is out of date has a request that will mend it.       *)
THEOREM TableSound == Spec => []TableCurrent
<1> DEFINE IInv == LInv /\ TableInv
<1>1. AdminInit => IInv
  <2> SUFFICES ASSUME AdminInit PROVE IInv
    OBVIOUS
  <2>1. \A i \in Slot : requests[i].stage \in {"sent", "none"}
    BY DEF AdminInit, Get, Request, NoRequest
  <2>2. ~latest /\ TabInv
    BY DEF AdminInit, TabInv
  <2>3. TableInv
    BY <2>1, <2>2 DEF TableInv, ReadInv, LatestInv, Reads
  <2> QED BY <2>3, AccountsAssumption, LInit
<1>2. IInv /\ [Next]_vars => IInv'
  BY AccountsAssumption, AccountsStep, AccountsTypeStep, LoginsStep, TableStep DEF LInv
<1>3. IInv => TableCurrent
  BY DEF TableInv, TabInv, LatestInv, Stale, Asks, Wrote, TableCurrent
<1> QED BY <1>1, <1>2, <1>3, PTL DEF Spec
=============================================================================
