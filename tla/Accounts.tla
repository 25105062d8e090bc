------------------------------ MODULE Accounts ------------------------------
(***************************************************************************)
(* Accounts and subscriptions: the tables of the database beside the       *)
(* naming server, and what the chat servers do with them over RMI.  Every  *)
(* call of RemoteDatabase is a step of its own, and a server handles one   *)
(* stanza at a time.                                                       *)
(***************************************************************************)
EXTENDS Naturals, Sequences

CONSTANTS Server, Name, Password,
          NoPassword,       \* of a name without an account
          MaxOps            \* bound: requests, changes and faults in a behaviour

ASSUME AccountsAssumption == NoPassword \notin Password /\ MaxOps \in Nat

VARIABLES
    pass,       \* table users: a name is there once
    rows,       \* table friends: the subscriptions of each owner and jid, a row each
    users,      \* UserManager.users of each server, and whether that object is there
    lb,         \* whether RemoteDatabase.lb is not null
    task,       \* the calls that change rows a server has to make, and how far it is
    ops,        \* operations so far
    intended,   \* what the owners' rows should say
    spoilt,     \* rows that two handlers or another owner's change got hold of
    differs     \* names whose account changed behind the back of a server

accountsVars == <<pass, rows, users, lb, task, ops, intended, spoilt, differs>>

Pair == {p \in Name \X Name : p[1] # p[2]}

Sub == {"none", "from", "to", "both"}

\* What a call makes of a row: changeFriend gives it a subscription, insertFriend
\* adds one without, removeFriend takes it away.
Deed == {"none", "from", "to", "add", "remove"}

Agreed(old, deed) == IF deed \in {"from", "to"} THEN old \cup {deed}
                     ELSE IF deed = "add" THEN old ELSE {}

Unread == [there |-> FALSE, known |-> {}]

Idle == [calls |-> <<>>, step |-> "exists", seen |-> "none"]

Stored == {<<n, pass[n]>> : n \in {m \in Name : pass[m] # NoPassword}}

AccountsInit ==
    /\ pass \in [Name -> Password \cup {NoPassword}]
    /\ \E p \in Pair : /\ rows = [q \in Pair |-> IF q = p THEN <<"from">> ELSE <<>>]
                       /\ pass[p[1]] # NoPassword
    /\ users \in [Server -> {Unread, [there |-> TRUE, known |-> Stored]}] /\ lb \in [Server -> BOOLEAN]
    /\ task = [s \in Server |-> Idle] /\ ops = 0
    /\ intended = [p \in Pair |-> IF rows[p] = <<>> THEN {} ELSE {"from"}]
    /\ spoilt = {} /\ differs = [s \in Server |-> {}]

Free(s) == task[s].calls = <<>> /\ ops < MaxOps /\ ops' = ops + 1
-----------------------------------------------------------------------------
\* The object UserManager is made when it is used first: without a lb its
\* list is empty and stays so.
Loaded(s) == IF users[s].there THEN users[s]
             ELSE [there |-> TRUE, known |-> IF lb[s] THEN Stored ELSE {}]

\* Names that the list of a server may have wrong after it was used.
Behind(s) == IF users[s].there THEN differs[s] ELSE IF lb[s] THEN {} ELSE Name

Knows(s, n) == \E e \in Loaded(s).known : e[1] = n

\* Mutation: the user that was created is not put in the list.
CreateUserUncached(s, n, p) ==
    /\ Free(s) /\ lb[s] /\ ~Knows(s, n) /\ pass[n] = NoPassword
    /\ users' = [users EXCEPT ![s] = Loaded(s)]
    /\ differs' = [t \in Server |-> IF t = s THEN Behind(s) ELSE differs[t] \cup {n}]
    /\ pass' = [pass EXCEPT ![n] = p]
    /\ UNCHANGED <<rows, lb, task, intended, spoilt>>

\* createUser looks at the list only; the answer is success whatever became
\* of the insert.  A name that the table has makes it fail, and the lb with it.
CreateUser(s, n, p) ==
    /\ Free(s)
    /\ IF Knows(s, n)
       THEN /\ users' = [users EXCEPT ![s] = Loaded(s)]
            /\ differs' = [differs EXCEPT ![s] = Behind(s)]
            /\ UNCHANGED <<pass, lb>>
       ELSE LET new == lb[s] /\ pass[n] = NoPassword
            IN  /\ users' = [users EXCEPT ![s] = [Loaded(s) EXCEPT !.known = @ \cup {<<n, p>>}]]
                /\ pass' = IF new THEN [pass EXCEPT ![n] = p] ELSE pass
                /\ lb' = [lb EXCEPT ![s] = new]
                /\ differs' = [t \in Server |-> IF t = s THEN Behind(s) \cup (IF new THEN {} ELSE {n})
                                               ELSE IF new THEN differs[t] \cup {n} ELSE differs[t]]
    /\ UNCHANGED <<rows, task, intended, spoilt>>

\* auth: the first use of the list, if nothing else
Auth(s) ==
    /\ Free(s) /\ ~users[s].there
    /\ users' = [users EXCEPT ![s] = Loaded(s)]
    /\ differs' = [differs EXCEPT ![s] = Behind(s)]
    /\ UNCHANGED <<pass, rows, lb, task, intended, spoilt>>

Pending(s, p) == \E i \in DOMAIN task[s].calls : task[s].calls[i].pair = p

\* The handler begins: what its calls should make of the rows.
Begin(s, calls) ==
    LET pairs == {calls[i].pair : i \in DOMAIN calls}
        deed(p) == CHOOSE x \in Deed : \E i \in DOMAIN calls : calls[i] = [pair |-> p, deed |-> x]
    IN  /\ task' = [task EXCEPT ![s] = [Idle EXCEPT !.calls = calls]]
        /\ intended' = [p \in Pair |-> IF p \in pairs THEN Agreed(intended[p], deed(p)) ELSE intended[p]]
        /\ spoilt' = spoilt \cup {p \in pairs : \/ \E t \in Server : Pending(t, p)
                                                \/ deed(p) \in intended[p]}

\* "subscribed": u lets v see it; v's row only if this server knows v.
Subscribed(s, u, v) ==
    /\ Free(s) /\ users[s].there /\ Knows(s, u) /\ u # v
    /\ Begin(s, <<[pair |-> <<u, v>>, deed |-> "from"]>>
                \o IF Knows(s, v) THEN <<[pair |-> <<v, u>>, deed |-> "to"]>> ELSE <<>>)
    /\ UNCHANGED <<pass, rows, users, lb, differs>>

\* "unsubscribed"
Unsubscribed(s, u, v) ==
    /\ Free(s) /\ users[s].there /\ Knows(s, u) /\ Knows(s, v) /\ u # v
    /\ Begin(s, <<[pair |-> <<v, u>>, deed |-> "none"]>>)
    /\ UNCHANGED <<pass, rows, users, lb, differs>>

\* A roster item is set or removed.
RosterSet(s, u, v, deed) ==
    /\ Free(s) /\ users[s].there /\ Knows(s, u) /\ u # v
    /\ Begin(s, <<[pair |-> <<u, v>>, deed |-> deed]>>)
    /\ UNCHANGED <<pass, rows, users, lb, differs>>
-----------------------------------------------------------------------------
Call(s) == task[s].calls[1]

At(s, step) == task[s].calls # <<>> /\ task[s].step = step

Done(s) == task' = [task EXCEPT ![s] = [Idle EXCEPT !.calls = Tail(task[s].calls)]]

Follows(deed, found) ==
    CASE deed = "add"    -> IF found THEN "over" ELSE "insert"
      [] deed = "remove" -> IF found THEN "delete" ELSE "over"
      [] OTHER           -> IF found THEN "read" ELSE "insert"

\* All of them ask whether there is a row first: without a lb there is none.
Exists(s) ==
    /\ At(s, "exists")
    /\ LET step == Follows(Call(s).deed, lb[s] /\ rows[Call(s).pair] # <<>>)
       IN  IF step = "over" THEN Done(s) ELSE task' = [task EXCEPT ![s].step = step]
    /\ spoilt' = IF lb[s] THEN spoilt ELSE spoilt \cup {Call(s).pair}
    /\ UNCHANGED <<pass, rows, users, lb, ops, intended, differs>>

\* first of an empty list leaves the handler.
ReadSub(s) ==
    /\ At(s, "read")
    /\ IF lb[s] /\ rows[Call(s).pair] # <<>>
       THEN /\ task' = [task EXCEPT ![s] = [@ EXCEPT !.step = "update", !.seen = rows[Call(s).pair][1]]]
            /\ UNCHANGED spoilt
       ELSE /\ task' = [task EXCEPT ![s] = Idle]
            /\ spoilt' = spoilt \cup {p \in Pair : Pending(s, p)}
    /\ UNCHANGED <<pass, rows, users, lb, ops, intended, differs>>

\* A write without a lb is dropped, and the handler goes on.
Written(s, row) ==
    /\ Done(s)
    /\ IF lb[s] THEN rows' = [rows EXCEPT ![Call(s).pair] = row] /\ UNCHANGED spoilt
       ELSE UNCHANGED rows /\ spoilt' = spoilt \cup {Call(s).pair}
    /\ UNCHANGED <<pass, users, lb, ops, intended, differs>>

Insert(s) ==
    /\ At(s, "insert")
    /\ Written(s, Append(rows[Call(s).pair], IF Call(s).deed = "add" THEN "none" ELSE Call(s).deed))

Delete(s) == At(s, "delete") /\ Written(s, <<>>)

\* Mutation: the subscription is overwritten, not merged.
MergeForgets(old, sub) == sub

Merge(old, sub) == IF {old, sub} = {"from", "to"} THEN "both" ELSE sub

\* The UPDATE names the jid of the friend and not the owner.
Update(s) ==
    /\ At(s, "update") /\ Done(s)
    /\ LET new == Merge(task[s].seen, Call(s).deed)
           hit == {p \in Pair : p[2] = Call(s).pair[2]}
       IN  IF lb[s]
           THEN /\ rows' = [p \in Pair |-> IF p \in hit THEN [i \in DOMAIN rows[p] |-> new] ELSE rows[p]]
                /\ spoilt' = spoilt \cup {p \in hit \ {Call(s).pair} : rows[p] # <<>>}
           ELSE UNCHANGED rows /\ spoilt' = spoilt \cup {Call(s).pair}
    /\ UNCHANGED <<pass, users, lb, ops, intended, differs>>

\* A call that fails sets lb to null, which is here the step before the call,
\* or after it when it had its effect; UpdateNSThread sets lb again.
LinkChanges(s) ==
    /\ ops < MaxOps /\ ops' = ops + 1
    /\ lb' = [lb EXCEPT ![s] = ~@]
    /\ UNCHANGED <<pass, rows, users, task, intended, spoilt, differs>>
-----------------------------------------------------------------------------
(* What the naming server does for the administrator.                      *)

\* An account changes, and every list that is there is behind.
SetAccount(n, p) ==
    /\ pass' = [pass EXCEPT ![n] = p]
    /\ differs' = [s \in Server |-> IF p = pass[n] THEN differs[s] ELSE differs[s] \cup {n}]
    /\ UNCHANGED <<rows, users, lb, task, intended, spoilt>>

DbUpdateUser(n, p) ==
    IF pass[n] = NoPassword THEN UNCHANGED accountsVars
    ELSE SetAccount(n, p) /\ UNCHANGED ops

\* A name that is there makes the insert fail.
DbCreateUser(n, p) ==
    IF pass[n] # NoPassword THEN UNCHANGED accountsVars
    ELSE SetAccount(n, p) /\ UNCHANGED ops

\* deleteUser is two updates: the friends, then the user.
DbDeleteFriends(n) ==
    /\ rows' = [p \in Pair |-> IF p[1] = n THEN <<>> ELSE rows[p]]
    /\ intended' = [p \in Pair |-> IF p[1] = n THEN {} ELSE intended[p]]
    /\ spoilt' = spoilt \cup {p \in Pair : p[1] = n /\ \E s \in Server : Pending(s, p)}
    /\ UNCHANGED <<pass, users, lb, task, ops, differs>>

DbDeleteUser(n) == SetAccount(n, NoPassword) /\ UNCHANGED ops

ServerStep ==
    \E s \in Server :
        \/ Exists(s) \/ ReadSub(s) \/ Insert(s) \/ Update(s) \/ Delete(s) \/ LinkChanges(s) \/ Auth(s)
        \/ \E n \in Name, p \in Password : CreateUser(s, n, p)
        \/ \E u, v \in Name : \/ Subscribed(s, u, v) \/ Unsubscribed(s, u, v)
                              \/ \E deed \in {"add", "remove"} : RosterSet(s, u, v, deed)
-----------------------------------------------------------------------------
(* A server accepts the accounts of the database: nobody it should not     *)
(* know, and nobody left out.  The exceptions are all that there are: an   *)
(* account that another server or the administrator changed after the list *)
(* was read, a list read without a lb, and an account this server made   *)
(* when the table did not take it.                                         *)
LoginsKnown ==
    \A s \in Server : users[s].there =>
        /\ \A d, e \in users[s].known : d[1] = e[1] => d = e
        /\ \A n \in Name \ differs[s] : \A p \in Password :
              <<n, p>> \in users[s].known <=> pass[n] = p

(* When the handlers are done a row of friends says what its owner and the *)
(* friend agreed to, both once that is both directions, and nothing once   *)
(* it was refused, removed or only asked for: unless two servers changed   *)
(* the row at a time, a write was dropped, the same was agreed twice, or   *)
(* the row was overwritten by the update of another owner.                 *)
SubscriptionsMerge ==
    \A p \in Pair \ spoilt : (\A s \in Server : ~Pending(s, p)) =>
        IF intended[p] = {} THEN rows[p] \in {<<>>, <<"none">>}
        ELSE rows[p] = IF intended[p] = {"from", "to"} THEN <<"both">>
                       ELSE <<CHOOSE x \in intended[p] : TRUE>>
=============================================================================
