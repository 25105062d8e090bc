------------------------------ MODULE Delivery ------------------------------
(***************************************************************************)
(* What the chat servers promise for a message, taken together and without *)
(* their threads, monitors, call stacks and tables of each other: it is    *)
(* written to listed sessions it is addressed to, once to each channel of  *)
(* a full jid that is not the beginning of another; it is done when nobody *)
(* who is still listed has missed it, and the sender knows of the channels *)
(* of his server that failed.                                              *)
(* Nothing is written for a message that is done.                          *)
(***************************************************************************)
EXTENDS Naturals

CONSTANTS
  Conn, User, Resource, Msg, None,
  Extends,     \* Extends[r]: the resources whose name begins with r, and r
  Place,       \* Place[c]: the server that connection c is made to
  Reliable     \* no server fails to answer another

VARIABLES
  phase,       \* of a connection: "new", "listed", and when it has left, "gone"
  jid,         \* who a connection says it is
  sent,        \* where a message came from, and where to
  underway,    \* the messages that were sent and are not done
  owed,        \* the channels a message was to be written to
  missed,      \* those whose write failed
  bounced,     \* the channels the error about a message was written to
  written      \* how often a message was written to a channel

vars == <<phase, jid, sent, underway, owed, missed, bounced, written>>

Addresses(prefix, j) ==
  j.user = prefix.user /\ (prefix.res = None \/ j.res \in Extends[prefix.res])
Sole(to) == to.res # None /\ Extends[to.res] = {to.res}
Addressed(m, c) == Addresses(sent[m].to, jid[c])

Init ==
  /\ phase = [c \in Conn |-> "new"]
  /\ jid = [c \in Conn |-> [user |-> None, res |-> None]]
  /\ sent = [m \in Msg |-> None] /\ underway = {}
  /\ owed = [m \in Msg |-> {}] /\ missed = [m \in Msg |-> {}] /\ bounced = [m \in Msg |-> {}]
  /\ written = [c \in Conn |-> [m \in Msg |-> 0]]

\* A connection is listed once, and does not come back.
Enter(c) ==
  /\ phase[c] = "new" /\ phase' = [phase EXCEPT ![c] = "listed"]
  /\ UNCHANGED <<jid, sent, underway, owed, missed, bounced, written>>

Leave(c) ==
  /\ phase[c] = "listed" /\ phase' = [phase EXCEPT ![c] = "gone"]
  /\ UNCHANGED <<jid, sent, underway, owed, missed, bounced, written>>

\* First the user becomes known, then the resource, and neither changes again.
Name(c) ==
  /\ \/ jid[c].user = None /\ \E u \in User : jid' = [jid EXCEPT ![c].user = u]
     \/ /\ jid[c].user # None /\ jid[c].res = None
        /\ \E r \in Resource : jid' = [jid EXCEPT ![c].res = r]
  /\ UNCHANGED <<phase, sent, underway, owed, missed, bounced, written>>

\* What a client sends waits until what it sent before is done.
Send(m, c, to) ==
  /\ sent[m] = None /\ jid[c].user # None /\ \A n \in underway : sent[n].from # c
  /\ sent' = [sent EXCEPT ![m] = [from |-> c, to |-> to]] /\ underway' = underway \cup {m}
  /\ UNCHANGED <<phase, jid, owed, missed, bounced, written>>

\* A server takes the message for the channels it lists just then.
Take(m, s) ==
  /\ m \in underway
  /\ owed' = [owed EXCEPT ![m] =
                @ \cup {c \in Conn : phase[c] = "listed" /\ Place[c] = s /\ Addressed(m, c)}]
  /\ UNCHANGED <<phase, jid, sent, underway, missed, bounced, written>>

Write(m, c) ==
  /\ m \in underway /\ c \in owed[m] /\ phase[c] = "listed"
  /\ Sole(sent[m].to) => written[c][m] = 0
  /\ written' = [written EXCEPT ![c][m] = @ + 1]
  /\ UNCHANGED <<phase, jid, sent, underway, owed, missed, bounced>>

Miss(m, c) ==
  /\ m \in underway /\ c \in owed[m] /\ missed' = [missed EXCEPT ![m] = @ \cup {c}]
  /\ UNCHANGED <<phase, jid, sent, underway, owed, bounced, written>>

\* An error is written to the sessions of the sender's jid, when there was one.
Report(m, c) ==
  /\ m \in underway /\ phase[c] = "listed" /\ Addresses(jid[sent[m].from], jid[c])
  /\ missed[m] # {} \/ ~Reliable
  /\ bounced' = [bounced EXCEPT ![m] = @ \cup {c}]
  /\ UNCHANGED <<phase, jid, sent, underway, owed, missed, written>>

Served(m, c) == written[c][m] > 0 \/ phase[c] = "gone"
Informed(m, c) == c \in bounced[m] \/ phase[c] = "gone"

Finish(m) ==
  /\ m \in underway /\ \A c \in owed[m] : Served(m, c)
  /\ \A c \in missed[m] : phase[c] = "gone"
  /\ (\E c \in missed[m] : Place[c] = Place[sent[m].from]) => Informed(m, sent[m].from)
  /\ underway' = underway \ {m}
  /\ UNCHANGED <<phase, jid, sent, owed, missed, bounced, written>>

Next ==
  \/ \E c \in Conn : Enter(c) \/ Leave(c) \/ Name(c)
  \/ \E m \in Msg : \/ \E s \in {Place[c] : c \in Conn} : Take(m, s)
                    \/ \E c \in Conn : Write(m, c) \/ Miss(m, c) \/ Report(m, c)
                    \/ \E c \in Conn, to \in [user : User, res : Resource \cup {None}] : Send(m, c, to)
                    \/ Finish(m)

Spec == Init /\ [][Next]_vars
=============================================================================
