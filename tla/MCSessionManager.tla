------------------------ MODULE MCSessionManager ------------------------
(* Instances of SessionManager.  u1 is connected twice, so that losing one *)
(* session leaves exactly one behind, and the resource of one begins with  *)
(* that of the other; the two users subscribe to each other, so that       *)
(* presences travel both ways.                                             *)
EXTENDS SessionManager, TLC

CONSTANTS s1, s2, s3, t1, t2, t3, c1, c2, c3, u1, u2, r1, r2, m1, m2

AnyJid == [user : User, res : Resource \cup {None}]
OneOfEach == {Bare(u1), [user |-> u2, res |-> r1]}
FullJidOfU2 == [user : {u2}, res : Resource]

Friendly == [u \in User |-> [f \in User |-> IF u = f THEN "absent" ELSE "both"]]

Conn1(s, t, u, r) == [at |-> s, thread |-> t, user |-> u, res |-> r]

\* r2 begins with r1, as home2 does with home.
Prefixed == r1 :> {r1, r2} @@ r2 :> {r2}
Unprefixed == [r \in Resource |-> {r}]

\* Behaviours in which the peers stay connected and no presence is sent: what
\* is left is messages crossing the federation while sessions come and go.
SenderActs(c) == Accept(c) \/ Login(c) \/ \E m \in Msg, to \in Targets : Message(c, m, to)
OtherActs(c) == Accept(c) \/ Login(c) \/ Bind(c) \/ (who[c] # None /\ StreamEnd(c))
RelayNext ==
  \/ \E t \in Thread : Step(t)
  \/ \E c \in Senders : SenderActs(c)
  \/ \E c \in Conn \ Senders : OtherActs(c)
  \/ \E s \in Server : UpdateSessions(s)
RelaySpec == Init /\ [][RelayNext]_vars
FairRelaySpec == RelaySpec /\ \A t \in Thread : WF_vars(Step(t))

\* One server, one selector thread.
OneServer ==
  c1 :> Conn1(s1, t1, u1, r1) @@ c2 :> Conn1(s1, t1, u2, r1) @@
  c3 :> Conn1(s1, t1, u1, r2)

\* Three servers; u2 has the same full jid on two of them.
ThreeServers ==
  c1 :> Conn1(s1, t1, u1, r1) @@ c2 :> Conn1(s2, t2, u2, r2) @@
  c3 :> Conn1(s3, t3, u2, r2)

\* Two servers, one client on each.
OneEach == c1 :> Conn1(s1, t1, u1, r1) @@ c2 :> Conn1(s2, t2, u2, r1)
=========================================================================
