---------------------------- MODULE LivePipeProofs ----------------------------
(***************************************************************************)
(* Proofs about livepipe: its windows, for any number and mix of them, and *)
(* the observers of Object.Event.                                          *)
(*                                                                         *)
(* The methods of the model are operators from a ui to the next, so the    *)
(* proofs follow the calls: a lemma for each method says what it makes of  *)
(* a tidy ui, and the lemma of its caller cites it.  without and invoke    *)
(* are loops, recursive functions over the numbers of a list; LoopHolds    *)
(* carries what every round keeps to the end (by a least counterexample,   *)
(* lemma Least).                                                           *)
(*                                                                         *)
(* The inductive invariant is IInv.  Tidy says what the fields have to do  *)
(* with each other: their types, what is known of a window that was made,  *)
(* what it may wait for, the order of the list and the levels, and what    *)
(* the indicator shows for.  Leaves says of every modal window the overlay *)
(* was shown for that a click on it closes the window, unless it failed,   *)
(* waits or is a lightbox; the methods of open break it for the window     *)
(* that opens, and for that one only: Leaves(ui, {w}).                     *)
(*                                                                         *)
(* notify walks a list its observers change.  NotifierInv says how far it  *)
(* is: all that is left before the index has been called, and nothing      *)
(* after it.  That holds because entries only move towards the front, and  *)
(* the only one that comes is put last.                                    *)
(***************************************************************************)
EXTENDS LivePipe, Notifier, FiniteSetTheorems, WellFoundedInduction, TLAPS

(* Loops. *)

\* Where something holds of a number, it holds of a least one.
LEMMA Least ==
    ASSUME NEW T \in SUBSET Nat, T # {}
    PROVE  \E m \in T : \A n \in T : ~ (n < m)
<1> DEFINE R == OpToRel(<, Nat)
<1>1. IsWellFoundedOn(R, Nat)
  BY NatLessThanWellFounded
<1>2. \A x, y \in Nat : x < y => <<x, y>> \in R
  BY DEF OpToRel
<1> HIDE DEF R
<1>3. \E m \in T : \A n \in T : ~ (<<n, m>> \in R)
  BY <1>1, WFMin
<1> QED BY <1>2, <1>3

\* g is what a loop has after each of its m rounds.
Loop(g, m, base, round) == g = [n \in 0..m |-> IF n = 0 THEN base ELSE round[<<n, g[n - 1]>>]]

\* It is there: the first number of rounds without one would have a predecessor.
LEMMA LoopExists ==
    ASSUME NEW m \in Nat, NEW base, NEW round
    PROVE  \E g : Loop(g, m, base, round)
<1> DEFINE T == {k \in Nat : ~ \E g : Loop(g, k, base, round)}
<1> SUFFICES ASSUME m \in T PROVE FALSE
  OBVIOUS
<1>1. PICK k \in T : \A n \in T : ~ (n < k)
  BY Least
<1>2. k # 0
  <2> DEFINE g == [n \in 0..0 |-> base]
  <2>1. g = [n \in 0..0 |-> IF n = 0 THEN base ELSE round[<<n, g[n - 1]>>]]
    OBVIOUS
  <2>2. Loop(g, 0, base, round)
    BY <2>1 DEF Loop
  <2> QED BY <2>2
<1>3. PICK g : Loop(g, k - 1, base, round)
  <2>1. k - 1 \in Nat /\ k - 1 < k
    BY <1>2
  <2>2. k - 1 \notin T
    BY <1>1, <2>1
  <2> QED BY <2>1, <2>2
<1> DEFINE h == [n \in 0..k |-> IF n = k THEN round[<<k, g[k - 1]>>] ELSE g[n]]
<1>4. /\ \A n \in 0..(k - 1) : h[n] = g[n]
      /\ h[k] = round[<<k, g[k - 1]>>]
  BY <1>2
<1>5. \A n \in 0..(k - 1) : g[n] = IF n = 0 THEN base ELSE round[<<n, g[n - 1]>>]
  BY <1>3 DEF Loop
<1>6. ASSUME NEW n \in 0..k PROVE h[n] = IF n = 0 THEN base ELSE round[<<n, h[n - 1]>>]
  <2>1. CASE n = k
    <3>1. k - 1 \in 0..(k - 1)
      BY <1>2
    <3> QED BY <1>2, <1>4, <2>1, <3>1
  <2>2. CASE n # k
    <3>1. n \in 0..(k - 1) /\ (n # 0 => n - 1 \in 0..(k - 1))
      BY <2>2
    <3> QED BY <1>4, <1>5, <3>1
  <2> QED BY <2>1, <2>2
<1>7. Loop(h, k, base, round)
  BY <1>6 DEF Loop
<1> QED BY <1>7

\* What holds before the first round, and is kept by each, holds after the last.
LEMMA LoopHolds ==
    ASSUME NEW m \in Nat, NEW g, NEW J, g[0] \in J[0],
           \A n \in 1..m : g[n - 1] \in J[n - 1] => g[n] \in J[n]
    PROVE  \A n \in 0..m : g[n] \in J[n]
<1> DEFINE T == {n \in 0..m : g[n] \notin J[n]}
<1> SUFFICES ASSUME T # {} PROVE FALSE
  OBVIOUS
<1>1. T \in SUBSET Nat
  OBVIOUS
<1>2. PICK k \in T : \A n \in T : ~ (n < k)
  BY <1>1, Least
<1>3. k \in 1..m /\ k - 1 \in 0..m /\ k - 1 < k
  OBVIOUS
<1>4. g[k - 1] \in J[k - 1]
  BY <1>2, <1>3
<1> QED BY <1>3, <1>4

-------------------------------------------------------------------------------
(* without and invoke. *)

\* s has the entries of the list at the places K that are not e, in their order.
Picks(s, list, e, K) ==
    /\ \A i \in 1..Len(s) : s[i] # e /\ \E k \in K : list[k] = s[i]
    /\ \A i, j \in 1..Len(s) :
          i < j => \E k, l \in K : k < l /\ list[k] = s[i] /\ list[l] = s[j]
    /\ \A k \in K : list[k] # e => \E i \in 1..Len(s) : s[i] = list[k]

\* without walks the list and keeps the places whose entry is not e.
LEMMA WithoutPicks ==
    ASSUME NEW S, NEW list \in Seq(S), NEW e
    PROVE  Without(list, e) \in Seq(S) /\ Picks(Without(list, e), list, e, DOMAIN list)
<1>0. PICK m \in Nat : m = Len(list) /\ DOMAIN list = 1..m /\ \A n \in 1..m : list[n] \in S
  OBVIOUS
<1> DEFINE round == [p \in (1..m) \X Seq(S) |->
                        IF list[p[1]] = e THEN p[2] ELSE Append(p[2], list[p[1]])]
           J == [n \in 0..m |-> {s \in Seq(S) : Picks(s, list, e, 1..n)}]
<1>2. \A n \in 1..m, s \in Seq(S) :
         round[<<n, s>>] = IF list[n] = e THEN s ELSE Append(s, list[n])
  BY <1>0
<1>3. \A n \in 0..m : \A s : s \in J[n] <=> s \in Seq(S) /\ Picks(s, list, e, 1..n)
  OBVIOUS
<1>a. /\ \A s \in Seq(S) : Picks(s, list, e, 1..0) => s \in J[0]
      /\ \A s \in J[m] : s \in Seq(S) /\ Picks(s, list, e, 1..m)
  BY <1>0
<1> HIDE DEF round, J
<1>4. PICK nil : nil = <<>> /\ nil \in J[0]
  <2>1. <<>> \in Seq(S) /\ Len(<<>>) = 0
    OBVIOUS
  <2>2. Picks(<<>>, list, e, 1..0)
    BY <2>1 DEF Picks
  <2>3. <<>> \in J[0]
    BY <1>a, <2>1, <2>2
  <2> QED BY <2>3
<1>5. ASSUME NEW n \in 1..m, NEW s \in J[n - 1] PROVE round[<<n, s>>] \in J[n]
  <2>1. s \in Seq(S) /\ Picks(s, list, e, 1..(n - 1))
    BY <1>0, <1>3
  <2>2. CASE list[n] = e
    <3>1. Picks(s, list, e, 1..n)
      BY <1>0, <2>1, <2>2 DEF Picks
    <3> QED BY <1>2, <1>3, <2>1, <2>2, <3>1
  <2>3. CASE list[n] # e
    <3> DEFINE a == Append(s, list[n])
    <3>1. /\ a \in Seq(S) /\ Len(a) = Len(s) + 1 /\ a[Len(s) + 1] = list[n]
          /\ \A i \in 1..Len(s) : a[i] = s[i]
      BY <1>0, <2>1
    <3> HIDE DEF a
    <3>2. Len(s) \in Nat /\ Len(a) = Len(s) + 1
      BY <2>1, <3>1
    <3>3. \A i \in 1..Len(a) : a[i] # e /\ \E k \in 1..n : list[k] = a[i]
      BY <1>0, <2>1, <2>3, <3>1, <3>2 DEF Picks
    <3>4. ASSUME NEW i \in 1..Len(a), NEW j \in 1..Len(a), i < j
          PROVE  \E k, l \in 1..n : k < l /\ list[k] = a[i] /\ list[l] = a[j]
      <4>1. CASE j = Len(s) + 1
        <5>1. i \in 1..Len(s)
          BY <3>2, <3>4, <4>1
        <5>2. PICK k \in 1..(n - 1) : list[k] = s[i]
          BY <2>1, <5>1 DEF Picks
        <5>3. k \in 1..n /\ n \in 1..n /\ k < n
          BY <1>0
        <5> QED BY <3>1, <4>1, <5>1, <5>2, <5>3
      <4>2. CASE j # Len(s) + 1
        <5>1. i \in 1..Len(s) /\ j \in 1..Len(s)
          BY <3>2, <3>4, <4>2
        <5>2. PICK k, l \in 1..(n - 1) : k < l /\ list[k] = s[i] /\ list[l] = s[j]
          BY <2>1, <3>4, <5>1 DEF Picks
        <5>3. k \in 1..n /\ l \in 1..n /\ list[k] = a[i] /\ list[l] = a[j]
          BY <1>0, <3>1, <5>1, <5>2
        <5> QED BY <5>2, <5>3
      <4> QED BY <4>1, <4>2
    <3>5. ASSUME NEW k \in 1..n, list[k] # e PROVE \E i \in 1..Len(a) : a[i] = list[k]
      <4>1. CASE k = n
        BY <3>1, <3>2, <4>1
      <4>2. CASE k # n
        <5>1. k \in 1..(n - 1)
          BY <4>2
        <5>2. PICK i \in 1..Len(s) : s[i] = list[k]
          BY <2>1, <3>5, <5>1 DEF Picks
        <5> QED BY <3>1, <3>2, <5>2
      <4> QED BY <4>1, <4>2
    <3>6. Picks(a, list, e, 1..n)
      BY <3>3, <3>4, <3>5 DEF Picks
    <3>7. round[<<n, s>>] = a
      BY <1>2, <2>1, <2>3 DEF a
    <3> QED BY <1>3, <3>1, <3>6, <3>7
  <2> QED BY <2>2, <2>3
<1>6. PICK g : Loop(g, m, nil, round)
  BY <1>0, LoopExists
<1>7. \A n \in 0..m : g[n] \in J[n]
  <2>1. \A n \in 0..m : g[n] = IF n = 0 THEN nil ELSE round[<<n, g[n - 1]>>]
    BY <1>6 DEF Loop
  <2>2. ASSUME NEW n \in 1..m, g[n - 1] \in J[n - 1] PROVE g[n] \in J[n]
    <3>1. g[n] = round[<<n, g[n - 1]>>]
      BY <2>1
    <3> QED BY <1>5, <2>2, <3>1
  <2>3. g[0] \in J[0]
    <3>1. 0 \in 0..m
      BY <1>0
    <3>2. g[0] = nil
      BY <2>1, <3>1, Zenon
    <3> QED BY <1>4, <3>2
  <2> QED BY <1>0, <2>2, <2>3, LoopHolds
<1> DEFINE KeptBy(k) ==
        k = [n \in 0..m |->
                IF n = 0 THEN nil
                ELSE IF list[n] = e THEN k[n - 1] ELSE Append(k[n - 1], list[n])]
<1>8. KeptBy(g)
  <2>1. \A n \in 1..m : g[n - 1] \in Seq(S)
    BY <1>0, <1>3, <1>7
  <2> QED BY <1>0, <1>2, <1>6, <2>1 DEF Loop
<1>9. PICK k : KeptBy(k) /\ Without(list, e) = k[m]
  BY <1>0, <1>4, <1>8 DEF Without
<1>10. \A n \in 0..m : k[n] \in J[n]
  <2>1. \A n \in 0..m : k[n] = IF n = 0 THEN nil
                ELSE IF list[n] = e THEN k[n - 1] ELSE Append(k[n - 1], list[n])
    BY <1>9
  <2>2. ASSUME NEW n \in 1..m, k[n - 1] \in J[n - 1] PROVE k[n] \in J[n]
    <3>1. k[n] = round[<<n, k[n - 1]>>]
      BY <1>0, <1>2, <1>3, <2>1, <2>2
    <3> QED BY <1>5, <2>2, <3>1
  <2>3. k[0] \in J[0]
    BY <1>0, <1>4, <2>1
  <2> QED BY <1>0, <2>2, <2>3, LoopHolds
<1>11. k[m] \in J[m]
  BY <1>0, <1>10
<1> QED BY <1>0, <1>a, <1>9, <1>11
-------------------------------------------------------------------------------
(* What the page and the objects are between any two methods. *)

Stages == {"idle", "request", "image", "frame", "images"}
Lamps == {"off", "timer", "on"}

UI == [list : Seq(Win), made : SUBSET Win, gone : SUBSET Win, open : SUBSET Win,
       shown : SUBSET Win, z : [Win -> Int], loaded : SUBSET Win, stage : [Win -> Stages],
       failed : SUBSET Win, light : [Win -> Lamps], overlay : BOOLEAN,
       onclick : Seq(Win), ready : SUBSET Win, current : Win \cup {None}]

In(x, list) == \E i \in DOMAIN list : list[i] = x

\* Nothing is known of a window that was not made.
Made(u) ==
    /\ u.gone \subseteq u.made /\ u.open \subseteq u.made /\ u.shown \subseteq u.made
    /\ u.loaded \subseteq u.made /\ u.failed \subseteq Remote
    /\ u.ready \subseteq Modal /\ u.current \in Modal \cup {None}
    /\ \A w \in Win : u.stage[w] # "idle" => w \in u.made

\* A window waits for what its link shows.
Waits(u) ==
    \A w \in Win : /\ u.stage[w] = "request" => w \in Remote
                   /\ u.stage[w] = "image" => w \in Image
                   /\ u.stage[w] = "frame" => w \in Framed
                   /\ u.stage[w] = "images" => w \in Light

Distinct(list) == \A i, j \in DOMAIN list : list[i] = list[j] => i = j

\* Each window is listed once; of open windows the later one is above.
Listed(u) ==
    /\ Distinct(u.list)
    /\ \A w \in Win : In(w, u.list) => w \in u.made
    /\ \A i, j \in DOMAIN u.list :
          i < j /\ u.list[i] \in u.open /\ u.list[j] \in u.open => u.z[u.list[i]] < u.z[u.list[j]]

\* The indicator shows for what waits for a request or a frame.
Lit(u) == \A w \in Win : u.light[w] # "off" => u.stage[w] # "idle" /\ w \in Remote \cup Framed

Tidy(u) == u \in UI /\ Made(u) /\ Waits(u) /\ Listed(u) /\ Lit(u)

\* What no window is raised, opened or closed with.
Kept(u, v) ==
    /\ v.made = u.made /\ v.gone = u.gone /\ v.loaded = u.loaded
    /\ v.overlay = u.overlay /\ v.onclick = u.onclick /\ v.ready = u.ready

\* What a click on the overlay closes, now or once it is there, or is stranded.
Escape(u, w) ==
    \/ w \in Light
    \/ In(w, u.onclick) /\ (w \in u.open \/ u.stage[w] \notin {"idle", "frame"} \/ w \in u.failed)

\* Every window the overlay was shown for can be left, but perhaps those of W.
Leaves(u, W) ==
    /\ u.overlay => u.ready # {}
    /\ \A w \in u.ready \ W : Escape(u, w)

\* without keeps the order, adds nothing, and drops all entries that are w.
LEMMA WithoutIs ==
    ASSUME NEW list \in Seq(Win), NEW w, NEW s, s = Without(list, w)
    PROVE  /\ s \in Seq(Win)
           /\ Distinct(list) => Distinct(s)
           /\ \A x : In(x, s) <=> x # w /\ In(x, list)
           /\ \A i, j \in DOMAIN s :
                 i < j => \E k, l \in DOMAIN list : k < l /\ list[k] = s[i] /\ list[l] = s[j]
<1>1. s \in Seq(Win) /\ Picks(s, list, w, DOMAIN list) /\ DOMAIN s = 1..Len(s)
  BY WithoutPicks
<1>2. \A i, j \in DOMAIN s :
         i < j => \E k, l \in DOMAIN list : k < l /\ list[k] = s[i] /\ list[l] = s[j]
  BY <1>1 DEF Picks
<1>3. ASSUME Distinct(list), NEW i \in DOMAIN s, NEW j \in DOMAIN s, s[i] = s[j], i < j PROVE FALSE
  <2>1. PICK k, l \in DOMAIN list : k < l /\ list[k] = s[i] /\ list[l] = s[j]
    BY <1>2, <1>3
  <2>2. k = l
    BY <1>3, <2>1 DEF Distinct
  <2> QED BY <2>1, <2>2
<1>4. Distinct(list) => Distinct(s)
  BY <1>1, <1>3 DEF Distinct
<1>5. \A x : In(x, s) <=> x # w /\ In(x, list)
  <2>1. \A i \in DOMAIN s : s[i] # w /\ \E k \in DOMAIN list : list[k] = s[i]
    BY <1>1 DEF Picks
  <2>2. \A k \in DOMAIN list : list[k] # w => \E i \in DOMAIN s : s[i] = list[k]
    BY <1>1 DEF Picks
  <2>3. ASSUME NEW x, In(x, s) PROVE x # w /\ In(x, list)
    BY <2>1, <2>3 DEF In
  <2>4. ASSUME NEW x, x # w, In(x, list) PROVE In(x, s)
    <3>1. PICK k \in DOMAIN list : list[k] = x
      BY <2>4 DEF In
    <3>2. PICK i \in DOMAIN s : s[i] = list[k]
      BY <2>2, <2>4, <3>1
    <3> QED BY <3>1, <3>2 DEF In
  <2> QED BY <2>3, <2>4
<1> QED BY <1>1, <1>2, <1>4, <1>5

\* w is listed last, and every listed window has the level of its place.
IsFronted(u, w, v) ==
    /\ v.open = u.open /\ v.shown = u.shown /\ v.stage = u.stage
    /\ v.failed = u.failed /\ v.light = u.light /\ v.current = u.current
    /\ Distinct(v.list)
    /\ \A x : In(x, v.list) <=> x = w \/ In(x, u.list)
    /\ \A i \in DOMAIN v.list : v.z[v.list[i]] = i - 1
    /\ \A x \in Win : ~In(x, v.list) => v.z[x] = u.z[x]

\* A window that is brought to the front is last, and the levels are the places.
LEMMA Fronted ==
    ASSUME NEW u \in UI, NEW w \in Win, Distinct(u.list), NEW v, v = BringToFront(u, w)
    PROVE  v \in UI /\ Kept(u, v) /\ IsFronted(u, w, v)
<1>1. PICK s : s = Without(u.list, w)
  OBVIOUS
<1>2. PICK order : order = Append(s, w)
  OBVIOUS
<1>3. u.list \in Seq(Win) /\ u.z \in [Win -> Int]
  BY DEF UI
<1>4. /\ s \in Seq(Win) /\ Distinct(s)
      /\ \A x : In(x, s) <=> x # w /\ In(x, u.list)
  BY <1>1, <1>3, WithoutIs
<1>5. /\ order \in Seq(Win) /\ Len(s) \in Nat /\ DOMAIN s = 1..Len(s)
      /\ DOMAIN order = 1..(Len(s) + 1) /\ order[Len(s) + 1] = w
      /\ \A i \in 1..Len(s) : order[i] = s[i]
  BY <1>2, <1>4
<1>6. \A x : In(x, order) <=> x = w \/ In(x, u.list)
  <2>1. \A i \in DOMAIN order : i \in DOMAIN s \/ i = Len(s) + 1
    BY <1>5
  <2>2. \A i \in DOMAIN s : i \in DOMAIN order /\ Len(s) + 1 \in DOMAIN order
    BY <1>5
  <2>3. Len(s) + 1 \in DOMAIN order
    BY <1>5
  <2> QED BY <1>4, <1>5, <2>1, <2>2, <2>3 DEF In
<1>7. Distinct(order)
  <2>1. \A i \in DOMAIN s : s[i] # w
    BY <1>4 DEF In
  <2>2. ASSUME NEW i \in DOMAIN order, NEW j \in DOMAIN order, order[i] = order[j] PROVE i = j
    <3>1. CASE i \in DOMAIN s /\ j \in DOMAIN s
      BY <1>4, <1>5, <2>2, <3>1 DEF Distinct
    <3>2. CASE ~(i \in DOMAIN s /\ j \in DOMAIN s)
      BY <1>5, <2>1, <2>2, <3>2
    <3> QED BY <3>1, <3>2
  <2> QED BY <2>2 DEF Distinct
<1>8. PICK z : z = [x \in Win |-> IF \E i \in DOMAIN order : order[i] = x
                                 THEN (CHOOSE i \in DOMAIN order : order[i] = x) - 1
                                 ELSE u.z[x]]
  OBVIOUS
<1>9. v = [u EXCEPT !.list = order, !.z = z]
  BY <1>1, <1>2, <1>8 DEF BringToFront
<1>10. ASSUME NEW i \in DOMAIN order PROVE z[order[i]] = i - 1
  <2>1. (CHOOSE j \in DOMAIN order : order[j] = order[i]) = i
    BY <1>7 DEF Distinct
  <2>2. order[i] \in Win
    BY <1>5
  <2> QED BY <1>8, <2>1, <2>2
<1>11. \A x \in Win : ~In(x, order) => z[x] = u.z[x]
  BY <1>8 DEF In
<1>12. z \in [Win -> Int]
  <2>1. \A x \in Win : z[x] \in Int
    <3> SUFFICES ASSUME NEW x \in Win PROVE z[x] \in Int
      OBVIOUS
    <3>1. CASE In(x, order)
      BY <1>5, <1>10, <3>1 DEF In
    <3>2. CASE ~In(x, order)
      BY <1>3, <1>11, <3>2
    <3> QED BY <3>1, <3>2
  <2> QED BY <1>8, <2>1
<1>13. v \in UI /\ v.list = order /\ v.z = z
  BY <1>5, <1>9, <1>12 DEF UI
<1>14. /\ Kept(u, v)
       /\ v.open = u.open /\ v.shown = u.shown /\ v.stage = u.stage
       /\ v.failed = u.failed /\ v.light = u.light /\ v.current = u.current
  BY <1>9 DEF UI, Kept
<1> QED BY <1>6, <1>7, <1>10, <1>11, <1>13, <1>14 DEF IsFronted

\* finishOpen raises the window and shows it.
LEMMA Finished ==
    ASSUME NEW u, Tidy(u), NEW w \in u.made, NEW v, v = FinishOpen(u, w)
    PROVE  /\ Tidy(v) /\ Kept(u, v)
           /\ v.stage = u.stage /\ v.failed = u.failed /\ v.light = u.light
           /\ v.open = u.open \cup {w}
           /\ v.current = IF w \in Modal THEN w ELSE u.current
           /\ \A x : In(x, v.list) <=> x = w \/ In(x, u.list)
<1>1. u \in UI /\ w \in Win /\ Distinct(u.list)
  BY DEF Tidy, UI, Listed
<1>2. PICK b : b = BringToFront(u, w)
  OBVIOUS
<1>0. b \in UI /\ Kept(u, b) /\ IsFronted(u, w, b)
  BY <1>1, <1>2, Fronted
<1>3. /\ b \in UI /\ Kept(u, b)
      /\ b.open = u.open /\ b.shown = u.shown /\ b.stage = u.stage
      /\ b.failed = u.failed /\ b.light = u.light /\ b.current = u.current
      /\ Distinct(b.list)
      /\ \A x : In(x, b.list) <=> x = w \/ In(x, u.list)
      /\ \A i \in DOMAIN b.list : b.z[b.list[i]] = i - 1
  BY <1>0 DEF IsFronted
<1>4. v = [b EXCEPT !.shown = @ \cup {w}, !.open = @ \cup {w},
                    !.current = IF w \in Modal THEN w ELSE @]
  <2>1. PICK c : c = [b EXCEPT !.shown = @ \cup {w}, !.open = @ \cup {w}]
    OBVIOUS
  <2>2. v = IF w \in Modal THEN [c EXCEPT !.current = w] ELSE c
    BY <1>2, <2>1 DEF FinishOpen
  <2> QED BY <1>3, <2>1, <2>2 DEF UI
<1>5. v \in UI /\ v.list = b.list /\ v.z = b.z
  <2>1. PICK c \in Win \cup {None} : c = IF w \in Modal THEN w ELSE b.current
    BY <1>1, <1>3 DEF UI
  <2>2. PICK S, T \in SUBSET Win : S = b.shown \cup {w} /\ T = b.open \cup {w}
    BY <1>1, <1>3 DEF UI
  <2>3. v = [b EXCEPT !.shown = S, !.open = T, !.current = c]
    BY <1>3, <1>4, <2>1, <2>2 DEF UI
  <2> QED BY <1>3, <2>3 DEF UI
<1>6. /\ Kept(u, v)
      /\ v.stage = u.stage /\ v.failed = u.failed /\ v.light = u.light
      /\ v.open = u.open \cup {w} /\ v.shown = u.shown \cup {w}
      /\ v.current = IF w \in Modal THEN w ELSE u.current
  BY <1>3, <1>4 DEF UI, Kept
<1>7. Made(v) /\ Waits(v) /\ Lit(v)
  BY <1>6 DEF Tidy, Kept, Made, Waits, Lit
<1>8. Listed(v)
  <2>1. \A i, j \in DOMAIN v.list : i < j => v.z[v.list[i]] < v.z[v.list[j]]
    <3>1. v.list \in Seq(Win)
      BY <1>5 DEF UI
    <3> QED BY <1>3, <1>5, <3>1
  <2>2. \A x \in Win : In(x, v.list) => x \in v.made
    BY <1>3, <1>5, <1>6 DEF Tidy, Listed, Kept
  <2> QED BY <1>3, <1>5, <2>1, <2>2 DEF Listed
<1> QED BY <1>3, <1>5, <1>6, <1>7, <1>8 DEF Tidy

\* The indicator goes out, the window waits for s and the requests of F failed.
Dark(u, w, s, F) == [u EXCEPT !.failed = @ \cup F, !.stage[w] = s, !.light[w] = "off"]

IsDark(u, w, s, F, v) ==
    /\ v.list = u.list /\ v.z = u.z /\ v.shown = u.shown /\ v.open = u.open
    /\ v.failed = u.failed \cup F /\ v.current = u.current
    /\ v.stage[w] = s /\ v.light[w] = "off"
    /\ \A x \in Win : x # w => v.stage[x] = u.stage[x] /\ v.light[x] = u.light[x]

\* The indicator goes out with what the window waited for.
LEMMA Darkened ==
    ASSUME NEW u, Tidy(u), NEW w \in Win, NEW s, s = "idle" \/ s = u.stage[w],
           NEW F, F \subseteq {w} \cap Remote,
           NEW v, v = Dark(u, w, s, F)
    PROVE  Tidy(v) /\ Kept(u, v) /\ IsDark(u, w, s, F, v)
<1>1. u \in UI /\ s \in Stages /\ F \subseteq Win
  BY DEF Tidy, UI, Stages
<1>2. v \in UI /\ Kept(u, v)
  BY <1>1 DEF Dark, UI, Lamps, Kept
<1>3. IsDark(u, w, s, F, v)
  BY <1>1 DEF Dark, UI, IsDark
<1>4. Made(v) /\ Waits(v) /\ Lit(v)
  BY <1>2, <1>3 DEF Tidy, IsDark, Made, Waits, Lit, Kept
<1>5. Listed(v)
  BY <1>2, <1>3 DEF Tidy, Listed, Kept, IsDark
<1> QED BY <1>2, <1>3, <1>4, <1>5 DEF Tidy

\* What close does before the window is closed: its request is aborted.
IsAborted(u, w, v) ==
    /\ v.open = u.open
    /\ w \notin Modal => v.current = u.current
    /\ u.failed \subseteq v.failed
    /\ \A x \in Win : x # w => v.stage[x] = u.stage[x]
    /\ \A x : In(x, v.list) => x = w \/ In(x, u.list)
    /\ \A x : In(x, u.list) => In(x, v.list)

\* The abort of close finishes the opening only of the window that is closed.
LEMMA Aborted ==
    ASSUME NEW u, Tidy(u), NEW w \in u.open, NEW v, v = HideIndicator(Abort(u, w), w)
    PROVE  Tidy(v) /\ Kept(u, v) /\ IsAborted(u, w, v)
<1>1. u \in UI /\ w \in Win /\ w \in u.made
  BY DEF Tidy, UI, Made
<1>2. CASE u.stage[w] # "request" \/ w \notin Remote
  <2>1. PICK F, s : F = {} /\ s = u.stage[w]
    OBVIOUS
  <2>2. v = Dark(u, w, s, F)
    BY <1>1, <1>2, <2>1 DEF Dark, Abort, HideIndicator, UI
  <2>3. /\ Tidy(v) /\ Kept(u, v) /\ v.list = u.list /\ v.open = u.open /\ v.current = u.current
        /\ v.failed = u.failed \cup F
        /\ \A x \in Win : x # w => v.stage[x] = u.stage[x]
    <3>1. F \subseteq {w} \cap Remote
      BY <2>1
    <3>2. s = "idle" \/ s = u.stage[w]
      BY <2>1
    <3>3. w \in Win
      BY <1>1
    <3>4. Tidy(v) /\ Kept(u, v) /\ IsDark(u, w, s, F, v)
      BY <2>2, <3>1, <3>2, <3>3, Darkened
    <3> QED BY <3>4 DEF IsDark
  <2> QED BY <2>1, <2>3 DEF IsAborted
<1>3. CASE u.stage[w] = "request" /\ w \in Remote
  <2>0. PICK F, s : F = {w} /\ s = "idle"
    OBVIOUS
  <2>1. PICK a : a = Dark(u, w, s, F)
    OBVIOUS
  <2>2. F \subseteq {w} \cap Remote
    BY <1>3, <2>0
  <2>3. /\ Tidy(a) /\ Kept(u, a) /\ a.list = u.list /\ a.open = u.open /\ a.current = u.current
        /\ a.light[w] = "off" /\ a.failed = u.failed \cup F
        /\ \A x \in Win : x # w => a.stage[x] = u.stage[x]
    <3>1. s = "idle" \/ s = u.stage[w]
      BY <2>0
    <3>2. w \in Win
      BY <1>1
    <3>3. Tidy(a) /\ Kept(u, a) /\ IsDark(u, w, s, F, a)
      BY <2>1, <2>2, <3>1, <3>2, Darkened
    <3> QED BY <3>3 DEF IsDark
  <2>4. CASE reports /\ w \notin Light
    <3>1. PICK b : b = FinishOpen(a, w)
      OBVIOUS
    <3>2. w \in a.made
      BY <1>1, <2>3 DEF Kept
    <3>3. /\ Tidy(b) /\ Kept(a, b)
          /\ b.stage = a.stage /\ b.failed = a.failed /\ b.light = a.light
          /\ b.open = a.open \cup {w}
          /\ b.current = IF w \in Modal THEN w ELSE a.current
          /\ \A x : In(x, b.list) <=> x = w \/ In(x, a.list)
      BY <2>3, <3>1, <3>2, Finished
    <3>4. v = b
      <4>1. PICK c : c = [u EXCEPT !.failed = @ \cup {w}]
        OBVIOUS
      <4>2. Abort(u, w) = FinishOpen([[c EXCEPT !.stage[w] = "idle"] EXCEPT !.light[w] = "off"], w)
        BY <1>3, <2>4, <4>1 DEF Abort, OnSuccess, HideIndicator
      <4>3. [[c EXCEPT !.stage[w] = "idle"] EXCEPT !.light[w] = "off"] = a
        BY <1>1, <2>0, <2>1, <4>1 DEF Dark, UI
      <4>4. [b EXCEPT !.light[w] = "off"] = b
        BY <1>1, <2>3, <3>3 DEF Tidy, UI
      <4> QED BY <3>1, <4>2, <4>3, <4>4 DEF HideIndicator
    <3> QED BY <1>1, <2>3, <3>3, <3>4 DEF Kept, IsAborted
  <2>5. CASE ~(reports /\ w \notin Light)
    <3>1. v = a
      BY <1>1, <1>3, <2>0, <2>1, <2>5 DEF Dark, Abort, HideIndicator, UI
    <3> QED BY <2>3, <3>1 DEF IsAborted
  <2> QED BY <2>4, <2>5
<1> QED BY <1>2, <1>3

\* What a window is closed with.
IsClosed(u, w, v) ==
    /\ v.made = u.made /\ v.gone = u.gone /\ v.loaded = u.loaded
    /\ v.open = u.open \ {w} /\ v.ready = u.ready \ {w}
    /\ w \in Modal => v.overlay = FALSE
    /\ w \notin Modal => v.overlay = u.overlay /\ v.current = u.current
    /\ u.failed \subseteq v.failed
    /\ \A x \in Win : x # w => v.stage[x] = u.stage[x]
    /\ \A x : In(x, v.onclick) <=> x # w /\ In(x, u.onclick)
    /\ \A x : In(x, v.list) => x = w \/ In(x, u.list)
    /\ \A x : In(x, u.list) => In(x, v.list)

\* A window is open no more when close returns, whatever its abort opened.
LEMMA Closed ==
    ASSUME NEW u, Tidy(u), NEW w \in u.open, NEW v, v = Close(u, w)
    PROVE  Tidy(v) /\ IsClosed(u, w, v)
<1>1. u \in UI /\ w \in Win
  BY DEF Tidy, UI
<1>2. PICK clicks \in Seq(Win) : /\ clicks = Without(u.onclick, w)
                                /\ \A x : In(x, clicks) <=> x # w /\ In(x, u.onclick)
  <2>1. PICK clicks : clicks = Without(u.onclick, w)
    OBVIOUS
  <2>2. u.onclick \in Seq(Win)
    BY <1>1 DEF UI
  <2>3. clicks \in Seq(Win) /\ \A x : In(x, clicks) <=> x # w /\ In(x, u.onclick)
    BY <2>1, <2>2, WithoutIs
  <2> QED BY <2>1, <2>3
<1>3. PICK a : a = [u EXCEPT !.onclick = clicks, !.shown = @ \ {w}]
  OBVIOUS
<1>4. /\ a \in UI /\ a.onclick = clicks /\ a.shown = u.shown \ {w}
      /\ a.list = u.list /\ a.made = u.made /\ a.gone = u.gone /\ a.open = u.open
      /\ a.z = u.z /\ a.loaded = u.loaded /\ a.stage = u.stage /\ a.failed = u.failed
      /\ a.light = u.light /\ a.overlay = u.overlay /\ a.ready = u.ready
      /\ a.current = u.current
  BY <1>1, <1>2, <1>3 DEF UI
<1>5. Tidy(a)
  BY <1>4 DEF Tidy, Made, Waits, Listed, Lit
<1>6. PICK b : b = HideIndicator(Abort(a, w), w)
  OBVIOUS
<1>7. Tidy(b) /\ Kept(a, b) /\ IsAborted(a, w, b)
  BY <1>4, <1>5, <1>6, Aborted
<1>8. v = AfterClose([b EXCEPT !.open = @ \ {w}], w)
  <2>1. a = [u EXCEPT !.onclick = Without(@, w), !.shown = @ \ {w}]
    BY <1>2, <1>3
  <2>2. Close(u, w) = AfterClose([HideIndicator(Abort(
                          [u EXCEPT !.onclick = Without(@, w), !.shown = @ \ {w}], w), w)
                          EXCEPT !.open = @ \ {w}], w)
    BY DEF Close
  <2> QED BY <1>6, <2>1, <2>2
<1>9. b \in UI
  BY <1>7 DEF Tidy
<1>10. CASE w \in Modal
  <2>1. v = [b EXCEPT !.open = @ \ {w}, !.overlay = FALSE, !.current = None, !.ready = @ \ {w}]
    BY <1>8, <1>9, <1>10 DEF AfterClose, HideOverlay, UI
  <2>2. /\ v \in UI /\ v.list = b.list /\ v.made = b.made /\ v.gone = b.gone
        /\ v.open = b.open \ {w} /\ v.shown = b.shown /\ v.z = b.z /\ v.loaded = b.loaded
        /\ v.stage = b.stage /\ v.failed = b.failed /\ v.light = b.light
        /\ v.overlay = FALSE /\ v.onclick = b.onclick /\ v.ready = b.ready \ {w}
        /\ v.current = None
    <3>1. PICK O, R \in SUBSET Win : O = b.open \ {w} /\ R = b.ready \ {w}
      BY <1>9 DEF UI
    <3>2. v = [b EXCEPT !.open = O, !.overlay = FALSE, !.current = None, !.ready = R]
      BY <1>9, <2>1, <3>1 DEF UI
    <3>3. v \in UI
      BY <1>9, <3>2 DEF UI
    <3> QED BY <1>9, <3>1, <3>2, <3>3 DEF UI
  <2>3. Tidy(v)
    BY <1>7, <2>2 DEF IsAborted, Kept, Tidy, Made, Waits, Listed, Lit
  <2>4. IsClosed(u, w, v)
    BY <1>2, <1>4, <1>7, <1>10, <2>2 DEF IsClosed, Kept, IsAborted
  <2> QED BY <2>3, <2>4
<1>11. CASE w \notin Modal
  <2>1. v = [b EXCEPT !.open = @ \ {w}]
    BY <1>8, <1>11 DEF AfterClose
  <2>2. /\ v \in UI /\ v.list = b.list /\ v.made = b.made /\ v.gone = b.gone
        /\ v.open = b.open \ {w} /\ v.shown = b.shown /\ v.z = b.z /\ v.loaded = b.loaded
        /\ v.stage = b.stage /\ v.failed = b.failed /\ v.light = b.light
        /\ v.overlay = b.overlay /\ v.onclick = b.onclick /\ v.ready = b.ready
        /\ v.current = b.current
    BY <1>9, <2>1 DEF UI
  <2>3. Tidy(v)
    BY <1>7, <2>2 DEF IsAborted, Kept, Tidy, Made, Waits, Listed, Lit
  <2>4. u.ready \ {w} = u.ready
    BY <1>11 DEF Tidy, Made
  <2>5. IsClosed(u, w, v)
    BY <1>2, <1>4, <1>7, <1>11, <2>2, <2>4 DEF IsClosed, Kept, IsAborted
  <2> QED BY <2>3, <2>5
<1> QED BY <1>10, <1>11

\* Closing one window takes the way out from no other.
LEMMA ClosedLeaves ==
    ASSUME NEW u, Tidy(u), NEW w \in u.open, NEW v, v = Close(u, w), NEW W, Leaves(u, W)
    PROVE  Leaves(v, W)
<1>1. Tidy(v) /\ IsClosed(u, w, v)
  BY Closed
<1>2. v.overlay => v.ready # {}
  BY <1>1 DEF IsClosed, Leaves, Tidy, Made
<1>3. ASSUME NEW x \in v.ready \ W PROVE Escape(v, x)
  <2>1. x # w /\ x \in u.ready \ W /\ x \in Win
    BY <1>1, <1>3 DEF IsClosed, Tidy, UI
  <2>2. Escape(u, x)
    BY <2>1 DEF Leaves
  <2> QED BY <1>1, <2>1, <2>2 DEF IsClosed, Escape
<1> QED BY <1>2, <1>3 DEF Leaves

\* What every close hands on holds when the last window of the list was closed.
LEMMA CloseEachHolds ==
    ASSUME NEW u, NEW list \in Seq(Win), NEW J, u \in J[0],
           \A n \in 0..Len(list) : J[n] \subseteq UI,
           \A n \in 1..Len(list) : \A x \in J[n - 1] : Close(x, list[n]) \in J[n]
    PROVE  CloseEach(u, list) \in J[Len(list)]
<1>0. PICK m \in Nat : m = Len(list) /\ 0 \in 0..m /\ m \in 0..m
  OBVIOUS
<1> DEFINE round == [p \in (1..m) \X UI |-> Close(p[2], list[p[1]])]
<1>1. \A n \in 1..m, x \in UI : round[<<n, x>>] = Close(x, list[n])
  OBVIOUS
<1> HIDE DEF round
<1>2. PICK g : Loop(g, m, u, round)
  BY <1>0, LoopExists
<1>3. \A n \in 0..m : g[n] = IF n = 0 THEN u ELSE round[<<n, g[n - 1]>>]
  BY <1>2 DEF Loop
<1>4. \A n \in 0..m : g[n] \in J[n]
  <2>1. g[0] \in J[0]
    <3>1. g[0] = u
      BY <1>0, <1>3, Zenon
    <3> QED BY <3>1
  <2>2. ASSUME NEW n \in 1..m, g[n - 1] \in J[n - 1] PROVE g[n] \in J[n]
    <3>1. n - 1 \in 0..m /\ n \in 0..m /\ n # 0
      OBVIOUS
    <3>2. g[n] = round[<<n, g[n - 1]>>]
      BY <1>3, <3>1
    <3>3. g[n - 1] \in UI
      BY <1>0, <2>2, <3>1
    <3>4. g[n] = Close(g[n - 1], list[n])
      BY <1>1, <3>2, <3>3
    <3> QED BY <1>0, <2>2, <3>4
  <2> QED BY <1>0, <2>1, <2>2, LoopHolds
<1> DEFINE Rounds(k) == k = [n \in 0..m |-> IF n = 0 THEN u ELSE Close(k[n - 1], list[n])]
<1>5. Rounds(g)
  <2>1. ASSUME NEW n \in 1..m PROVE g[n] = Close(g[n - 1], list[n])
    <3>1. n - 1 \in 0..m /\ n \in 0..m /\ n # 0
      OBVIOUS
    <3>2. g[n - 1] \in UI
      BY <1>0, <1>4, <3>1
    <3> QED BY <1>1, <1>3, <3>1, <3>2
  <2>2. \A n \in 0..m : g[n] = IF n = 0 THEN u ELSE Close(g[n - 1], list[n])
    <3> SUFFICES ASSUME NEW n \in 0..m
                 PROVE  g[n] = IF n = 0 THEN u ELSE Close(g[n - 1], list[n])
      OBVIOUS
    <3>1. CASE n = 0
      BY <1>3, <3>1
    <3>2. CASE n # 0
      <4>1. n \in 1..m
        BY <3>2
      <4> QED BY <2>1, <3>2, <4>1
    <3> QED BY <3>1, <3>2
  <2> QED BY <1>2, <2>2 DEF Loop
<1>6. PICK k : Rounds(k) /\ CloseEach(u, list) = k[m]
  BY <1>0, <1>5 DEF CloseEach
<1>7. \A n \in 0..m : k[n] \in J[n]
  <2>1. \A n \in 0..m : k[n] = IF n = 0 THEN u ELSE Close(k[n - 1], list[n])
    BY <1>6
  <2>2. k[0] \in J[0]
    <3>1. k[0] = u
      BY <1>0, <2>1, Zenon
    <3> QED BY <3>1
  <2>3. ASSUME NEW n \in 1..m, k[n - 1] \in J[n - 1] PROVE k[n] \in J[n]
    <3>1. n \in 0..m /\ n # 0
      OBVIOUS
    <3>2. k[n] = Close(k[n - 1], list[n])
      BY <2>1, <3>1
    <3> QED BY <1>0, <2>3, <3>2
  <2> QED BY <1>0, <2>2, <2>3, LoopHolds
<1> QED BY <1>0, <1>6, <1>7

\* No listed window that is open is modal.
NoModal(u) == \A x \in u.open : In(x, u.list) => x \notin Modal

\* What is left when some windows, and never w, were closed.
IsLeft(u, w, v) ==
    /\ v.made = u.made /\ v.loaded = u.loaded /\ v.open \subseteq u.open
    /\ w \in u.open => w \in v.open
    /\ w \in u.ready => w \in v.ready
    /\ w \in Win => v.stage[w] = u.stage[w]
    /\ \A x : In(x, v.list) <=> In(x, u.list)
    /\ NoModal(u) => v.overlay = u.overlay

\* Closing one more of the others.
LEMMA LeftStep ==
    ASSUME NEW u, NEW w, NEW v, Tidy(v), IsLeft(u, w, v), NEW x \in Win, x # w, In(x, u.list)
    PROVE  /\ Tidy(Close(v, x)) /\ IsLeft(u, w, Close(v, x))
           /\ Close(v, x).open = v.open \ {x}
<1>1. CASE x \notin v.open
  BY <1>1 DEF Close
<1>2. CASE x \in v.open
  <2>1. PICK c : c = Close(v, x)
    OBVIOUS
  <2>2. Tidy(c) /\ IsClosed(v, x, c)
    BY <1>2, <2>1, Closed
  <2>3. \A y : In(y, c.list) <=> In(y, u.list)
    BY <2>2 DEF IsClosed, IsLeft
  <2>4. NoModal(u) => c.overlay = u.overlay
    BY <1>2, <2>2 DEF IsClosed, IsLeft, NoModal
  <2>5. c.stage \in [Win -> Stages] /\ c.open = v.open \ {x}
    BY <2>2 DEF Tidy, UI, IsClosed
  <2>6. IsLeft(u, w, c)
    BY <2>2, <2>3, <2>4 DEF IsClosed, IsLeft
  <2> QED BY <2>1, <2>2, <2>5, <2>6
<1> QED BY <1>1, <1>2

\* The others are closed, each of those the list had at the call.
LEMMA OthersClosed ==
    ASSUME NEW u, Tidy(u), NEW w \in Win, NEW W, Leaves(u, W), NEW v, v = CloseOthers(u, w)
    PROVE  /\ Tidy(v) /\ Leaves(v, W) /\ IsLeft(u, w, v)
           /\ \A x \in v.open : x = w \/ ~In(x, u.list)
<1>1. PICK others : others = Without(u.list, w)
  OBVIOUS
<1>2. u.list \in Seq(Win)
  BY DEF Tidy, UI
<1>3. others \in Seq(Win) /\ \A x : In(x, others) <=> x # w /\ In(x, u.list)
  BY <1>1, <1>2, WithoutIs
<1>4. PICK m \in Nat : m = Len(others) /\ DOMAIN others = 1..m
  BY <1>3
<1> DEFINE Shut(x, K) == \A k \in K : others[k] \notin x.open
           J == [n \in 0..m |-> {x \in UI : /\ Tidy(x) /\ Leaves(x, W) /\ IsLeft(u, w, x)
                                           /\ Shut(x, 1..n)}]
<1>5. \A n \in 0..m : J[n] \subseteq UI
  OBVIOUS
<1>6. u \in J[0]
  <2>1. u \in UI /\ IsLeft(u, w, u) /\ Shut(u, 1..0)
    BY DEF Tidy, IsLeft
  <2> QED BY <1>4, <2>1
<1>7. ASSUME NEW n \in 1..m, NEW x \in J[n - 1] PROVE Close(x, others[n]) \in J[n]
  <2>1. x \in UI /\ Tidy(x) /\ Leaves(x, W) /\ IsLeft(u, w, x) /\ Shut(x, 1..(n - 1))
    BY <1>4, <1>7
  <2>2. PICK y \in Win : y = others[n] /\ y # w /\ In(y, u.list)
    <3>1. others[n] \in Win /\ In(others[n], others)
      BY <1>3, <1>4 DEF In
    <3> QED BY <1>3, <3>1
  <2>3. PICK c : c = Close(x, y)
    OBVIOUS
  <2>4. Tidy(c) /\ IsLeft(u, w, c) /\ c.open = x.open \ {y}
    BY <2>1, <2>2, <2>3, LeftStep
  <2>5. Leaves(c, W)
    <3>1. CASE y \in x.open
      BY <2>1, <2>3, <3>1, ClosedLeaves
    <3>2. CASE y \notin x.open
      BY <2>1, <2>3, <3>2 DEF Close
    <3> QED BY <3>1, <3>2
  <2>6. Shut(c, 1..n)
    <3>1. ASSUME NEW k \in 1..n PROVE others[k] \notin c.open
      <4>1. k \in 1..(n - 1) \/ k = n
        OBVIOUS
      <4> QED BY <2>1, <2>2, <2>4, <4>1
    <3> QED BY <3>1
  <2>7. c \in UI
    BY <2>4 DEF Tidy
  <2>8. n \in 0..m
    BY <1>4
  <2> HIDE DEF Shut
  <2> QED BY <2>2, <2>3, <2>4, <2>5, <2>6, <2>7, <2>8
<1>8. v \in J[m]
  <2> HIDE DEF J
  <2>1. CloseEach(u, others) \in J[Len(others)]
    BY <1>3, <1>4, <1>5, <1>6, <1>7, CloseEachHolds
  <2> QED BY <1>1, <1>4, <2>1 DEF CloseOthers
<1>9. Tidy(v) /\ Leaves(v, W) /\ IsLeft(u, w, v) /\ Shut(v, 1..m)
  BY <1>4, <1>8
<1>10. ASSUME NEW x \in v.open, x # w, In(x, u.list) PROVE FALSE
  <2>1. PICK k \in DOMAIN others : others[k] = x
    BY <1>3, <1>10 DEF In
  <2> QED BY <1>4, <1>9, <1>10, <2>1
<1> QED BY <1>9, <1>10

\* What beforeOpen leaves to be done for w, which is not open.
IsReady(u, w, v) ==
    /\ v.made = u.made /\ v.loaded = u.loaded /\ v.open \subseteq u.open
    /\ v.stage[w] = u.stage[w]
    /\ w \in Modal => \A x \in v.open : x = w \/ ~In(x, v.list)
    /\ w \in Modal /\ w \notin u.ready /\ NoModal(u) => v.overlay = TRUE

\* A modal window has the overlay and the page to itself before it opens.
LEMMA MadeReady ==
    ASSUME NEW u, Tidy(u), Leaves(u, {}), NEW w \in Win, w \notin u.open,
           NEW v, v = BeforeOpen(u, w)
    PROVE  Tidy(v) /\ Leaves(v, {w}) /\ IsReady(u, w, v)
<1>1. u \in UI
  BY DEF Tidy
<1>2. CASE w \notin Modal
  <2>1. v = u
    BY <1>2 DEF BeforeOpen
  <2>2. Leaves(u, {w})
    BY DEF Leaves
  <2> QED BY <1>2, <2>1, <2>2 DEF IsReady
<1>3. CASE w \in Modal
  <2>1. PICK a : a = IF w \in u.ready THEN u
                    ELSE [u EXCEPT !.overlay = TRUE, !.ready = @ \cup {w}]
    OBVIOUS
  <2>2. /\ a \in UI
        /\ a.list = u.list /\ a.made = u.made /\ a.gone = u.gone /\ a.open = u.open
        /\ a.shown = u.shown /\ a.z = u.z /\ a.loaded = u.loaded /\ a.stage = u.stage
        /\ a.failed = u.failed /\ a.light = u.light /\ a.onclick = u.onclick
        /\ a.ready = u.ready \cup {w} /\ a.current = u.current
        /\ w \notin u.ready => a.overlay = TRUE
        /\ w \in u.ready => a.overlay = u.overlay
    <3>1. CASE w \in u.ready
      <4>1. u.ready \cup {w} = u.ready
        BY <3>1
      <4> QED BY <1>1, <2>1, <3>1, <4>1
    <3>2. CASE w \notin u.ready
      BY <1>1, <2>1, <3>2 DEF UI
    <3> QED BY <3>1, <3>2
  <2>3. Tidy(a)
    BY <1>3, <2>2 DEF Tidy, Made, Waits, Listed, Lit
  <2>4. Leaves(a, {w})
    <3>1. \A x \in a.ready \ {w} : Escape(a, x)
      BY <2>2 DEF Leaves, Escape
    <3>2. a.overlay => a.ready # {}
      BY <2>2
    <3> QED BY <3>1, <3>2 DEF Leaves
  <2>5. v = CloseOthers(a, w)
    <3>1. CASE w \in u.ready
      BY <1>3, <2>1, <3>1 DEF BeforeOpen
    <3>2. CASE w \notin u.ready
      <4>1. [ShowOverlay(u) EXCEPT !.ready = @ \cup {w}] = a
        BY <1>1, <2>1, <3>2 DEF ShowOverlay, UI
      <4> QED BY <1>3, <3>2, <4>1 DEF BeforeOpen
    <3> QED BY <3>1, <3>2
  <2>6. /\ Tidy(v) /\ Leaves(v, {w}) /\ IsLeft(a, w, v)
        /\ \A x \in v.open : x = w \/ ~In(x, a.list)
    BY <2>3, <2>4, <2>5, OthersClosed
  <2>7. NoModal(u) => NoModal(a)
    BY <2>2 DEF NoModal
  <2>8. IsReady(u, w, v)
    BY <2>2, <2>6, <2>7 DEF IsLeft, IsReady
  <2> QED BY <2>6, <2>8
<1> QED BY <1>2, <1>3

\* A click on the overlay will close w, or w is no modal window of its own.
IsObserved(u, w, v) ==
    /\ v.made = u.made /\ v.loaded = u.loaded /\ v.open = u.open /\ v.stage = u.stage
    /\ v.list = u.list /\ v.overlay = u.overlay
    /\ w \in Modal \ Light => In(w, v.onclick)

\* From here a click on the overlay reaches the window that opens.
LEMMA Observed ==
    ASSUME NEW u, Tidy(u), NEW w \in Win, Leaves(u, {w}), NEW v, v = ObserveOverlay(u, w)
    PROVE  Tidy(v) /\ Leaves(v, {w}) /\ IsObserved(u, w, v)
<1>1. u \in UI /\ u.onclick \in Seq(Win)
  BY DEF Tidy, UI
<1>2. Contains(u.onclick, w) <=> In(w, u.onclick)
  BY <1>1 DEF Contains, In
<1>3. CASE w \in Modal \ Light /\ ~Contains(u.onclick, w)
  <2>1. PICK clicks : clicks = Append(u.onclick, w)
    OBVIOUS
  <2>2. clicks \in Seq(Win) /\ In(w, clicks) /\ \A x : In(x, u.onclick) => In(x, clicks)
    <3>1. /\ clicks \in Seq(Win) /\ DOMAIN clicks = 1..(Len(u.onclick) + 1)
          /\ clicks[Len(u.onclick) + 1] = w
          /\ \A i \in DOMAIN u.onclick : i \in DOMAIN clicks /\ clicks[i] = u.onclick[i]
      BY <1>1, <2>1
    <3>2. Len(u.onclick) + 1 \in DOMAIN clicks
      BY <1>1, <3>1
    <3> QED BY <3>1, <3>2 DEF In
  <2>3. v = [u EXCEPT !.onclick = clicks]
    BY <1>3, <2>1 DEF ObserveOverlay
  <2>4. /\ v \in UI /\ v.onclick = clicks
        /\ v.list = u.list /\ v.made = u.made /\ v.gone = u.gone /\ v.open = u.open
        /\ v.shown = u.shown /\ v.z = u.z /\ v.loaded = u.loaded /\ v.stage = u.stage
        /\ v.failed = u.failed /\ v.light = u.light /\ v.overlay = u.overlay
        /\ v.ready = u.ready /\ v.current = u.current
    BY <1>1, <2>2, <2>3 DEF UI
  <2>5. Tidy(v)
    BY <2>4 DEF Tidy, Made, Waits, Listed, Lit
  <2>6. Leaves(v, {w})
    BY <2>2, <2>4 DEF Leaves, Escape
  <2> QED BY <2>2, <2>4, <2>5, <2>6 DEF IsObserved
<1>4. CASE ~(w \in Modal \ Light /\ ~Contains(u.onclick, w))
  <2>1. v = u
    BY <1>4 DEF ObserveOverlay
  <2> QED BY <1>2, <1>4, <2>1 DEF IsObserved
<1> QED BY <1>3, <1>4

\* The window itself can be left when it waits for something or is open.
LEMMA LeavesAll ==
    ASSUME NEW u, Tidy(u), NEW w \in Win, Leaves(u, {w}),
           w \in Modal \ Light => In(w, u.onclick), u.stage[w] \notin {"idle", "frame"} \/ w \in u.open
    PROVE  Leaves(u, {})
  BY DEF Leaves, Escape, Tidy, Made

\* Showing a window takes the way out from none.
LEMMA FinishedLeaves ==
    ASSUME NEW u, Tidy(u), NEW w \in u.made, NEW W, Leaves(u, W), NEW v, v = FinishOpen(u, w)
    PROVE  Leaves(v, W)
<1>1. /\ Kept(u, v) /\ v.stage = u.stage /\ v.failed = u.failed
      /\ v.open = u.open \cup {w}
  BY Finished
<1> QED BY <1>1 DEF Leaves, Escape, Kept

\* The content of a link is asked for.
LEMMA Loaded ==
    ASSUME NEW u, Tidy(u), NEW w \in u.made \cap Linked, Leaves(u, {w}),
           w \in Modal \ Light => In(w, u.onclick), NEW v, v = Load(u, w)
    PROVE  Tidy(v) /\ Leaves(v, {}) /\ v.made = u.made /\ v.open \subseteq u.open \cup {w}
<1>1. u \in UI /\ w \in Win
  BY DEF Tidy, UI
<1>2. PICK s, l : /\ s = IF w \in Remote THEN "request" ELSE IF w \in Image THEN "image" ELSE "frame"
                  /\ l = IF w \in Image THEN u.light[w] ELSE "timer"
  OBVIOUS
<1>3. s \in Stages \ {"idle", "images"} /\ l \in Lamps
  BY <1>1, <1>2 DEF Stages, Lamps, UI
<1>4. PICK a : a = [u EXCEPT !.loaded = @ \cup {w}, !.stage[w] = s, !.light[w] = l]
  OBVIOUS
<1>5. /\ a \in UI
      /\ a.list = u.list /\ a.made = u.made /\ a.gone = u.gone /\ a.open = u.open
      /\ a.shown = u.shown /\ a.z = u.z /\ a.loaded = u.loaded \cup {w}
      /\ a.failed = u.failed /\ a.overlay = u.overlay /\ a.onclick = u.onclick
      /\ a.ready = u.ready /\ a.current = u.current
      /\ a.stage[w] = s /\ a.light[w] = l
      /\ \A x \in Win : x # w => a.stage[x] = u.stage[x] /\ a.light[x] = u.light[x]
  BY <1>1, <1>3, <1>4 DEF UI
<1>6. Tidy(a)
  <2>1. Made(a) /\ Listed(a)
    BY <1>1, <1>5 DEF Tidy, Made, Listed
  <2>2. Waits(a)
    BY <1>1, <1>2, <1>5 DEF Tidy, Waits, Linked
  <2>3. Lit(a)
    BY <1>1, <1>2, <1>3, <1>5, KindsAssumption DEF Tidy, Lit, Linked
  <2> QED BY <1>5, <2>1, <2>2, <2>3 DEF Tidy
<1>7. Leaves(a, {w})
  <2>1. \A x \in a.ready \ {w} : x \in Win /\ Escape(u, x)
    BY <1>1, <1>5 DEF Leaves, UI
  <2> QED BY <1>5, <2>1 DEF Leaves, Escape
<1>9. CASE w \in Framed
  <2>1. w \notin Remote /\ w \notin Image /\ s = "frame" /\ l = "timer"
    BY <1>2, <1>9, KindsAssumption
  <2>2. v = FinishOpen(a, w)
    <3>1. ShowIndicator([[u EXCEPT !.loaded = @ \cup {w}] EXCEPT !.stage[w] = "frame"], w) = a
      BY <1>1, <1>4, <2>1 DEF ShowIndicator, UI
    <3> QED BY <1>9, <2>1, <3>1 DEF Load
  <2>3. w \in a.made
    BY <1>5
  <2>4. Tidy(v) /\ Kept(a, v) /\ v.open = a.open \cup {w}
    BY <1>6, <2>2, <2>3, Finished
  <2>5. Leaves(v, {w})
    BY <1>6, <1>7, <2>2, <2>3, FinishedLeaves
  <2>6. (w \in Modal \ Light => In(w, v.onclick)) /\ w \in v.open
    BY <1>5, <2>4 DEF Kept
  <2>7. Leaves(v, {})
    BY <1>1, <2>4, <2>5, <2>6, LeavesAll
  <2> QED BY <1>5, <2>4, <2>7 DEF Kept
<1>10. CASE w \notin Framed
  <2>1. v = a
    <3>1. CASE w \in Remote
      BY <1>1, <1>2, <1>4, <3>1, KindsAssumption DEF Load, ShowIndicator, UI
    <3>2. CASE w \in Image
      <4>1. w \notin Remote /\ s = "image" /\ l = u.light[w]
        BY <1>2, <3>2, KindsAssumption
      <4>2. [u.light EXCEPT ![w] = l] = u.light
        BY <1>1, <4>1 DEF UI
      <4>3. a = [u EXCEPT !.loaded = @ \cup {w}, !.stage[w] = s]
        BY <1>1, <1>4, <4>2 DEF UI
      <4>4. v = [[u EXCEPT !.loaded = @ \cup {w}] EXCEPT !.stage[w] = "image"]
        BY <1>10, <3>2, <4>1 DEF Load
      <4> QED BY <1>1, <4>1, <4>3, <4>4 DEF UI
    <3> QED BY <1>10, <3>1, <3>2 DEF Linked
  <2>2. a.stage[w] \notin {"idle", "frame"}
    BY <1>2, <1>5, <1>10 DEF Linked
  <2>3. Leaves(a, {})
    BY <1>1, <1>5, <1>6, <1>7, <2>2, LeavesAll
  <2> QED BY <1>5, <1>6, <2>1, <2>3
<1> QED BY <1>9, <1>10

\* A mouse button over a window, or open for one that is open, only raises it.
LEMMA Raised ==
    ASSUME NEW u, Tidy(u), Leaves(u, {}), NEW w \in u.made, NEW v, v = BringToFront(u, w)
    PROVE  Tidy(v) /\ Leaves(v, {}) /\ v.made = u.made /\ v.open = u.open
<1>1. u \in UI /\ w \in Win /\ Distinct(u.list)
  BY DEF Tidy, UI, Listed
<1>0. v \in UI /\ Kept(u, v) /\ IsFronted(u, w, v)
  BY <1>1, Fronted
<1>2. /\ v \in UI /\ Kept(u, v)
      /\ v.open = u.open /\ v.shown = u.shown /\ v.stage = u.stage
      /\ v.failed = u.failed /\ v.light = u.light /\ v.current = u.current
      /\ Distinct(v.list)
      /\ \A x : In(x, v.list) <=> x = w \/ In(x, u.list)
      /\ \A i \in DOMAIN v.list : v.z[v.list[i]] = i - 1
  BY <1>0 DEF IsFronted
<1>3. Listed(v)
  <2>1. \A i, j \in DOMAIN v.list : i < j => v.z[v.list[i]] < v.z[v.list[j]]
    <3>1. v.list \in Seq(Win)
      BY <1>2 DEF UI
    <3> QED BY <1>2, <3>1
  <2>2. \A x \in Win : In(x, v.list) => x \in v.made
    BY <1>2 DEF Tidy, Listed, Kept
  <2> QED BY <1>2, <2>1, <2>2 DEF Listed
<1>4. Made(v) /\ Waits(v) /\ Lit(v) /\ Leaves(v, {})
  BY <1>2 DEF Tidy, Kept, Made, Waits, Lit, Leaves, Escape
<1> QED BY <1>2, <1>3, <1>4 DEF Tidy, Kept

\* Whatever way open takes, it keeps the invariant and opens no other window.
LEMMA Opened ==
    ASSUME NEW u, Tidy(u), Leaves(u, {}), NEW w \in u.made, NEW v, v = Open(u, w)
    PROVE  Tidy(v) /\ Leaves(v, {}) /\ v.made = u.made /\ v.open \subseteq u.open \cup {w}
<1>1. w \in Win
  BY DEF Tidy, UI
<1>2. CASE w \in u.open
  <2>1. v = BringToFront(u, w)
    BY <1>2 DEF Open
  <2> QED BY <2>1, Raised
<1>3. CASE w \notin u.open
  <2>1. PICK a : a = BeforeOpen(u, w)
    OBVIOUS
  <2>2. Tidy(a) /\ Leaves(a, {w}) /\ IsReady(u, w, a)
    BY <1>1, <1>3, <2>1, MadeReady
  <2>3. CASE Refused(a, w)
    <3>1. v = a /\ w \in Light
      BY <1>3, <2>1, <2>3 DEF Open, Refused
    <3>2. Leaves(a, {})
      BY <2>2, <3>1 DEF Leaves, Escape
    <3> QED BY <2>2, <3>1, <3>2 DEF IsReady
  <2>4. CASE ~Refused(a, w)
    <3>1. PICK b : b = ObserveOverlay(a, w)
      OBVIOUS
    <3>2. Tidy(b) /\ Leaves(b, {w}) /\ IsObserved(a, w, b)
      BY <1>1, <2>2, <3>1, Observed
    <3>3. b.made = u.made /\ b.open \subseteq u.open /\ (w \in Modal \ Light => In(w, b.onclick))
      BY <2>2, <3>2 DEF IsReady, IsObserved
    <3>4. v = IF w \in Linked \ b.loaded THEN Load(b, w) ELSE FinishOpen(b, w)
      BY <1>3, <2>1, <2>4, <3>1 DEF Open
    <3>5. CASE w \in Linked \ b.loaded
      <4>1. w \in b.made \cap Linked /\ v = Load(b, w)
        BY <3>3, <3>4, <3>5
      <4>2. Tidy(v) /\ Leaves(v, {}) /\ v.made = b.made /\ v.open \subseteq b.open \cup {w}
        BY <3>2, <3>3, <4>1, Loaded
      <4> QED BY <3>3, <4>2
    <3>6. CASE w \notin Linked \ b.loaded
      <4>1. w \in b.made /\ v = FinishOpen(b, w)
        BY <3>3, <3>4, <3>6
      <4>2. Tidy(v) /\ Kept(b, v) /\ v.open = b.open \cup {w}
        BY <3>2, <4>1, Finished
      <4>3. Leaves(v, {w})
        BY <3>2, <4>1, FinishedLeaves
      <4>4. w \in Modal \ Light => In(w, v.onclick)
        BY <3>3, <4>2 DEF Kept
      <4>5. Leaves(v, {})
        BY <1>1, <4>2, <4>3, <4>4, LeavesAll
      <4> QED BY <3>3, <4>2, <4>5 DEF Kept
    <3> QED BY <3>5, <3>6
  <2> QED BY <2>3, <2>4
<1> QED BY <1>2, <1>3

\* The open windows of the list are w alone, over the overlay if no other was modal.
IsAlone(u, w, v) ==
    /\ \A x : x \in v.open /\ In(x, v.list) <=> x = w
    /\ NoModal(u) => v.overlay = TRUE /\ v.current = w

\* A modal window of the page opens at once, and alone.
LEMMA OpenedAlone ==
    ASSUME NEW u, Tidy(u), Leaves(u, {}), NEW w \in u.made \cap Modal, w \notin Light \cup Linked,
           w \notin u.open, NEW v, v = Open(u, w)
    PROVE  IsAlone(u, w, v)
<1>1. w \in Win
  BY DEF Tidy, UI
<1>2. w \notin u.ready
  <2>1. u.stage[w] \in Stages
    BY <1>1 DEF Tidy, UI
  <2>2. u.stage[w] = "idle"
    BY <1>1, <2>1 DEF Tidy, Waits, Linked, Stages
  <2>3. w \notin u.failed
    BY DEF Tidy, Made, Linked
  <2> QED BY <2>2, <2>3 DEF Leaves, Escape
<1>3. PICK a : a = BeforeOpen(u, w)
  OBVIOUS
<1>4. Tidy(a) /\ Leaves(a, {w}) /\ IsReady(u, w, a)
  BY <1>1, <1>3, MadeReady
<1>5. PICK b : b = ObserveOverlay(a, w)
  OBVIOUS
<1>6. Tidy(b) /\ Leaves(b, {w}) /\ IsObserved(a, w, b)
  BY <1>1, <1>4, <1>5, Observed
<1>7. v = FinishOpen(b, w) /\ w \in b.made
  BY <1>3, <1>4, <1>5, <1>6 DEF Open, Refused, IsReady, IsObserved
<1>8. /\ Kept(b, v) /\ v.open = b.open \cup {w}
      /\ v.current = IF w \in Modal THEN w ELSE b.current
      /\ \A x : In(x, v.list) <=> x = w \/ In(x, b.list)
  BY <1>6, <1>7, Finished
<1>9. \A x \in b.open : x = w \/ ~In(x, b.list)
  BY <1>4, <1>6 DEF IsReady, IsObserved
<1>10. NoModal(u) => v.overlay = TRUE
  BY <1>2, <1>4, <1>6, <1>8 DEF IsReady, IsObserved, Kept
<1> QED BY <1>8, <1>9, <1>10 DEF IsAlone
-------------------------------------------------------------------------------
(* The steps. *)

\* Every state has this between two methods.
IInv == Tidy(ui) /\ Leaves(ui, {})

\* What a step from u to v has to keep; it opens only windows of W.
Good(u, v, W) == Tidy(v) /\ Leaves(v, {}) /\ v.open \subseteq u.open \cup W

LEMMA CloseGood ==
    ASSUME NEW u, Tidy(u), Leaves(u, {}), NEW w, NEW v, v = Close(u, w)
    PROVE  Good(u, v, {})
<1>1. CASE w \in u.open
  <2>1. Tidy(v) /\ IsClosed(u, w, v)
    BY <1>1, Closed
  <2>2. Leaves(v, {})
    BY <1>1, ClosedLeaves
  <2> QED BY <2>1, <2>2 DEF Good, IsClosed
<1>2. CASE w \notin u.open
  BY <1>2 DEF Close, Good
<1> QED BY <1>1, <1>2

LEMMA CloseEachGood ==
    ASSUME NEW u, Tidy(u), Leaves(u, {}), NEW list \in Seq(Win), NEW v, v = CloseEach(u, list)
    PROVE  Good(u, v, {})
<1>0. PICK m \in Nat : m = Len(list)
  OBVIOUS
<1> DEFINE J == [n \in 0..m |-> {x \in UI : Good(u, x, {})}]
<1>1. \A n \in 0..m : J[n] \subseteq UI
  OBVIOUS
<1>2. u \in J[0]
  BY <1>0 DEF Good, Tidy
<1>3. ASSUME NEW n \in 1..m, NEW x \in J[n - 1] PROVE Close(x, list[n]) \in J[n]
  <2>1. n \in 0..m /\ n - 1 \in 0..m
    BY <1>0
  <2>2. Good(u, x, {})
    BY <2>1
  <2>3. PICK c : c = Close(x, list[n])
    OBVIOUS
  <2>4. Good(x, c, {})
    BY <2>2, <2>3, CloseGood DEF Good
  <2>5. Good(u, c, {}) /\ c \in UI
    BY <2>2, <2>4 DEF Good, Tidy
  <2> QED BY <2>1, <2>3, <2>5
<1>4. J[m] = {x \in UI : Good(u, x, {})}
  BY <1>0
<1> HIDE DEF J
<1>5. CloseEach(u, list) \in J[Len(list)]
  BY <1>0, <1>1, <1>2, <1>3, CloseEachHolds
<1> QED BY <1>0, <1>4, <1>5

LEMMA NewGood ==
    ASSUME IInv, NEW w \in Win, New(w)
    PROVE  Good(ui, ui', {})
<1>1. PICK u, v : u = ui /\ v = ui'
  OBVIOUS
<1>2. /\ Tidy(u) /\ Leaves(u, {}) /\ u \in UI /\ u.list \in Seq(Win) /\ w \notin u.made
  BY <1>1 DEF IInv, Tidy, UI, New
<1>3. PICK n, list, s : n = Len(u.list) /\ list = Append(u.list, w)
                        /\ s = IF w \in Light \ Remote THEN "images" ELSE "idle"
  OBVIOUS
<1>4. v = [u EXCEPT !.made = @ \cup {w}, !.list = list, !.z[w] = n, !.stage[w] = s]
  BY <1>1, <1>3 DEF New
<1>5. /\ n \in Nat /\ list \in Seq(Win) /\ s \in Stages
      /\ DOMAIN list = 1..(n + 1) /\ DOMAIN u.list = 1..n /\ list[n + 1] = w
      /\ \A i \in 1..n : list[i] = u.list[i]
  BY <1>2, <1>3 DEF Stages
<1>6. /\ v \in UI /\ v.list = list /\ v.made = u.made \cup {w} /\ v.gone = u.gone
      /\ v.open = u.open /\ v.shown = u.shown /\ v.loaded = u.loaded /\ v.failed = u.failed
      /\ v.light = u.light /\ v.overlay = u.overlay /\ v.onclick = u.onclick
      /\ v.ready = u.ready /\ v.current = u.current /\ v.stage[w] = s
      /\ \A x \in Win : x # w => v.stage[x] = u.stage[x] /\ v.z[x] = u.z[x]
  <2>1. PICK M, z, stage : /\ M = u.made \cup {w} /\ z = [u.z EXCEPT ![w] = n]
                           /\ stage = [u.stage EXCEPT ![w] = s]
    OBVIOUS
  <2>2. M \in SUBSET Win /\ z \in [Win -> Int] /\ stage \in [Win -> Stages]
    BY <1>2, <1>5, <2>1 DEF UI
  <2>3. /\ stage[w] = s
        /\ \A x \in Win : x # w => stage[x] = u.stage[x] /\ z[x] = u.z[x]
    BY <1>2, <2>1 DEF UI
  <2>4. v = [u EXCEPT !.made = M, !.list = list, !.z = z, !.stage = stage]
    BY <1>2, <1>4, <2>1 DEF UI
  <2>5. v \in UI
    BY <1>2, <1>5, <2>2, <2>4 DEF UI
  <2>6. /\ v.list = list /\ v.made = M /\ v.gone = u.gone
        /\ v.open = u.open /\ v.shown = u.shown /\ v.loaded = u.loaded /\ v.failed = u.failed
        /\ v.light = u.light /\ v.overlay = u.overlay /\ v.onclick = u.onclick
        /\ v.ready = u.ready /\ v.current = u.current /\ v.stage = stage /\ v.z = z
    BY <1>2, <2>4 DEF UI
  <2> QED BY <2>1, <2>3, <2>5, <2>6
<1>7. u.stage[w] = "idle" /\ w \notin u.open /\ u.light[w] = "off"
  BY <1>2 DEF Tidy, Made, Lit
<1>8. Made(v) /\ Waits(v) /\ Lit(v)
  <2>1. Made(v)
    BY <1>2, <1>6 DEF Tidy, Made
  <2>2. Waits(v)
    BY <1>2, <1>3, <1>6 DEF Tidy, Waits
  <2>3. Lit(v)
    BY <1>2, <1>6, <1>7 DEF Tidy, Lit
  <2> QED BY <2>1, <2>2, <2>3
<1>9. \A i \in 1..n : u.list[i] # w /\ u.list[i] \in u.made /\ u.list[i] \in Win
  BY <1>2, <1>5 DEF Tidy, Listed, In
<1>10. Distinct(list)
  BY <1>2, <1>5, <1>9 DEF Tidy, Listed, Distinct
<1>11. Listed(v)
  <2>1. \A x \in Win : In(x, list) => x \in v.made
    BY <1>5, <1>6, <1>9 DEF In
  <2>2. ASSUME NEW i \in DOMAIN list, NEW j \in DOMAIN list, i < j,
               list[i] \in v.open, list[j] \in v.open
        PROVE  v.z[list[i]] < v.z[list[j]]
    <3>1. i # n + 1 /\ j # n + 1
      BY <1>5, <1>6, <1>7, <2>2
    <3>2. i \in 1..n /\ j \in 1..n
      BY <1>5, <2>2, <3>1
    <3>3. u.z[u.list[i]] < u.z[u.list[j]]
      BY <1>2, <1>5, <1>6, <2>2, <3>2 DEF Tidy, Listed
    <3> QED BY <1>5, <1>6, <1>9, <3>2, <3>3
  <2> QED BY <1>6, <1>10, <2>1, <2>2 DEF Listed
<1>12. Leaves(v, {})
  <2>1. \A x \in v.ready : Escape(v, x)
    <3>1. ASSUME NEW x \in v.ready PROVE Escape(v, x)
      <4>1. Escape(u, x) /\ x \in Win
        BY <1>2, <1>6, <3>1 DEF Leaves, UI
      <4> QED BY <1>6, <1>7, <4>1 DEF Escape
    <3> QED BY <3>1
  <2> QED BY <1>2, <1>6, <2>1 DEF Leaves
<1>13. Good(u, v, {})
  BY <1>6, <1>8, <1>11, <1>12 DEF Good, Tidy
<1> QED BY <1>1, <1>13

LEMMA DestroyGood ==
    ASSUME IInv, NEW w \in Win, Destroy(w)
    PROVE  Good(ui, ui', {})
<1>1. PICK u, v : u = ui /\ v = ui'
  OBVIOUS
<1>2. /\ Tidy(u) /\ Leaves(u, {}) /\ u \in UI /\ u.list \in Seq(Win) /\ w \in u.made
  BY <1>1 DEF IInv, Tidy, UI, Destroy, Live
<1>3. PICK list, S : list = Without(u.list, w) /\ S = IF w \in Linked THEN u.shown ELSE u.shown \ {w}
  OBVIOUS
<1>4. /\ list \in Seq(Win)
      /\ Distinct(u.list) => Distinct(list)
      /\ \A x : In(x, list) <=> x # w /\ In(x, u.list)
      /\ \A i, j \in DOMAIN list :
            i < j => \E k, l \in DOMAIN u.list : k < l /\ u.list[k] = list[i] /\ u.list[l] = list[j]
  BY <1>2, <1>3, WithoutIs
<1>5. S \subseteq u.shown /\ S \in SUBSET Win
  BY <1>2, <1>3 DEF UI
<1>6. v = [u EXCEPT !.gone = @ \cup {w}, !.list = list, !.shown = S]
  BY <1>1, <1>3 DEF Destroy
<1>7. /\ v \in UI /\ v.list = list /\ v.made = u.made /\ v.gone = u.gone \cup {w}
      /\ v.open = u.open /\ v.shown = S /\ v.loaded = u.loaded /\ v.failed = u.failed
      /\ v.light = u.light /\ v.overlay = u.overlay /\ v.onclick = u.onclick
      /\ v.ready = u.ready /\ v.current = u.current /\ v.stage = u.stage /\ v.z = u.z
  BY <1>2, <1>4, <1>5, <1>6 DEF UI
<1>8. Made(v) /\ Waits(v) /\ Lit(v) /\ Leaves(v, {})
  BY <1>2, <1>5, <1>7 DEF Tidy, Made, Waits, Lit, Leaves, Escape
<1>9. Listed(v)
  <2>1. Distinct(list) /\ \A x \in Win : In(x, list) => x \in v.made
    BY <1>2, <1>4, <1>7 DEF Tidy, Listed
  <2>2. ASSUME NEW i \in DOMAIN list, NEW j \in DOMAIN list, i < j,
               list[i] \in v.open, list[j] \in v.open
        PROVE  v.z[list[i]] < v.z[list[j]]
    <3>1. PICK k, l \in DOMAIN u.list : k < l /\ u.list[k] = list[i] /\ u.list[l] = list[j]
      BY <1>4, <2>2
    <3>2. u.z[u.list[k]] < u.z[u.list[l]]
      BY <1>2, <1>7, <2>2, <3>1 DEF Tidy, Listed
    <3> QED BY <1>7, <3>1, <3>2
  <2> QED BY <1>7, <2>1, <2>2 DEF Listed
<1>10. Good(u, v, {})
  BY <1>7, <1>8, <1>9 DEF Good, Tidy
<1> QED BY <1>1, <1>10

\* Only the window whose waiting is over may have lost its way out by that.
LEMMA DarkLeaves ==
    ASSUME NEW u, Tidy(u), Leaves(u, {}), NEW w \in Win, NEW s, NEW F, NEW v,
           Kept(u, v), IsDark(u, w, s, F, v)
    PROVE  Leaves(v, {w})
<1>1. ASSUME NEW x \in v.ready \ {w} PROVE Escape(v, x)
  <2>1. Escape(u, x) /\ x \in Win /\ x # w
    BY <1>1 DEF Leaves, Kept, Tidy, UI
  <2> QED BY <2>1 DEF Escape, Kept, IsDark
<1> QED BY <1>1 DEF Leaves, Kept

\* A modal window that opens can be left.
LEMMA FinishedGood ==
    ASSUME NEW u, Tidy(u), Leaves(u, {}), NEW w \in u.made, u.stage[w] # "idle", w \notin Light,
           u.stage[w] # "frame", NEW v, v = FinishOpen(Dark(u, w, "idle", {}), w)
    PROVE  Good(u, v, {w})
<1>1. PICK s, F, a : s = "idle" /\ F = {} /\ a = Dark(u, w, s, F)
  OBVIOUS
<1>2. w \in Win /\ F \subseteq {w} \cap Remote /\ (s = "idle" \/ s = u.stage[w])
  BY <1>1 DEF Tidy, UI
<1>3. Tidy(a) /\ Kept(u, a) /\ IsDark(u, w, s, F, a)
  BY <1>1, <1>2, Darkened
<1>4. Leaves(a, {w})
  BY <1>2, <1>3, DarkLeaves
<1>5. w \in a.made /\ v = FinishOpen(a, w)
  BY <1>1, <1>3 DEF Kept
<1>6. Tidy(v) /\ Kept(a, v) /\ v.open = a.open \cup {w}
  BY <1>3, <1>5, Finished
<1>7. Leaves(v, {w})
  BY <1>3, <1>4, <1>5, FinishedLeaves
<1>8. Leaves(v, {})
  <2>1. CASE w \notin v.ready
    BY <1>7, <2>1 DEF Leaves
  <2>2. CASE w \in v.ready
    <3>1. w \in u.ready /\ a.onclick = u.onclick /\ v.onclick = a.onclick
      BY <1>3, <1>6, <2>2 DEF Kept
    <3>2. Escape(u, w)
      BY <3>1 DEF Leaves
    <3>3. In(w, v.onclick) /\ w \in v.open
      BY <1>6, <3>1, <3>2 DEF Escape
    <3> QED BY <1>2, <1>6, <1>7, <3>3, LeavesAll
  <2> QED BY <2>1, <2>2
<1>9. a.open = u.open
  BY <1>3 DEF IsDark
<1> QED BY <1>6, <1>8, <1>9 DEF Good

\* The end of a wait, the way the handlers write it.
LEMMA DarkIs ==
    ASSUME NEW u, Tidy(u), NEW w \in Win
    PROVE  HideIndicator([u EXCEPT !.stage[w] = "idle"], w) = Dark(u, w, "idle", {})
  BY DEF HideIndicator, Dark, Tidy, UI

LEMMA AnswerGood ==
    ASSUME IInv, NEW w \in Win, Answer(w)
    PROVE  Good(ui, ui', {w})
<1>1. PICK u, v : u = ui /\ v = ui'
  OBVIOUS
<1>2. /\ Tidy(u) /\ Leaves(u, {}) /\ u \in UI /\ w \in Remote
      /\ u.stage[w] = "request" /\ w \in u.made /\ v = OnSuccess(u, w)
  BY <1>1 DEF IInv, Tidy, Made, Answer
<1>3. CASE w \in Light
  <2>1. v = [u EXCEPT !.stage[w] = "images"]
    BY <1>2, <1>3 DEF OnSuccess
  <2>2. PICK stage : stage = [u.stage EXCEPT ![w] = "images"]
    OBVIOUS
  <2>3. /\ stage \in [Win -> Stages] /\ stage[w] = "images"
        /\ \A x \in Win : x # w => stage[x] = u.stage[x]
    BY <1>2, <2>2 DEF UI, Stages
  <2>4. v = [u EXCEPT !.stage = stage]
    BY <1>2, <2>1, <2>2 DEF UI
  <2>5. /\ v \in UI /\ v.stage = stage
        /\ v.list = u.list /\ v.made = u.made /\ v.gone = u.gone /\ v.open = u.open
        /\ v.shown = u.shown /\ v.z = u.z /\ v.loaded = u.loaded /\ v.failed = u.failed
        /\ v.light = u.light /\ v.overlay = u.overlay /\ v.onclick = u.onclick
        /\ v.ready = u.ready /\ v.current = u.current
    BY <1>2, <2>3, <2>4 DEF UI
  <2>6. Made(v) /\ Waits(v) /\ Lit(v) /\ Listed(v)
    BY <1>2, <1>3, <2>3, <2>5 DEF Tidy, Made, Waits, Lit, Listed
  <2>7. \A x \in v.ready : Escape(v, x)
    <3>1. ASSUME NEW x \in v.ready PROVE Escape(v, x)
      <4>1. Escape(u, x) /\ x \in Win
        BY <1>2, <2>5, <3>1 DEF Leaves, UI
      <4> QED BY <1>3, <2>3, <2>5, <4>1 DEF Escape
    <3> QED BY <3>1
  <2>8. Good(u, v, {w})
    BY <1>2, <2>5, <2>6, <2>7 DEF Good, Tidy, Leaves
  <2> QED BY <1>1, <2>8
<1>4. CASE w \notin Light
  <2>1. v = FinishOpen(Dark(u, w, "idle", {}), w)
    BY <1>2, <1>4, DarkIs DEF OnSuccess
  <2>2. Good(u, v, {w})
    BY <1>2, <1>4, <2>1, FinishedGood
  <2> QED BY <1>1, <2>2
<1> QED BY <1>3, <1>4

LEMMA FailsGood ==
    ASSUME IInv, NEW w \in Win, Fails(w)
    PROVE  Good(ui, ui', {})
<1>1. PICK u, v : u = ui /\ v = ui'
  OBVIOUS
<1>2. /\ Tidy(u) /\ Leaves(u, {}) /\ u \in UI /\ w \in Remote
      /\ v = HideIndicator([u EXCEPT !.stage[w] = "idle", !.failed = @ \cup {w}], w)
  BY <1>1 DEF IInv, Tidy, Fails
<1>3. PICK s, F : s = "idle" /\ F = {w}
  OBVIOUS
<1>4. v = Dark(u, w, s, F)
  BY <1>2, <1>3 DEF HideIndicator, Dark, UI
<1>5. F \subseteq {w} \cap Remote /\ (s = "idle" \/ s = u.stage[w])
  BY <1>2, <1>3
<1>6. Tidy(v) /\ Kept(u, v) /\ IsDark(u, w, s, F, v)
  BY <1>2, <1>4, <1>5, Darkened
<1>7. Leaves(v, {w})
  BY <1>2, <1>6, DarkLeaves
<1>8. w \in v.ready => Escape(v, w)
  <2> SUFFICES ASSUME w \in v.ready PROVE Escape(v, w)
    OBVIOUS
  <2>1. Escape(u, w) /\ v.onclick = u.onclick /\ w \in v.failed
    BY <1>2, <1>3, <1>6 DEF Leaves, Kept, IsDark
  <2> QED BY <2>1 DEF Escape
<1>9. Leaves(v, {})
  BY <1>7, <1>8 DEF Leaves
<1>10. v.open = u.open
  BY <1>6 DEF IsDark
<1>11. Good(u, v, {})
  BY <1>6, <1>9, <1>10 DEF Good
<1> QED BY <1>1, <1>11

LEMMA ImageGood ==
    ASSUME IInv, NEW w \in Win, ImageLoads(w)
    PROVE  w \in Image /\ Good(ui, ui', {w})
<1>1. PICK u, v : u = ui /\ v = ui'
  OBVIOUS
<1>2. /\ Tidy(u) /\ Leaves(u, {}) /\ w \in Image /\ u.stage[w] = "image" /\ w \in u.made
      /\ v = FinishOpen(HideIndicator([u EXCEPT !.stage[w] = "idle"], w), w)
  BY <1>1 DEF IInv, Tidy, Made, Waits, ImageLoads
<1>3. w \notin Light
  BY <1>2, KindsAssumption
<1>4. v = FinishOpen(Dark(u, w, "idle", {}), w)
  BY <1>2, DarkIs
<1>5. Good(u, v, {w})
  BY <1>2, <1>3, <1>4, FinishedGood
<1> QED BY <1>1, <1>2, <1>5

LEMMA FrameGood ==
    ASSUME IInv, NEW w \in Win, FrameLoads(w)
    PROVE  Good(ui, ui', {})
<1>1. PICK u, v : u = ui /\ v = ui'
  OBVIOUS
<1>2. /\ Tidy(u) /\ Leaves(u, {}) /\ u.stage[w] = "frame"
      /\ v = HideIndicator([u EXCEPT !.stage[w] = "idle"], w)
  BY <1>1 DEF IInv, FrameLoads
<1>3. PICK s, F : s = "idle" /\ F = {}
  OBVIOUS
<1>10. F \subseteq {w} \cap Remote
  BY <1>3
<1>4. v = Dark(u, w, s, F)
  BY <1>2, <1>3, DarkIs
<1>5. Tidy(v) /\ Kept(u, v) /\ IsDark(u, w, s, F, v)
  BY <1>2, <1>3, <1>4, <1>10, Darkened
<1>6. Leaves(v, {w})
  BY <1>2, <1>5, DarkLeaves
<1>7. w \in v.ready => Escape(v, w)
  <2> SUFFICES ASSUME w \in v.ready PROVE Escape(v, w)
    OBVIOUS
  <2>1. Escape(u, w) /\ v.onclick = u.onclick /\ v.open = u.open /\ u.failed \subseteq v.failed
    BY <1>2, <1>5 DEF Leaves, Kept, IsDark
  <2> QED BY <1>2, <2>1 DEF Escape
<1>8. Leaves(v, {}) /\ v.open = u.open
  BY <1>5, <1>6, <1>7 DEF Leaves, IsDark
<1>9. Good(u, v, {})
  BY <1>5, <1>8 DEF Good
<1> QED BY <1>1, <1>9

\* A lightbox, which may be left whatever it waits for, is ready to open.
LEMMA ImagesGood ==
    ASSUME IInv, NEW w \in Win, ImagesLoad(w)
    PROVE  w \in Light /\ Good(ui, ui', {w})
<1>1. PICK u, v : u = ui /\ v = ui'
  OBVIOUS
<1>2. /\ Tidy(u) /\ Leaves(u, {}) /\ u \in UI /\ u.stage[w] = "images"
      /\ w \in u.made /\ w \in Light
      /\ w \in Remote => v = FinishOpen(HideIndicator([u EXCEPT !.stage[w] = "idle"], w), w)
      /\ w \notin Remote => v = Open([u EXCEPT !.stage[w] = "idle"], w)
  BY <1>1 DEF IInv, Tidy, Made, Waits, ImagesLoad
<1>3. PICK s, F, a : s = "idle" /\ F = {} /\ a = Dark(u, w, s, F)
  OBVIOUS
<1>4. F \subseteq {w} \cap Remote /\ (s = "idle" \/ s = u.stage[w])
  BY <1>3
<1>5. Tidy(a) /\ Kept(u, a) /\ IsDark(u, w, s, F, a)
  BY <1>2, <1>3, <1>4, Darkened
<1>6. w \in a.made /\ a.open = u.open
  BY <1>2, <1>5 DEF Kept, IsDark
<1>7. Leaves(a, {})
  <2>1. Leaves(a, {w})
    BY <1>2, <1>5, DarkLeaves
  <2> QED BY <1>2, <2>1 DEF Leaves, Escape
<1>8. Good(u, v, {w})
  <2>1. CASE w \in Remote
    <3>1. v = FinishOpen(a, w)
      BY <1>2, <1>3, <2>1, DarkIs
    <3>2. Tidy(v) /\ v.open = a.open \cup {w}
      BY <1>5, <1>6, <3>1, Finished
    <3>3. Leaves(v, {})
      BY <1>5, <1>6, <1>7, <3>1, FinishedLeaves
    <3> QED BY <1>6, <3>2, <3>3 DEF Good
  <2>2. CASE w \notin Remote
    <3>1. u.light[w] = "off"
      BY <1>2, <2>2, KindsAssumption DEF Tidy, Lit
    <3>2. PICK b : b = [u EXCEPT !.stage[w] = "idle"]
      OBVIOUS
    <3>3. b.light = u.light
      BY <1>2, <3>2 DEF UI
    <3>4. HideIndicator(b, w) = b
      <4>1. [b.light EXCEPT ![w] = "off"] = b.light
        BY <1>2, <3>1, <3>3 DEF UI
      <4> QED BY <1>2, <3>2, <4>1 DEF HideIndicator, UI
    <3>5. b = a
      BY <1>2, <1>3, <3>2, <3>4, DarkIs
    <3>6. v = Open(a, w)
      BY <1>2, <2>2, <3>2, <3>5
    <3>7. Tidy(v) /\ Leaves(v, {}) /\ v.open \subseteq a.open \cup {w}
      BY <1>5, <1>6, <1>7, <3>6, Opened
    <3> QED BY <1>6, <3>7 DEF Good
  <2> QED BY <2>1, <2>2
<1> QED BY <1>1, <1>2, <1>8

LEMMA TimerGood ==
    ASSUME IInv, NEW w \in Win, Timer(w)
    PROVE  Good(ui, ui', {})
<1>1. PICK u, v : u = ui /\ v = ui'
  OBVIOUS
<1>2. /\ Tidy(u) /\ Leaves(u, {}) /\ u \in UI /\ u.light[w] = "timer"
      /\ v = [u EXCEPT !.light[w] = "on"]
  BY <1>1 DEF IInv, Tidy, Timer
<1>3. PICK light : light = [u.light EXCEPT ![w] = "on"]
  OBVIOUS
<1>4. /\ light \in [Win -> Lamps] /\ light[w] = "on"
      /\ \A x \in Win : x # w => light[x] = u.light[x]
  BY <1>2, <1>3 DEF UI, Lamps
<1>5. v = [u EXCEPT !.light = light]
  BY <1>2, <1>3 DEF UI
<1>6. /\ v \in UI /\ v.light = light /\ v.stage = u.stage
      /\ v.list = u.list /\ v.made = u.made /\ v.gone = u.gone /\ v.open = u.open
      /\ v.shown = u.shown /\ v.z = u.z /\ v.loaded = u.loaded /\ v.failed = u.failed
      /\ v.overlay = u.overlay /\ v.onclick = u.onclick
      /\ v.ready = u.ready /\ v.current = u.current
  BY <1>2, <1>4, <1>5 DEF UI
<1>7. Lit(v)
  BY <1>2, <1>4, <1>6 DEF Tidy, Lit
<1>8. Good(u, v, {})
  BY <1>2, <1>6, <1>7 DEF Good, Tidy, Made, Waits, Listed, Leaves, Escape
<1> QED BY <1>1, <1>8

LEMMA MouseDownGood ==
    ASSUME IInv, NEW w \in Win, MouseDown(w)
    PROVE  Good(ui, ui', {})
<1>1. PICK u, v : u = ui /\ v = ui'
  OBVIOUS
<1>2. Tidy(u) /\ Leaves(u, {}) /\ w \in u.made /\ v = BringToFront(u, w)
  BY <1>1 DEF IInv, MouseDown, Live
<1>3. Tidy(v) /\ Leaves(v, {}) /\ v.open = u.open
  BY <1>2, Raised
<1>4. Good(u, v, {})
  BY <1>3 DEF Good
<1> QED BY <1>1, <1>4

LEMMA UserOpenGood ==
    ASSUME IInv, NEW w \in Win, UserOpen(w)
    PROVE  w \in ui.made /\ ui' = Open(ui, w) /\ Good(ui, ui', {w})
<1>1. PICK u, v : u = ui /\ v = ui'
  OBVIOUS
<1>2. Tidy(u) /\ Leaves(u, {}) /\ w \in u.made /\ v = Open(u, w)
  BY <1>1 DEF IInv, UserOpen, Live
<1>3. Tidy(v) /\ Leaves(v, {}) /\ v.open \subseteq u.open \cup {w}
  BY <1>2, Opened
<1>4. Good(u, v, {w})
  BY <1>3 DEF Good
<1> QED BY <1>1, <1>2, <1>4

LEMMA UserCloseGood ==
    ASSUME IInv, NEW w, ui' = Close(ui, w)
    PROVE  Good(ui, ui', {})
<1>1. PICK u, v : u = ui /\ v = ui'
  OBVIOUS
<1>2. Tidy(u) /\ Leaves(u, {}) /\ v = Close(u, w)
  BY <1>1 DEF IInv
<1>3. Good(u, v, {})
  BY <1>2, CloseGood
<1> QED BY <1>1, <1>3

LEMMA ClickOverlayGood ==
    ASSUME IInv, ClickOverlay
    PROVE  Good(ui, ui', {})
<1>1. PICK u, v, list : u = ui /\ v = ui' /\ list = ui.onclick
  OBVIOUS
<1>2. Tidy(u) /\ Leaves(u, {}) /\ list \in Seq(Win) /\ v = CloseEach(u, list)
  BY <1>1 DEF IInv, ClickOverlay, Tidy, UI
<1>3. Good(u, v, {})
  BY <1>2, CloseEachGood
<1> QED BY <1>1, <1>3

\* A step opens windows of links and lightboxes, or the one it was asked for.
LEMMA StepGood ==
    ASSUME IInv, Next
    PROVE  \/ Good(ui, ui', Light \cup Linked)
           \/ \E w \in Win : UserOpen(w) /\ Good(ui, ui', {w})
<1>1. CASE CloseCurrent
  <2>1. Good(ui, ui', {})
    BY <1>1, UserCloseGood DEF CloseCurrent
  <2> QED BY <2>1 DEF Good
<1>2. CASE ClickOverlay
  <2>1. Good(ui, ui', {})
    BY <1>2, ClickOverlayGood
  <2> QED BY <2>1 DEF Good
<1>3. ASSUME NEW w \in Win, UserOpen(w) PROVE Good(ui, ui', {w})
  BY <1>3, UserOpenGood
<1>4. ASSUME NEW w \in Win,
             New(w) \/ UserClose(w) \/ MouseDown(w) \/ Destroy(w) \/ Fails(w) \/ FrameLoads(w) \/ Timer(w)
      PROVE  Good(ui, ui', Light \cup Linked)
  <2>1. Good(ui, ui', {})
    <3>1. CASE New(w) BY <3>1, NewGood
    <3>2. CASE UserClose(w)
      <4>1. ui' = Close(ui, w) BY <3>2 DEF UserClose
      <4> QED BY <4>1, UserCloseGood
    <3>3. CASE MouseDown(w) BY <3>3, MouseDownGood
    <3>4. CASE Destroy(w) BY <3>4, DestroyGood
    <3>5. CASE Fails(w) BY <3>5, FailsGood
    <3>6. CASE FrameLoads(w) BY <3>6, FrameGood
    <3>7. CASE Timer(w) BY <3>7, TimerGood
    <3> QED BY <1>4, <3>1, <3>2, <3>3, <3>4, <3>5, <3>6, <3>7
  <2> QED BY <2>1 DEF Good
<1>5. ASSUME NEW w \in Win, Answer(w) \/ ImageLoads(w) \/ ImagesLoad(w)
      PROVE  Good(ui, ui', Light \cup Linked)
  <2>1. w \in Light \cup Linked /\ Good(ui, ui', {w})
    <3>1. CASE Answer(w)
      <4>1. w \in Remote BY <3>1 DEF Answer
      <4> QED BY <3>1, <4>1, AnswerGood DEF Linked
    <3>2. CASE ImageLoads(w) BY <3>2, ImageGood DEF Linked
    <3>3. CASE ImagesLoad(w) BY <3>3, ImagesGood
    <3> QED BY <1>5, <3>1, <3>2, <3>3
  <2> QED BY <2>1 DEF Good
<1> QED BY <1>1, <1>2, <1>3, <1>4, <1>5 DEF Next

LEMMA InitIInv == Init => IInv
<1> SUFFICES ASSUME Init PROVE IInv
  OBVIOUS
<1>1. PICK u : u = ui
  OBVIOUS
<1>2. /\ u = [list |-> <<>>, made |-> {}, gone |-> {}, open |-> {}, shown |-> {},
              z |-> [w \in Win |-> 0], loaded |-> {}, stage |-> [w \in Win |-> "idle"],
              failed |-> {}, light |-> [w \in Win |-> "off"], overlay |-> FALSE,
              onclick |-> <<>>, ready |-> {}, current |-> None]
  BY <1>1 DEF Init
<1>3. PICK z, stage, light, none : /\ z = [w \in Win |-> 0] /\ stage = [w \in Win |-> "idle"]
                             /\ light = [w \in Win |-> "off"] /\ none = <<>>
  OBVIOUS
<1>4. /\ z \in [Win -> Int] /\ stage \in [Win -> Stages] /\ light \in [Win -> Lamps]
      /\ none \in Seq(Win) /\ DOMAIN none = {}
      /\ \A w \in Win : stage[w] = "idle" /\ light[w] = "off"
  BY <1>3 DEF Stages, Lamps
<1>5. /\ u \in UI /\ u.list = none /\ u.made = {} /\ u.gone = {} /\ u.open = {}
      /\ u.shown = {} /\ u.loaded = {} /\ u.failed = {} /\ u.overlay = FALSE
      /\ u.ready = {} /\ u.current = None /\ u.stage = stage /\ u.light = light
  BY <1>2, <1>3, <1>4 DEF UI
<1>6. Tidy(u)
  BY <1>4, <1>5 DEF Tidy, Made, Waits, Listed, Distinct, In, Lit
<1>7. Leaves(u, {})
  BY <1>5 DEF Leaves
<1> QED BY <1>1, <1>6, <1>7 DEF IInv

LEMMA NextIInv == IInv /\ [Next]_vars => IInv'
<1>1. CASE IInv /\ Next
  <2>1. \E W : Good(ui, ui', W)
    BY <1>1, StepGood
  <2> QED BY <2>1 DEF Good, IInv
<1>2. CASE IInv /\ UNCHANGED vars
  BY <1>2 DEF IInv, vars
<1> QED BY <1>1, <1>2

LEMMA Invariant == Spec => []IInv
  BY InitIInv, NextIInv, PTL DEF Spec
-------------------------------------------------------------------------------
\* A window is listed once, and of two open windows the one brought to the
\* front later has the higher level, however many were made and destroyed.
THEOREM LaterIsAbove == Spec => []Layered
<1>1. IInv => Layered
  <2>1. ASSUME IInv, NEW i \in DOMAIN ui.list, NEW j \in DOMAIN ui.list, i < j
        PROVE  /\ ui.list[i] # ui.list[j]
               /\ {ui.list[i], ui.list[j]} \subseteq ui.open => ui.z[ui.list[i]] < ui.z[ui.list[j]]
    <3>1. ui.list \in Seq(Win) /\ Listed(ui)
      BY <2>1 DEF IInv, Tidy, UI
    <3>2. i # j
      BY <2>1, <3>1
    <3> QED BY <2>1, <3>1, <3>2 DEF Listed, Distinct
  <2> QED BY <2>1 DEF Layered
<1> QED BY <1>1, Invariant, PTL

\* While the overlay covers the page there is a modal window it was shown for;
\* a click on the overlay closes each of these, now or when it is answered,
\* but those whose request failed, whose image is not there, and lightboxes.
THEOREM ClickCloses == Spec => []Dismissable
<1>1. IInv => Dismissable
  <2> SUFFICES ASSUME IInv, NEW w \in ui.ready PROVE Leavable(w) \/ Stranded(w)
    BY DEF IInv, Leaves, Dismissable
  <2>1. Escape(ui, w) /\ w \in Win /\ ui.stage[w] \in Stages
    BY DEF IInv, Leaves, Tidy, UI
  <2>2. In(w, ui.onclick) => Contains(ui.onclick, w)
    BY DEF IInv, Tidy, UI, In, Contains
  <2>3. CASE w \in Light
    BY <2>3 DEF Stranded
  <2>4. CASE w \in ui.open /\ w \notin Light
    BY <2>1, <2>2, <2>4 DEF Escape, Leavable
  <2>5. CASE w \notin ui.open /\ w \notin Light
    <3>1. /\ In(w, ui.onclick)
          /\ ui.stage[w] \in {"request", "image", "images"} \/ w \in ui.failed
      BY <2>1, <2>5 DEF Escape, Stages
    <3>2. ui.stage[w] # "images" /\ (w \in ui.failed => ui.stage[w] # "frame")
      BY <2>1, <2>5, KindsAssumption DEF IInv, Tidy, Made, Waits
    <3>3. ui.stage[w] \in {"idle", "request", "image", "frame", "images"}
      BY <2>1 DEF Stages
    <3> QED BY <2>2, <2>5, <3>1, <3>2, <3>3 DEF Leavable, Stranded
  <2> QED BY <2>3, <2>4, <2>5
<1> QED BY <1>1, Invariant, PTL

\* The loading indicator, and the timer that would show it, are off for every
\* window that waits for nothing: answered, failed, aborted or closed.
THEOREM IndicatorsGo == Spec => []IndicatorGoes
<1>1. IInv => IndicatorGoes
  BY DEF IInv, Tidy, Lit, IndicatorGoes
<1> QED BY <1>1, Invariant, PTL

\* What ModalAlone says of one step.
Alone == \A w \in Modal \ (Light \cup Linked) :
            w \in ui'.open \ ui.open =>
               /\ ui'.open \cap Range(ui'.list) = {w}
               /\ ui.open \cap Modal \cap Range(ui.list) = {} => ui'.overlay /\ ui'.current = w

\* The step that opens a modal window of the page closes every other listed
\* window, and when none of them was modal, the overlay is up and it is current.
THEOREM ModalsOpenAlone == Spec => ModalAlone
<1>1. IInv /\ [Next]_vars => [Alone]_vars
  <2> SUFFICES ASSUME IInv, Next,
                      NEW w \in Modal \ (Light \cup Linked), w \in ui'.open \ ui.open
               PROVE  /\ ui'.open \cap Range(ui'.list) = {w}
                      /\ ui.open \cap Modal \cap Range(ui.list) = {} => ui'.overlay /\ ui'.current = w
    BY DEF Alone
  <2>1. UserOpen(w)
    BY StepGood DEF Good
  <2>2. PICK u, v : u = ui /\ v = ui'
    OBVIOUS
  <2>3. /\ Tidy(u) /\ Leaves(u, {}) /\ w \in u.made \cap Modal /\ w \notin Light \cup Linked
        /\ w \notin u.open /\ v = Open(u, w)
    BY <2>1, <2>2 DEF IInv, UserOpen, Live
  <2>4. IsAlone(u, w, v)
    BY <2>3, OpenedAlone
  <2>5. \A x, list : x \in Range(list) <=> In(x, list)
    BY DEF Range, In
  <2>6. v.open \cap Range(v.list) = {w}
    BY <2>4, <2>5 DEF IsAlone
  <2>7. u.open \cap Modal \cap Range(u.list) = {} => NoModal(u)
    BY <2>5 DEF NoModal
  <2> QED BY <2>2, <2>4, <2>6, <2>7 DEF IsAlone
<1> QED BY <1>1, Invariant, PTL DEF Spec, ModalAlone, Alone

-----------------------------------------------------------------------------
(* Object.Event: the lists of observers and notify. *)

Entry == [o : Observer, once : Nat]

Idle == Plain("idle")

\* Each entry of s was at its place in the list or further on.
Forward(s, list) == \A i \in 1..Len(s) : \E k \in 1..Len(list) : i <= k /\ list[k] = s[i]

\* without keeps the order, so what is left is no further on than it was.
LEMMA WithoutForward ==
    ASSUME NEW list \in Seq(Entry), IsInjective(list), NEW e, NEW s, s = WithoutOne(list, e)
    PROVE  /\ s \in Seq(Entry) /\ IsInjective(s) /\ Forward(s, list)
           /\ \A x : x \in Range(s) <=> x # e /\ x \in Range(list)
<1>1. s = Without(list, e)
  BY DEF WithoutOne, Without
<1>2. s \in Seq(Entry) /\ Picks(s, list, e, DOMAIN list)
  BY <1>1, WithoutPicks
<1>3. PICK m, n : m = Len(list) /\ n = Len(s)
  OBVIOUS
<1>d. m \in Nat /\ n \in Nat /\ DOMAIN list = 1..m /\ DOMAIN s = 1..n
  BY <1>2, <1>3
<1>4. /\ \A i \in 1..n : s[i] # e /\ \E k \in 1..m : list[k] = s[i]
      /\ \A i, j \in 1..n : i < j => \E k, l \in 1..m : k < l /\ list[k] = s[i] /\ list[l] = s[j]
      /\ \A k \in 1..m : list[k] # e => \E i \in 1..n : s[i] = list[k]
  BY <1>2, <1>3, <1>d DEF Picks
<1>5. \A k, l \in 1..m : list[k] = list[l] => k = l
  BY <1>d DEF IsInjective
<1>6. ASSUME NEW i \in 1..n, NEW j \in 1..n, i < j PROVE s[i] # s[j]
  BY <1>4, <1>5, <1>6
<1>7. IsInjective(s)
  <2>1. \A i, j \in 1..n : s[i] = s[j] => i = j
    BY <1>d, <1>6
  <2> QED BY <1>d, <2>1 DEF IsInjective
<1>8. \A x : x \in Range(s) <=> x # e /\ x \in Range(list)
  <2>1. \A x : x \in Range(list) <=> \E k \in 1..m : list[k] = x
    BY <1>d DEF Range
  <2>2. \A x : x \in Range(s) <=> \E k \in 1..n : s[k] = x
    BY <1>d DEF Range
  <2> QED BY <1>4, <2>1, <2>2
<1>9. Forward(s, list)
  <2> DEFINE T == {i \in 1..n : \E k \in 1..m : list[k] = s[i] /\ k < i}
  <2>1. T = {}
    <3> SUFFICES ASSUME T # {} PROVE FALSE
      OBVIOUS
    <3>1. T \in SUBSET Nat
      BY <1>d
    <3>2. PICK i \in T : \A j \in T : ~ (j < i)
      BY <3>1, Least
    <3>3. PICK k \in 1..m : list[k] = s[i] /\ k < i
      BY <3>2
    <3>4. i \in 1..n /\ i - 1 \in 1..n /\ i - 1 < i
      BY <1>d, <3>3
    <3>5. PICK h, l \in 1..m : h < l /\ list[h] = s[i - 1] /\ list[l] = s[i]
      BY <1>4, <3>4
    <3>6. l = k
      BY <1>5, <3>3, <3>5
    <3>7. h < i - 1
      BY <1>d, <3>3, <3>4, <3>5, <3>6
    <3>8. i - 1 \in T
      BY <3>4, <3>5, <3>7
    <3> QED BY <3>2, <3>4, <3>8
  <2>2. ASSUME NEW i \in 1..n PROVE \E k \in 1..m : i <= k /\ list[k] = s[i]
    <3>1. PICK k \in 1..m : list[k] = s[i]
      BY <1>4
    <3>2. ~(k < i)
      BY <2>1, <3>1
    <3>3. i <= k
      BY <1>d, <3>2
    <3> QED BY <3>1, <3>3
  <2> QED BY <1>3, <2>2 DEF Forward
<1> QED BY <1>2, <1>7, <1>8, <1>9

\* What one observer may make of the list: entries leave and "idle" comes last;
\* "idle" itself leaves with all others only.
IsAfter(list, s) ==
    /\ s \in Seq(Entry) /\ IsInjective(s)
    /\ Range(s) \subseteq Range(list) \cup {Idle}
    /\ Idle \in Range(list) /\ s # <<>> => Idle \in Range(s)
    /\ \A i \in 1..Len(s) : \/ s[i] = Idle /\ Idle \notin Range(list)
                            \/ \E k \in 1..Len(list) : i <= k /\ list[k] = s[i]

IsAppended(list, e, s) ==
    /\ Range(s) = Range(list) \cup {e} /\ Len(s) = Len(list) + 1
    /\ s[Len(list) + 1] = e /\ \A i \in 1..Len(list) : s[i] = list[i]
    /\ IsInjective(list) /\ e \notin Range(list) => IsInjective(s)

\* An entry put last leaves the others where they are.
LEMMA AppendedIs ==
    ASSUME NEW S, NEW list \in Seq(S), NEW e \in S, NEW s, s = Append(list, e)
    PROVE  s \in Seq(S) /\ IsAppended(list, e, s)
<1>1. PICK n : n = Len(list)
  OBVIOUS
<1>2. /\ n \in Nat /\ DOMAIN list = 1..n /\ s \in Seq(S) /\ DOMAIN s = 1..(n + 1)
      /\ s[n + 1] = e /\ Len(s) = n + 1 /\ \A i \in 1..n : s[i] = list[i]
  BY <1>1
<1>3. \A i \in 1..(n + 1) : i \in 1..n \/ i = n + 1
  BY <1>2
<1>4. n + 1 \in 1..(n + 1) /\ \A i \in 1..n : i \in 1..(n + 1)
  BY <1>2
<1>5. Range(s) = Range(list) \cup {e}
  <2>1. \A x : x \in Range(list) <=> \E k \in 1..n : list[k] = x
    BY <1>2 DEF Range
  <2>2. \A x : x \in Range(s) <=> \E k \in 1..(n + 1) : s[k] = x
    BY <1>2 DEF Range
  <2> QED BY <1>2, <1>3, <1>4, <2>1, <2>2
<1>6. ASSUME IsInjective(list), e \notin Range(list) PROVE IsInjective(s)
  <2>1. \A i \in 1..n : s[i] # e
    BY <1>2, <1>6 DEF Range
  <2>2. \A i, j \in 1..n : s[i] = s[j] => i = j
    BY <1>2, <1>6 DEF IsInjective
  <2>3. \A i, j \in 1..(n + 1) : s[i] = s[j] => i = j
    BY <1>2, <1>3, <2>1, <2>2
  <2> QED BY <1>2, <2>3 DEF IsInjective
<1> QED BY <1>1, <1>2, <1>5, <1>6 DEF IsAppended

\* The empty list.
LEMMA NoneIs ==
    ASSUME NEW S, NEW s, s = <<>>
    PROVE  s \in Seq(S) /\ Range(s) = {} /\ IsInjective(s) /\ Len(s) = 0
<1>1. s \in Seq(S) /\ Len(s) = 0 /\ DOMAIN s = {}
  OBVIOUS
<1> QED BY <1>1 DEF Range, IsInjective

\* What observe puts on a list.
LEMMA PlainIs ==
    ASSUME NEW x \in Observer
    PROVE  Plain(x) \in Entry /\ Plain(x).once = 0 /\ Plain(x).o = x
BY DEF Plain, Entry

\* observe.
LEMMA WithPlainIs ==
    ASSUME NEW list \in Seq(Entry), IsInjective(list), NEW x \in Observer,
           NEW s, s = WithPlain(list, x)
    PROVE  /\ s \in Seq(Entry) /\ IsInjective(s) /\ Range(s) = Range(list) \cup {Plain(x)}
           /\ \/ s = list /\ Plain(x) \in Range(list)
              \/ s = Append(list, Plain(x)) /\ Plain(x) \notin Range(list)
<1>1. PICK e : e = Plain(x)
  OBVIOUS
<1>2. e \in Entry
  BY <1>1, PlainIs
<1>3. Contains(list, e) <=> e \in Range(list)
  BY DEF Contains, Range
<1>4. CASE e \in Range(list)
  <2>1. s = list
    BY <1>1, <1>3, <1>4 DEF WithPlain
  <2> QED BY <1>1, <1>4, <2>1
<1>5. CASE e \notin Range(list)
  <2>1. s = Append(list, e)
    BY <1>1, <1>3, <1>5 DEF WithPlain
  <2>2. s \in Seq(Entry) /\ IsAppended(list, e, s)
    BY <1>2, <2>1, AppendedIs
  <2>3. Range(s) = Range(list) \cup {e} /\ IsInjective(s)
    BY <1>5, <2>2 DEF IsAppended
  <2> QED BY <1>1, <1>5, <2>1, <2>2, <2>3
<1> QED BY <1>4, <1>5

\* A list nobody changed.
LEMMA SameIsAfter ==
    ASSUME NEW list \in Seq(Entry), IsInjective(list)
    PROVE  IsAfter(list, list)
<1>1. PICK m : m = Len(list) /\ m \in Nat
  OBVIOUS
<1>2. \A i \in 1..m : i <= i
  BY <1>1
<1> QED BY <1>1, <1>2 DEF IsAfter

\* What any outer observer makes of the list, case by case.
LEMMA AfterIs ==
    ASSUME NEW list \in Seq(Entry), IsInjective(list), NEW x \in Observer,
           NEW s, s = After(list, x)
    PROVE  IsAfter(list, s)
<1>1. CASE x = "quit"
  <2>1. s = WithoutOne(list, Plain("quit"))
    BY <1>1 DEF After
  <2>2. /\ s \in Seq(Entry) /\ IsInjective(s) /\ Forward(s, list)
        /\ \A y : y \in Range(s) <=> y # Plain("quit") /\ y \in Range(list)
    BY <2>1, WithoutForward
  <2>3. Idle # Plain("quit")
    BY DEF Idle, Plain
  <2> QED BY <2>2, <2>3 DEF IsAfter, Forward
<1>2. CASE x \in {"clear", "reset"}
  <2>1. s = <<>>
    BY <1>2 DEF After
  <2>2. s \in Seq(Entry) /\ Range(s) = {} /\ IsInjective(s) /\ Len(s) = 0
    BY <2>1, NoneIs
  <2> QED BY <2>1, <2>2 DEF IsAfter
<1>3. CASE x = "add"
  <2>1. s = WithPlain(list, "idle") /\ "idle" \in Observer
    BY <1>3 DEF After, Observer
  <2>2. /\ s \in Seq(Entry) /\ IsInjective(s) /\ Range(s) = Range(list) \cup {Idle}
        /\ \/ s = list /\ Idle \in Range(list)
           \/ s = Append(list, Idle) /\ Idle \notin Range(list)
    BY <2>1, WithPlainIs DEF Idle
  <2>3. CASE s = list
    BY <2>3, SameIsAfter
  <2>4. CASE s = Append(list, Idle) /\ Idle \notin Range(list)
    <3>1. PICK m : m = Len(list) /\ m \in Nat
      OBVIOUS
    <3>2. Idle \in Entry
      BY <2>1, PlainIs DEF Idle
    <3>3. Len(s) = m + 1 /\ s[m + 1] = Idle /\ \A i \in 1..m : s[i] = list[i]
      BY <2>4, <3>1, <3>2, AppendedIs DEF IsAppended
    <3>4. \A i \in 1..(m + 1) : i = m + 1 \/ (i \in 1..m /\ i <= i)
      BY <3>1
    <3> QED BY <2>2, <2>4, <3>1, <3>3, <3>4 DEF IsAfter
  <2> QED BY <2>2, <2>3, <2>4
<1>4. CASE x \notin {"quit", "clear", "reset", "add"}
  <2>1. s = list
    BY <1>4 DEF After
  <2> QED BY <2>1, SameIsAfter
<1> QED BY <1>1, <1>2, <1>3, <1>4

\* What Call makes of the list for the entry e.
LEMMA CalledIs ==
    ASSUME NEW list \in Seq(Entry), IsInjective(list), NEW e \in Entry, NEW a, a = After(list, e.o),
           NEW s, s = IF e.once # 0 /\ e.o # "veto" THEN WithoutOne(a, e) ELSE a
    PROVE  IsAfter(list, s) /\ (e.once # 0 /\ e.o # "veto" => e \notin Range(s))
<1>1. e.o \in Observer
  BY DEF Entry
<1>2. IsAfter(list, a)
  BY <1>1, AfterIs
<1>3. CASE e.once # 0 /\ e.o # "veto"
  <2>1. s = WithoutOne(a, e)
    BY <1>3
  <2>2. a \in Seq(Entry) /\ IsInjective(a)
    BY <1>2 DEF IsAfter
  <2>3. /\ s \in Seq(Entry) /\ IsInjective(s) /\ Forward(s, a)
        /\ \A y : y \in Range(s) <=> y # e /\ y \in Range(a)
    BY <2>1, <2>2, WithoutForward
  <2>4. Idle # e
    BY <1>3 DEF Idle, Plain
  <2>5. a = <<>> => s = <<>>
    <3>1. ASSUME a = <<>> PROVE s = <<>>
      <4>1. Range(a) = {}
        BY <3>1, NoneIs
      <4>2. PICK m : m = Len(s) /\ m \in Nat /\ DOMAIN s = 1..m
        BY <2>3
      <4>3. m = 0
        <5>1. m # 0 => 1 \in 1..m
          BY <4>2
        <5>2. m # 0 => s[1] \in Range(s)
          BY <4>2, <5>1 DEF Range
        <5> QED BY <2>3, <4>1, <5>2
      <4> QED BY <2>3, <4>2, <4>3
    <3> QED BY <3>1
  <2>6. ASSUME NEW i \in 1..Len(s)
        PROVE  \/ s[i] = Idle /\ Idle \notin Range(list)
               \/ \E k \in 1..Len(list) : i <= k /\ list[k] = s[i]
    <3>1. PICK j \in 1..Len(a) : i <= j /\ a[j] = s[i]
      BY <2>3 DEF Forward
    <3>2. CASE a[j] = Idle /\ Idle \notin Range(list)
      BY <3>1, <3>2
    <3>3. CASE \E k \in 1..Len(list) : j <= k /\ list[k] = a[j]
      <4>1. PICK k \in 1..Len(list) : j <= k /\ list[k] = a[j]
        BY <3>3
      <4>2. i <= k
        <5>1. Len(s) \in Nat /\ Len(a) \in Nat /\ Len(list) \in Nat
          BY <2>2, <2>3
        <5> QED BY <3>1, <4>1, <5>1
      <4> QED BY <3>1, <4>1, <4>2
    <3> QED BY <1>2, <3>2, <3>3 DEF IsAfter
  <2> QED BY <1>2, <2>3, <2>4, <2>5, <2>6 DEF IsAfter
<1>4. CASE ~(e.once # 0 /\ e.o # "veto")
  BY <1>2, <1>4
<1> QED BY <1>3, <1>4

NotifierSpec == NotifierInit /\ [][NotifierNext]_notifierVars

\* A turn of notify over the list l, which was start, after the observers c: all
\* that is left before the index has been called, and nothing after it has.
\* Only "idle" comes to the list, and it goes with all others.
Turn(l, c, start, index) ==
    /\ Len(c) = index - 1 /\ IsInjective(c)
    /\ \A i \in index..Len(l) : l[i] \notin Range(c)
    /\ \A e \in Range(c) : e.once # 0 /\ e.o # "veto" => e \notin Range(l)
    /\ Range(c) \cup Range(l) \subseteq Range(start) \cup {Idle}
    /\ Idle \in Range(c) /\ l # <<>> => Idle \in Range(l)

NotifierTyped ==
    /\ observers \in [Scope -> Seq(Entry)] /\ phase \in Scope \cup {"none"}
    /\ next \in Nat \ {0} /\ made \in Nat
    /\ turn \in [start : Seq(Entry), called : Seq(Entry), result : {"none", "vetoed", "failed"}]

\* Nobody is in a list twice, and the inner observers were made by observeOnce.
Single == \A s \in Scope : /\ IsInjective(observers[s])
                           /\ \A e \in Range(observers[s]) : e.once <= made

NotifierInv ==
    /\ NotifierTyped /\ Single
    /\ phase # "none" => Turn(observers[phase], turn.called, turn.start, next)

\* One list is replaced; notify is not under way, or its turn goes on.
LEMMA ListKeeps ==
    ASSUME NotifierInv, NEW s \in Scope, NEW l \in Seq(Entry), IsInjective(l),
           observers' = [observers EXCEPT ![s] = l],
           made' \in Nat, made <= made', \A e \in Range(l) : e.once <= made'
    PROVE  observers' \in [Scope -> Seq(Entry)] /\ observers'[s] = l /\ Single'
<1>1. observers \in [Scope -> Seq(Entry)] /\ made \in Nat
  BY DEF NotifierInv, NotifierTyped
<1>2. observers' \in [Scope -> Seq(Entry)] /\ observers'[s] = l
      /\ \A t \in Scope : t # s => observers'[t] = observers[t]
  BY <1>1
<1>3. ASSUME NEW t \in Scope
      PROVE  IsInjective(observers'[t]) /\ \A e \in Range(observers'[t]) : e.once <= made'
  <2>1. CASE t = s
    BY <1>2, <2>1
  <2>2. CASE t # s
    <3>1. IsInjective(observers[t]) /\ \A e \in Range(observers[t]) : e.once <= made /\ e.once \in Nat
      <4>1. PICK q : q = observers[t]
        OBVIOUS
      <4>2. q \in Seq(Entry)
        BY <1>1, <4>1
      <4>3. \A e \in Range(q) : e \in Entry
        BY <4>2 DEF Range
      <4> QED BY <4>1, <4>3 DEF NotifierInv, Single, Entry
    <3>2. \A e \in Range(observers[t]) : e.once <= made'
      BY <1>1, <3>1
    <3> QED BY <1>2, <2>2, <3>1, <3>2
  <2> QED BY <2>1, <2>2
<1> QED BY <1>2, <1>3 DEF Single

\* notify begins a list: nobody was called.
LEMMA NewTurn ==
    ASSUME NEW l \in Seq(Entry), NEW c, c = <<>>
    PROVE  Turn(l, c, l, 1)
<1>1. Len(c) = 0 /\ Range(c) = {} /\ IsInjective(c)
  BY NoneIs
<1> QED BY <1>1 DEF Turn

\* The calls between two turns of notify.
LEMMA ObserveKeeps ==
    ASSUME NotifierInv, NEW s \in Scope, NEW x \in Observer,
           Observe(s, x) \/ ObserveOnce(s, x) \/ StopObserving(s, x)
    PROVE  NotifierInv'
<1>1. PICK l : l = observers[s]
  OBVIOUS
<1>2. /\ l \in Seq(Entry) /\ IsInjective(l) /\ made \in Nat
      /\ \A e \in Range(l) : e.once <= made /\ e \in Entry
  <2>1. l \in Seq(Entry) /\ IsInjective(l) /\ made \in Nat /\ \A e \in Range(l) : e.once <= made
    BY <1>1 DEF NotifierInv, NotifierTyped, Single
  <2>2. \A e \in Range(l) : e \in Entry
    BY <2>1 DEF Range
  <2> QED BY <2>1, <2>2
<1>3. phase = "none" /\ UNCHANGED <<phase, next, turn>>
  BY DEF Observe, ObserveOnce, StopObserving
<1>4. \E q \in Seq(Entry) : /\ IsInjective(q) /\ observers' = [observers EXCEPT ![s] = q]
                            /\ made' \in Nat /\ made <= made' /\ \A e \in Range(q) : e.once <= made'
  <2>1. CASE Observe(s, x)
    <3>1. PICK q : q = WithPlain(l, x)
      OBVIOUS
    <3>2. q \in Seq(Entry) /\ IsInjective(q) /\ Range(q) = Range(l) \cup {Plain(x)}
      BY <1>2, <3>1, WithPlainIs
    <3>3. Plain(x).once = 0 /\ 0 <= made
      BY <1>2, PlainIs
    <3>4. observers' = [observers EXCEPT ![s] = q] /\ made' = made
      BY <1>1, <2>1, <3>1 DEF Observe
    <3>5. made <= made
      BY <1>2
    <3> QED BY <1>2, <3>2, <3>3, <3>4, <3>5
  <2>2. CASE ObserveOnce(s, x)
    <3>1. PICK n, e, q : n = made + 1 /\ e = [o |-> x, once |-> n] /\ q = Append(l, e)
      OBVIOUS
    <3>2. e \in Entry /\ e.once = n /\ n \in Nat /\ made < n /\ made <= n
      BY <1>2, <3>1 DEF Entry
    <3>3. q \in Seq(Entry) /\ IsAppended(l, e, q)
      BY <1>2, <3>1, <3>2, AppendedIs
    <3>4. e \notin Range(l)
      BY <1>2, <3>2
    <3>5. IsInjective(q) /\ Range(q) = Range(l) \cup {e}
      BY <1>2, <3>3, <3>4 DEF IsAppended
    <3>6. observers' = [observers EXCEPT ![s] = q] /\ made' = n
      BY <1>1, <2>2, <3>1 DEF ObserveOnce
    <3>7. \A y \in Range(q) : y.once <= n
      <4>1. \A y \in Range(l) : y.once \in Nat /\ y.once <= made
        BY <1>2 DEF Entry
      <4>2. \A y \in Range(l) : y.once <= n
        BY <1>2, <3>2, <4>1
      <4>3. n <= n
        BY <3>2
      <4> QED BY <3>2, <3>5, <4>2, <4>3
    <3> QED BY <3>2, <3>3, <3>5, <3>6, <3>7
  <2>3. CASE StopObserving(s, x)
    <3>1. PICK q : q = WithoutOne(l, Plain(x))
      OBVIOUS
    <3>2. q \in Seq(Entry) /\ IsInjective(q) /\ \A y \in Range(q) : y \in Range(l)
      BY <1>2, <3>1, WithoutForward
    <3>3. observers' = [observers EXCEPT ![s] = q] /\ made' = made /\ made <= made
      BY <1>1, <1>2, <2>3, <3>1 DEF StopObserving
    <3> QED BY <1>2, <3>2, <3>3
  <2> QED BY <2>1, <2>2, <2>3
<1>5. observers' \in [Scope -> Seq(Entry)] /\ Single' /\ made' \in Nat
  BY <1>4, ListKeeps
<1>6. NotifierTyped'
  BY <1>3, <1>5 DEF NotifierInv, NotifierTyped
<1> QED BY <1>3, <1>5, <1>6 DEF NotifierInv

\* One observer is called: the heart of the proof.
LEMMA CallKeeps ==
    ASSUME NotifierInv, NEW s \in Scope, Call(s)
    PROVE  NotifierInv'
<1>1. PICK l, c, n, e : l = observers[s] /\ c = turn.called /\ n = next /\ e = l[n]
  OBVIOUS
<1>2. /\ l \in Seq(Entry) /\ c \in Seq(Entry) /\ n \in Nat /\ n # 0 /\ made \in Nat
      /\ turn \in [start : Seq(Entry), called : Seq(Entry), result : {"none", "vetoed", "failed"}]
      /\ phase = s /\ phase # "none" /\ n <= Len(l) /\ IsInjective(l)
  <2>1. phase = s /\ n <= Len(l)
    BY <1>1 DEF Call
  <2>2. s # "none"
    BY DEF Scope
  <2> QED BY <1>1, <2>1, <2>2 DEF NotifierInv, NotifierTyped, Single
<1>3. PICK m : m = Len(l) /\ m \in Nat /\ DOMAIN l = 1..m
  BY <1>2
<1>4. n \in 1..m /\ e \in Entry /\ e \in Range(l) /\ l # <<>>
  <2>1. n \in 1..m
    BY <1>2, <1>3
  <2>2. e \in Entry /\ e \in Range(l)
    <3>1. e = l[n]
      BY <1>1
    <3>2. l[n] \in Entry
      BY <1>2, <1>3, <2>1
    <3>3. l[n] \in Range(l)
      BY <1>3, <2>1 DEF Range
    <3> QED BY <3>1, <3>2, <3>3
  <2>3. l # <<>>
    BY <2>2, NoneIs
  <2> QED BY <2>1, <2>2, <2>3
<1>5. PICK a, v : /\ a = After(l, e.o)
                  /\ v = IF e.once # 0 /\ e.o # "veto" THEN WithoutOne(a, e) ELSE a
  OBVIOUS
<1>6. IsAfter(l, v) /\ (e.once # 0 /\ e.o # "veto" => e \notin Range(v))
  BY <1>2, <1>4, <1>5, CalledIs
<1>7. PICK d, r : /\ d = Append(c, e)
                  /\ r = CASE e.o = "veto"                -> "vetoed"
                           [] e.o = "reset" /\ e.once = 0 -> "failed"
                           [] OTHER                       -> "none"
  OBVIOUS
<1>8. r \in {"none", "vetoed", "failed"}
  BY <1>7
<1>9. /\ observers' = [observers EXCEPT ![s] = v] /\ turn' = [turn EXCEPT !.called = d, !.result = r]
      /\ next' = n + 1 /\ phase' = phase /\ made' = made
  BY <1>1, <1>5, <1>7 DEF Call
<1>10. Turn(l, c, turn.start, n)
  BY <1>1, <1>2 DEF NotifierInv
<1>11. e \notin Range(c)
  BY <1>1, <1>3, <1>4, <1>10 DEF Turn
<1>12. d \in Seq(Entry) /\ IsAppended(c, e, d)
  BY <1>2, <1>4, <1>7, AppendedIs
<1>13. d \in Seq(Entry) /\ Range(d) = Range(c) \cup {e} /\ Len(d) = n /\ IsInjective(d)
  <2>1. Len(c) = n - 1 /\ IsInjective(c)
    BY <1>10 DEF Turn
  <2> QED BY <1>2, <1>11, <1>12, <2>1 DEF IsAppended
<1>14. turn' \in [start : Seq(Entry), called : Seq(Entry), result : {"none", "vetoed", "failed"}]
       /\ turn'.called = d /\ turn'.start = turn.start
  BY <1>2, <1>8, <1>9, <1>13
<1>15. v \in Seq(Entry) /\ IsInjective(v) /\ Range(v) \subseteq Range(l) \cup {Idle}
  BY <1>6 DEF IsAfter
<1>16. Turn(v, d, turn.start, n + 1)
  <2>1. ASSUME NEW i \in (n + 1)..Len(v) PROVE v[i] \notin Range(d)
    <3>1. i \in 1..Len(v) /\ i \in Nat /\ n + 1 <= i
      BY <1>2, <1>15, <2>1
    <3>2. CASE v[i] = Idle /\ Idle \notin Range(l)
      <4>1. Idle \notin Range(c)
        BY <1>4, <1>10, <3>2 DEF Turn
      <4> QED BY <1>4, <1>13, <3>2, <4>1
    <3>3. CASE \E k \in 1..Len(l) : i <= k /\ l[k] = v[i]
      <4>1. PICK k \in 1..m : i <= k /\ l[k] = v[i]
        BY <1>3, <3>3
      <4>2. k \in n..m /\ k # n
        BY <1>2, <1>3, <3>1, <4>1
      <4>3. l[k] \notin Range(c)
        BY <1>3, <1>10, <4>2 DEF Turn
      <4>4. l[k] # e
        BY <1>1, <1>2, <1>3, <1>4, <4>2 DEF IsInjective
      <4> QED BY <1>13, <4>1, <4>3, <4>4
    <3> QED BY <1>6, <3>1, <3>2, <3>3 DEF IsAfter
  <2>2. ASSUME NEW x \in Range(d), x.once # 0, x.o # "veto" PROVE x \notin Range(v)
    <3>1. x # Idle
      BY <2>2 DEF Idle, Plain
    <3>2. CASE x = e
      BY <1>6, <2>2, <3>2
    <3>3. CASE x \in Range(c)
      BY <1>10, <1>15, <2>2, <3>1, <3>3 DEF Turn
    <3> QED BY <1>13, <3>2, <3>3
  <2>3. Range(d) \cup Range(v) \subseteq Range(turn.start) \cup {Idle}
    BY <1>4, <1>10, <1>13, <1>15 DEF Turn
  <2>4. Idle \in Range(d) /\ v # <<>> => Idle \in Range(v)
    BY <1>4, <1>6, <1>10, <1>13 DEF Turn, IsAfter
  <2>5. Len(d) = (n + 1) - 1 /\ IsInjective(d)
    BY <1>2, <1>13
  <2>6. PICK index : index = n + 1
    OBVIOUS
  <2>7. Turn(v, d, turn.start, index)
    BY <2>1, <2>2, <2>3, <2>4, <2>5, <2>6 DEF Turn
  <2> QED BY <2>6, <2>7
<1>17. \A x \in Range(v) : x.once <= made'
  <2>1. \A x \in Range(l) : x.once <= made
    BY <1>1 DEF NotifierInv, Single
  <2>2. Idle.once = 0 /\ 0 <= made
    BY <1>2 DEF Idle, Plain
  <2> QED BY <1>9, <1>15, <2>1, <2>2
<1>18. made' \in Nat /\ made <= made'
  BY <1>2, <1>9
<1>19. observers' \in [Scope -> Seq(Entry)] /\ observers'[s] = v /\ Single'
  BY <1>9, <1>15, <1>17, <1>18, ListKeeps
<1>20. next' \in Nat \ {0}
  BY <1>2, <1>9
<1>21. NotifierTyped'
  BY <1>2, <1>9, <1>14, <1>18, <1>19, <1>20 DEF NotifierTyped
<1> QED BY <1>2, <1>9, <1>14, <1>16, <1>19, <1>21 DEF NotifierInv

\* notify begins, goes on to the object's own list, and ends.
LEMMA TurnKeeps ==
    ASSUME NotifierInv, Notify \/ EndPhase
    PROVE  NotifierInv'
<1>1. observers' = observers /\ made' = made /\ next' = 1 /\ phase' \in Scope \cup {"none"}
  BY DEF Notify, EndPhase, Scope
<1>2. PICK l, nil : nil = <<>> /\ l = IF phase' = "none" THEN nil ELSE observers[phase']
  OBVIOUS
<1>3. turn' = [start |-> l, called |-> nil, result |-> "none"]
  <2>1. CASE Notify
    BY <1>2, <2>1 DEF Notify, NoTurn
  <2>2. CASE EndPhase
    BY <1>2, <2>2 DEF EndPhase, NoTurn
  <2> QED BY <2>1, <2>2
<1>4. observers \in [Scope -> Seq(Entry)] /\ nil \in Seq(Entry)
  BY <1>2, NoneIs DEF NotifierInv, NotifierTyped
<1>5. l \in Seq(Entry)
  BY <1>1, <1>2, <1>4
<1>6. Turn(l, nil, l, 1)
  BY <1>2, <1>5, NewTurn
<1>7. turn' \in [start : Seq(Entry), called : Seq(Entry), result : {"none", "vetoed", "failed"}]
      /\ turn'.called = nil /\ turn'.start = l
  BY <1>3, <1>4, <1>5
<1>8. NotifierTyped' /\ Single'
  BY <1>1, <1>4, <1>7 DEF NotifierInv, NotifierTyped, Single
<1> QED BY <1>1, <1>2, <1>6, <1>7, <1>8 DEF NotifierInv

\* The invariant holds at first and every step keeps it.
LEMMA NotifierInitKeeps == NotifierInit => NotifierInv
<1> SUFFICES ASSUME NotifierInit PROVE NotifierInv
  OBVIOUS
<1>1. PICK nil : nil = <<>>
  OBVIOUS
<1>2. nil \in Seq(Entry) /\ Range(nil) = {} /\ IsInjective(nil)
  BY <1>1, NoneIs
<1>3. /\ observers = [s \in Scope |-> nil] /\ phase = "none" /\ next = 1 /\ made = 0
      /\ turn = [start |-> nil, called |-> nil, result |-> "none"]
  BY <1>1 DEF NotifierInit, NoTurn
<1> QED BY <1>2, <1>3 DEF NotifierInv, NotifierTyped, Single

LEMMA NotifierStepKeeps == NotifierInv /\ [NotifierNext]_notifierVars => NotifierInv'
<1> SUFFICES ASSUME NotifierInv, [NotifierNext]_notifierVars PROVE NotifierInv'
  OBVIOUS
<1>1. CASE UNCHANGED notifierVars
  BY <1>1 DEF notifierVars, NotifierInv, NotifierTyped, Single
<1>2. CASE NotifierNext
  BY <1>2, TurnKeeps, CallKeeps, ObserveKeeps DEF NotifierNext
<1> QED BY <1>1, <1>2

\* An injective list has as many entries as places.
LEMMA AsManyEntries ==
    ASSUME NEW l \in Seq(Entry), IsInjective(l)
    PROVE  IsFiniteSet(Range(l)) /\ Cardinality(Range(l)) = Len(l)
<1>1. PICK n : n = Len(l) /\ n \in Nat /\ DOMAIN l = 1..n
  OBVIOUS
<1>2. l \in Bijection(1..n, Range(l))
  BY <1>1 DEF Bijection, Injection, Surjection, IsInjective, Range
<1>3. IsFiniteSet(1..n) /\ Cardinality(1..n) = n
  <2>1. n \in Int /\ 1 \in Int
    BY <1>1
  <2>2. IsFiniteSet(1..n) /\ Cardinality(1..n) = IF 1 > n THEN 0 ELSE n - 1 + 1
    BY <2>1, FS_Interval
  <2> QED BY <1>1, <2>2
<1>4. ExistsBijection(1..n, Range(l))
  BY <1>2 DEF ExistsBijection
<1> QED BY <1>1, <1>3, <1>4, FS_Bijection

\* At the end of a loop, as many of those called left as were not called.
LEMMA Counted ==
    ASSUME NEW l \in Seq(Entry), NEW c \in Seq(Entry), NEW start \in Seq(Entry),
           NEW n \in Nat, n > Len(l), IsInjective(l), Turn(l, c, start, n),
           NEW missed, missed \subseteq Range(l) \ Range(c),
           NEW gone, gone = Range(start) \ Range(l)
    PROVE  Cardinality(missed) <= Cardinality(gone)
<1>1. PICK L, C, S : L = Range(l) /\ C = Range(c) /\ S = Range(start)
  OBVIOUS
<1>2. IsFiniteSet(L) /\ Cardinality(L) = Len(l) /\ Len(l) \in Nat
  BY <1>1, AsManyEntries
<1>3. IsFiniteSet(C) /\ Cardinality(C) = Len(c) /\ Len(c) = n - 1
  BY <1>1, AsManyEntries DEF Turn
<1>4. IsFiniteSet(S)
  <2>1. PICK m : m = Len(start) /\ m \in Nat /\ DOMAIN start = 1..m
    OBVIOUS
  <2>2. start \in Surjection(1..m, S)
    BY <1>1, <2>1 DEF Surjection, Range
  <2>3. IsFiniteSet(1..m)
    BY <2>1, FS_Interval
  <2> QED BY <2>2, <2>3, FS_Surjection
<1>5. IsFiniteSet(gone) /\ Cardinality(gone) \in Nat
  BY <1>1, <1>4, FS_Difference, FS_CardinalityType
<1>6. CASE l = <<>>
  <2>1. missed = {}
    BY <1>6, NoneIs
  <2>2. Cardinality(missed) = 0
    BY <2>1, FS_EmptySet
  <2> QED BY <1>5, <2>2
<1>7. CASE l # <<>>
  <2>1. C \ L \subseteq gone
    BY <1>1, <1>7 DEF Turn
  <2>2. Cardinality(C \ L) <= Cardinality(gone)
    BY <1>5, <2>1, FS_Subset
  <2>3. /\ Cardinality(L \ C) = Cardinality(L) - Cardinality(L \cap C) /\ IsFiniteSet(L \ C)
        /\ Cardinality(C \ L) = Cardinality(C) - Cardinality(C \cap L)
    BY <1>2, <1>3, FS_Difference
  <2>4. L \cap C = C \cap L /\ Cardinality(L \cap C) \in Nat
    BY <1>2, FS_Intersection, FS_CardinalityType
  <2>5. Cardinality(missed) <= Cardinality(L \ C) /\ Cardinality(missed) \in Nat
    BY <1>1, <2>3, FS_Subset, FS_CardinalityType
  <2>6. PICK a, b, k, x, y : /\ a = Cardinality(L) /\ b = Cardinality(C) /\ k = Cardinality(L \cap C)
                             /\ x = Cardinality(L \ C) /\ y = Cardinality(C \ L)
    OBVIOUS
  <2>7. a \in Nat /\ a < n /\ b = n - 1 /\ k \in Nat /\ x = a - k /\ y = b - k
    BY <1>2, <1>3, <2>3, <2>4, <2>6
  <2>8. x \in Int /\ y \in Int /\ x <= y
    BY <2>7
  <2>9. PICK p, q : p = Cardinality(missed) /\ q = Cardinality(gone)
    OBVIOUS
  <2>10. p \in Nat /\ q \in Nat /\ p <= x /\ y <= q
    BY <1>5, <2>2, <2>5, <2>6, <2>9
  <2> QED BY <2>8, <2>9, <2>10
<1> QED BY <1>6, <1>7

\* The inductive invariant of Object.Event holds always.
THEOREM NotifierHolds == NotifierSpec => []NotifierInv
BY NotifierInitKeeps, NotifierStepKeeps, PTL DEF NotifierSpec

\* However observers change the list notify goes through, none is called twice,
\* one that observed once is gone after its call, and those that miss their turn
\* are at most as many as left.
THEOREM NoneIsNotifiedTwice == NotifierSpec => []Notified
<1>1. ASSUME NotifierInv PROVE Notified
  <2>1. \A s \in Scope : IsInjective(observers[s])
    BY <1>1 DEF NotifierInv, Single
  <2>2. ASSUME phase # "none" PROVE
          LET left == Range(observers[phase])
              gone == Range(turn.start) \ left
              missed == {e \in left \cap Range(turn.start) : ~Contains(turn.called, e)}
          IN  /\ \A e \in Range(turn.called) : e.once # 0 /\ e.o # "veto" => e \notin left
              /\ IsInjective(turn.called)
              /\ turn.result = "none" /\ next > Len(observers[phase])
                    => Cardinality(missed) <= Cardinality(gone)
    <3>1. PICK l, c, start, n : /\ l = observers[phase] /\ c = turn.called
                                /\ start = turn.start /\ n = next
      OBVIOUS
    <3>2. /\ l \in Seq(Entry) /\ c \in Seq(Entry) /\ start \in Seq(Entry) /\ n \in Nat
          /\ IsInjective(l) /\ Turn(l, c, start, n)
      BY <1>1, <2>1, <2>2, <3>1 DEF NotifierInv, NotifierTyped
    <3>3. \A e : Contains(c, e) <=> e \in Range(c)
      <4>1. DOMAIN c = 1..Len(c)
        BY <3>2
      <4> QED BY <4>1 DEF Contains, Range
    <3>4. PICK gone, missed : /\ gone = Range(start) \ Range(l)
                              /\ missed = {e \in Range(l) \cap Range(start) : ~Contains(c, e)}
      OBVIOUS
    <3>5. missed \subseteq Range(l) \ Range(c)
      BY <3>3, <3>4
    <3>6. n > Len(l) => Cardinality(missed) <= Cardinality(gone)
      BY <3>2, <3>4, <3>5, Counted
    <3>7. (\A e \in Range(c) : e.once # 0 /\ e.o # "veto" => e \notin Range(l)) /\ IsInjective(c)
      BY <3>2 DEF Turn
    <3> QED BY <3>1, <3>4, <3>6, <3>7
  <2> QED BY <2>1, <2>2 DEF Notified
<1> QED BY <1>1, NotifierHolds, PTL
=============================================================================
