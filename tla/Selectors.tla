------------------------------ MODULE Selectors ------------------------------
(***************************************************************************)
(* The elements of a page and what prototype.js does with them: insertion  *)
(* and traversal, and the selectors of browsers that have no XPath.  The   *)
(* handlers leave marks in the elements they go through, and the positions *)
(* that :nth counts.  Text and comments between elements are left out, and *)
(* expressions are parsed: a path has steps, a step a combinator and tests.*)
(***************************************************************************)
EXTENDS Integers, Sequences, FiniteSets, SequencesExt

CONSTANTS Elem,
          Body,             \* the document, as far as selectors see it
          Marked,           \* the elements with class "k"
          Named             \* the element with id "i"

VARIABLES
    kids,           \* the children of each element and of Body
    tag

selectorsVars == <<kids, tag>>

Node == Elem \cup {Body}

Members(s) == {s[i] : i \in DOMAIN s}

\* All that is below a node, in the order of the document.
Below[p \in Node] == FlattenSeq([i \in DOMAIN kids[p] |-> <<kids[p][i]>> \o Below[kids[p][i]]])

Present == Members(Below[Body])

HasParent(ks, e) == \E p \in Node : Contains(ks[p], e)

Parent(ks, e) == CHOOSE p \in Node : Contains(ks[p], e)

PlaceOf(s, e) == CHOOSE i \in DOMAIN s : s[i] = e
------------------------------------------------------------------------------
(* Insertion: a node that is put somewhere leaves the place where it was.  *)

Without(ks, e) == [p \in Node |-> SelectSeq(ks[p], LAMBDA x : x # e)]

\* _insertionTranslations
Put(ks, e, position, content) ==
    LET free == Without(ks, content)
        p    == Parent(free, e)
    IN  CASE position = "before" -> [free EXCEPT ![p] = InsertAt(@, PlaceOf(@, e), content)]
          [] position = "after"  -> [free EXCEPT ![p] = InsertAt(@, PlaceOf(@, e) + 1, content)]
          [] position = "top"    -> [free EXCEPT ![e] = <<content>> \o @]
          [] position = "bottom" -> [free EXCEPT ![e] = Append(@, content)]

Positions == {"before", "after", "top", "bottom"}

InsertedAsIs(ks, e, position, contents) ==
    FoldLeft(LAMBDA so, content : Put(so, e, position, content), ks, contents)

\* At the top and after an element the last is put first.
Inserted(ks, e, position, contents) ==
    FoldLeft(LAMBDA so, content : Put(so, e, position, content), ks,
             IF position \in {"top", "after"} THEN Reverse(contents) ELSE contents)

\* The browser refuses to put an element into itself.
Fits(e, position, content) ==
    /\ e # content /\ ~Contains(Below[content], e)
    /\ position \in {"before", "after"} => HasParent(kids, e)

Emptied(ks, e) == [ks EXCEPT ![e] = <<>>]

Insert ==
    /\ \E e \in Elem, position \in Positions, content \in Elem :
          Fits(e, position, content) /\ kids' = Inserted(kids, e, position, <<content>>)
    /\ UNCHANGED tag

RemoveElement ==
    /\ \E e \in Elem : HasParent(kids, e) /\ kids' = Without(kids, e)
    /\ UNCHANGED tag

ReplaceElement ==
    /\ \E e \in Elem, content \in Elem :
          /\ Fits(e, "before", content)
          /\ kids' = Without(Inserted(kids, e, "before", <<content>>), e)
    /\ UNCHANGED tag

\* update with an element empties first, which frees an element inside.
Update ==
    /\ \E e \in Elem, content \in Elem :
          /\ e # content /\ ~Contains(Below[content], e)
          /\ kids' = Inserted(Emptied(kids, e), e, "bottom", <<content>>)
    /\ UNCHANGED tag

\* The wrapper takes the place of the element and then takes the element in,
\* and so it may come from inside.
Wrap ==
    /\ \E e \in Elem, wrapper \in Elem :
          /\ e # wrapper /\ ~Contains(Below[wrapper], e)
          /\ HasParent(kids, e) \/ ~Contains(Below[e], wrapper)
          /\ LET placed == IF HasParent(kids, e)
                           THEN Without(Put(kids, e, "before", wrapper), e) ELSE kids
             IN  kids' = Put(placed, wrapper, "bottom", e)
    /\ UNCHANGED tag
------------------------------------------------------------------------------
(* Traversal *)

After(e) == IF ~HasParent(kids, e) THEN <<>>
            ELSE LET s == kids[Parent(kids, e)] IN SubSeq(s, PlaceOf(s, e) + 1, Len(s))

\* nearest first
Before(e) == IF ~HasParent(kids, e) THEN <<>>
             ELSE LET s == kids[Parent(kids, e)] IN Reverse(SubSeq(s, 1, PlaceOf(s, e) - 1))

Above[e \in Node] == IF HasParent(kids, e) THEN <<Parent(kids, e)>> \o Above[Parent(kids, e)] ELSE <<>>

\* Body stands for elements no expression selects.
Ancestors(e) == SelectSeq(Above[e], LAMBDA x : x # Body)

Siblings(e) == Reverse(Before(e)) \o After(e)
------------------------------------------------------------------------------
(* The handlers: a search has the nodes found so far and a combinator that *)
(* waits for the next test.  counted are the elements that have            *)
(* _countedByPrototype and index is the nodeIndex of each, of which one is *)
(* there from earlier searches.                                            *)

NewSearch(stale) ==
    [found |-> FALSE, nodes |-> <<>>, by |-> "none", counted |-> {}, index |-> [e \in Elem |-> stale]]

Descendant(ns) == FlattenSeq([i \in DOMAIN ns |-> Below[ns[i]]])

Child(ns) == FlattenSeq([i \in DOMAIN ns |-> kids[ns[i]]])

Adjacent(ns) == FlattenSeq([i \in DOMAIN ns |-> IF After(ns[i]) = <<>> THEN <<>> ELSE <<After(ns[i])[1]>>])

LaterSibling(ns) == FlattenSeq([i \in DOMAIN ns |-> After(ns[i])])

Combined(by, ns) ==
    CASE by = "descendant"   -> Descendant(ns)
      [] by = "child"        -> Child(ns)
      [] by = "adjacent"     -> Adjacent(ns)
      [] by = "laterSibling" -> LaterSibling(ns)
      [] by = "none"         -> ns

\* What the test is made of: everything, when nothing was found yet.
Candidates(s, root) == IF s.found THEN Combined(s.by, s.nodes) ELSE Below[root]

Found(s, ns) == [s EXCEPT !.found = TRUE, !.by = "none", !.nodes = ns]

\* The element with the id is looked up, and then whether it is related to a
\* node.  When it is to none, it may still be one of the nodes: only
\* laterSibling has replaced them by then.
ById(s, root) ==
    LET related(n) == CASE s.by = "child"        -> HasParent(kids, Named) /\ Parent(kids, Named) = n
                        [] s.by = "descendant"   -> Contains(Below[n], Named)
                        [] s.by = "adjacent"     -> Before(Named) # <<>> /\ Before(Named)[1] = n
                        [] s.by = "laterSibling" -> Contains(After(n), Named)
                        [] s.by = "none"         -> FALSE
        among == s.by # "laterSibling" /\ Contains(s.nodes, Named)
    IN  IF /\ Named \in Present
           /\ IF s.found THEN among \/ \E i \in DOMAIN s.nodes : related(s.nodes[i])
                         ELSE Contains(Below[root], Named)
        THEN <<Named>> ELSE <<>>

\* index: the children of p are given their positions, of type those that
\* are counted.
Index(s, p, reverse, ofType) ==
    LET now  == [s EXCEPT !.counted = @ \cup {p}, !.indexed = @ \cup {p}]
        line == SelectSeq(IF reverse THEN Reverse(kids[p]) ELSE kids[p],
                          LAMBDA e : ~ofType \/ e \in now.counted)
    IN  [now EXCEPT !.index = [e \in Elem |-> IF Contains(line, e) THEN PlaceOf(line, e) ELSE @[e]]]

\* getIndices: a = 0 is a number.
Indices(a, b, total) ==
    IF a = 0 THEN {b}
    ELSE {i \in 1..total : (i - b) % (IF a < 0 THEN -a ELSE a) = 0 /\ (i - b) * a >= 0}

IndexedFor(s, ns, reverse, ofType) ==
    FoldLeft(LAMBDA so, e : IF Parent(kids, e) \in so.counted THEN so
                            ELSE Index(so, Parent(kids, e), reverse, ofType),
             [counted |-> s.counted \cup Members(ns), index |-> s.index, indexed |-> {}], ns)

\* Mutation: the parents that were indexed are not unmarked.
NthForgetful(s, ns, t) ==
    LET all    == IndexedFor(s, ns, t.reverse, t.ofType)
        wanted == Indices(t.a, t.b, Len(ns))
    IN  [Found(s, SelectSeq(ns, LAMBDA e : all.index[e] \in wanted))
            EXCEPT !.index = all.index, !.counted = all.counted \ Members(ns)]

\* nth: a parent that is counted has been through index, or is itself one of
\* the nodes.
Nth(s, ns, t) ==
    LET all    == IndexedFor(s, ns, t.reverse, t.ofType)
        wanted == Indices(t.a, t.b, Len(ns))
    IN  [Found(s, SelectSeq(ns, LAMBDA e : all.index[e] \in wanted))
            EXCEPT !.index = all.index, !.counted = all.counted \ (Members(ns) \cup all.indexed)]

Test(kind) == [kind |-> kind, of |-> "none", a |-> 0, b |-> 0, reverse |-> FALSE, ofType |-> FALSE]

Simple(s, t, root) ==
    LET ns == Candidates(s, root)
    IN  CASE t.kind = "tag"         -> Found(s, SelectSeq(ns, LAMBDA e : tag[e] = t.of))
          [] t.kind = "any"         -> Found(s, ns)
          [] t.kind = "class"       -> Found(s, SelectSeq(ns, LAMBDA e : e \in Marked))
          [] t.kind = "id"          -> Found(s, ById(s, root))
          [] t.kind = "first-child" -> Found(s, SelectSeq(ns, LAMBDA e : Before(e) = <<>>))
          [] t.kind = "last-child"  -> Found(s, SelectSeq(ns, LAMBDA e : After(e) = <<>>))
          [] t.kind = "only-child"  -> Found(s, SelectSeq(ns, LAMBDA e : Before(e) = <<>> /\ After(e) = <<>>))
          [] t.kind = "empty"       -> Found(s, SelectSeq(ns, LAMBDA e : kids[e] = <<>>))
          [] t.kind = "nth"         -> IF ns = <<>> THEN Found(s, ns) ELSE Nth(s, ns, t)

\* Nodes that are counted already do not come again.
Unique(s) ==
    [s EXCEPT !.nodes = FoldLeft(LAMBDA kept, e : IF e \in s.counted \/ Contains(kept, e) THEN kept
                                                  ELSE Append(kept, e), <<>>, @)]

Excluded(s, t, root) == Unique(Simple([s EXCEPT !.found = FALSE, !.by = "none"], Test(t.of), root))

\* not: what the other selector finds is counted for a while.
Not(s, t, root) ==
    LET out == Excluded(s, t, root)
    IN  [Found(s, SelectSeq(Candidates(s, root), LAMBDA e : e \notin s.counted \cup Members(out.nodes)))
            EXCEPT !.counted = @ \ Members(out.nodes)]

Token(s, t, root) == IF t.kind = "not" THEN Not(s, t, root) ELSE Simple(s, t, root)

\* compileMatcher and what it makes: tests from left to right, then unique.
Step(s, step, root) ==
    FoldLeft(LAMBDA so, t : Token(so, t, root), [s EXCEPT !.by = step.by], step.tests)

FindFrom(stale, path, root) == Unique(FoldLeft(LAMBDA s, step : Step(s, step, root), NewSearch(stale), path))

FindElements(path, root) == FindFrom(0, path, root)

\* An expression of simple tests is asked of the element alone, any other of
\* the document.  Of the element alone "*" is the name of a tag it never has.
Match(e, path) ==
    IF Len(path) = 1 /\ \A i \in DOMAIN path[1].tests : path[1].tests[i].kind \in {"tag", "any", "class", "id"}
    THEN \A i \in DOMAIN path[1].tests :
            LET t == path[1].tests[i]
            IN  CASE t.kind = "tag" -> tag[e] = t.of [] t.kind = "any" -> FALSE
                  [] t.kind = "class" -> e \in Marked [] t.kind = "id" -> e = Named
    ELSE Contains(FindElements(path, Body).nodes, e)

\* matchElements and findElement, for up, next and previous
MatchElements(es, path) ==
    LET found == FindElements(path, Body)
    IN  SelectSeq(es, LAMBDA e : e \in found.counted \cup Members(found.nodes))

\* findChildElements of two expressions
FindBoth(path, other, root) ==
    LET one == FindElements(path, root)
    IN  Unique([one EXCEPT !.nodes = @ \o FindElements(other, root).nodes])
------------------------------------------------------------------------------
One(test) == <<[by |-> "none", tests |-> <<test>>]>>

Combinators == {"descendant", "child", "adjacent", "laterSibling"}

TagTests == {[Test("tag") EXCEPT !.of = x] : x \in {"div", "span"}}

Div == [Test("tag") EXCEPT !.of = "div"]

Tests == TagTests \cup {Test(k) : k \in {"class", "id", "first-child", "last-child", "only-child", "empty"}}
                  \cup {[Test("not") EXCEPT !.of = k] : k \in {"class", "first-child"}}

NthTests == {[Test("nth") EXCEPT !.a = f[1], !.b = f[2], !.reverse = r, !.ofType = o] :
                f \in {<<0, 1>>, <<0, 2>>, <<2, 0>>, <<-1, 2>>}, r \in BOOLEAN, o \in BOOLEAN}

Paths == {One(t) : t \in Tests \cup {Test("any")}}
            \cup {<<[by |-> "none", tests |-> <<t>>], [by |-> c, tests |-> <<u>>]>> :
                    t \in {Div, Test("class")}, c \in Combinators, u \in Tests}
            \cup {<<[by |-> "none", tests |-> <<Div>>], [by |-> c, tests |-> <<Test("any")>>],
                    [by |-> d, tests |-> <<Div, Test("last-child")>>]>> :
                    c \in Combinators, d \in Combinators}

NthPaths == {<<[by |-> "none", tests |-> <<t, n>>]>> : t \in {Div, Test("any")}, n \in NthTests}

SelectorsInit ==
    /\ kids = [p \in Node |-> IF p = Body THEN <<Named>> ELSE <<>>]
    /\ tag \in [Elem -> {"div", "span"}]

SelectorsNext == Insert \/ RemoveElement \/ ReplaceElement \/ Update \/ Wrap
------------------------------------------------------------------------------
Holds(e, t) ==
    CASE t.kind = "tag"         -> tag[e] = t.of
      [] t.kind = "any"         -> TRUE
      [] t.kind = "class"       -> e \in Marked
      [] t.kind = "id"          -> e = Named
      [] t.kind = "first-child" -> kids[Parent(kids, e)][1] = e
      [] t.kind = "last-child"  -> Last(kids[Parent(kids, e)]) = e
      [] t.kind = "only-child"  -> kids[Parent(kids, e)] = <<e>>
      [] t.kind = "empty"       -> kids[e] = <<>>
      [] t.kind = "not"         -> IF t.of = "class" THEN e \notin Marked ELSE kids[Parent(kids, e)][1] # e

Related(by, d, e) ==
    CASE by = "descendant"   -> Contains(Below[d], e)
      [] by = "child"        -> Contains(kids[d], e)
      [] by = "adjacent"     -> \E p \in Node : \E i \in 2..Len(kids[p]) : kids[p][i - 1] = d /\ kids[p][i] = e
      [] by = "laterSibling" -> \E p \in Node : \E i, j \in DOMAIN kids[p] : i < j /\ kids[p][i] = d /\ kids[p][j] = e

\* What a path means: a chain of elements that ends with the one selected.
Selects(path, root) ==
    LET all == Members(Below[root])
        chains == {chain \in [DOMAIN path -> all] :
                      \A i \in DOMAIN path :
                          /\ \A j \in DOMAIN path[i].tests : Holds(chain[i], path[i].tests[j])
                          /\ i > 1 => Related(path[i].by, chain[i - 1], chain[i])}
    IN  {chain[Len(path)] : chain \in chains}

\* Where an element stands among those of its parent that are to be counted.
PositionOf(e, among, reverse) ==
    LET line == SelectSeq(kids[Parent(kids, e)], LAMBDA x : x \in among)
    IN  IF reverse THEN Len(line) + 1 - PlaceOf(line, e) ELSE PlaceOf(line, e)

\* An id after a combinator other than ~, of an element that the steps before
\* it have found.
Strays(path, root) ==
    LET front == Front(path)
    IN  /\ front # <<>> /\ Last(path).tests = <<Test("id")>> /\ Last(path).by # "laterSibling"
        /\ Named \in Selects(front, root)

(* Selectors find the elements that they mean, once, and leave no mark,    *)
(* whatever positions earlier ones left, and an element matches when it is *)
(* meant.  An id that strays is found without being related; "*" matches   *)
(* no element.  :nth is no exception but in these cases: an element found  *)
(* is inside another, the parent of one is beside another where types are  *)
(* counted, and with a formula an element has more before it than there    *)
(* are elements found.                                                     *)
Selected ==
    /\ \A path \in Paths : \A root \in Present \cup {Body} :
          LET s    == FindElements(path, root)
              ours == IF Strays(path, root) THEN {Named} ELSE Selects(path, root)
          IN  /\ Members(s.nodes) = ours /\ IsInjective(s.nodes) /\ s.counted = {}
              /\ root = Body /\ path # One(Test("any")) => \A e \in Present : Match(e, path) <=> e \in ours
    /\ \A c \in Combinators :
          LET s == FindBoth(One(Div), <<[by |-> "none", tests |-> <<Test("any")>>], [by |-> c, tests |-> <<Div>>]>>, Body)
          IN  Members(s.nodes) = Selects(One(Div), Body) /\ IsInjective(s.nodes)
    /\ \A path \in NthPaths, stale \in 0..1 :
          LET s     == FindFrom(stale, path, Body)
              t     == path[1].tests[2]
              ns    == {e \in Present : Holds(e, path[1].tests[1])}
              above == {Parent(kids, e) : e \in ns}
              among == IF t.ofType THEN ns ELSE Present
          IN  /\ s.counted = {}
              /\ above \cap ns = {}
                 /\ (t.ofType => \A p \in above \ {Body} : Parent(kids, p) \notin above)
                 /\ (t.a = 0 \/ \A e \in ns : PositionOf(e, among, t.reverse) <= Cardinality(ns))
                 => Members(s.nodes) = {e \in ns : PositionOf(e, among, t.reverse) \in Indices(t.a, t.b, Cardinality(Present))}

Beyond(way, e, x) ==
    CASE way = "up"       -> Contains(Below[x], e)
      [] way = "next"     -> Related("laterSibling", e, x)
      [] way = "previous" -> Related("laterSibling", x, e)

(* What is inserted keeps its order, and up, next and previous find the    *)
(* elements that the expression means, the nearest first.                  *)
Traversed ==
    /\ \A e \in Elem, position \in Positions, x, y \in Elem :
          LET new(z) == ~HasParent(kids, z) /\ kids[z] = <<>> /\ z # e
          IN  x # y /\ new(x) /\ new(y) /\ Fits(e, position, x) =>
                 LET ks == Inserted(kids, e, position, <<x, y>>)
                     p  == Parent(ks, x)
                 IN  /\ PlaceOf(ks[p], y) = PlaceOf(ks[p], x) + 1
                     /\ p = IF position \in {"top", "bottom"} THEN e ELSE Parent(kids, e)
                     /\ CASE position = "top"    -> ks[p][1] = x
                          [] position = "bottom" -> Last(ks[p]) = y
                          [] position = "before" -> PlaceOf(ks[p], e) = PlaceOf(ks[p], y) + 1
                          [] position = "after"  -> PlaceOf(ks[p], x) = PlaceOf(ks[p], e) + 1
    /\ \A e \in Present, t \in TagTests, way \in {"up", "next", "previous"} :
          LET line  == CASE way = "up" -> Ancestors(e) [] way = "next" -> After(e) [] way = "previous" -> Before(e)
              found == MatchElements(line, One(t))
              those == {x \in Present : tag[x] = t.of /\ Beyond(way, e, x)}
          IN  /\ Members(found) = those
              /\ found # <<>> => \A x \in those \ {found[1]} : Beyond(way, found[1], x)
    /\ \A e \in Present : Members(Siblings(e)) = Members(kids[Parent(kids, e)]) \ {e}

(* Both, for every page that scripts can make of some elements.            *)
PageAgrees == Selected /\ Traversed
==============================================================================
