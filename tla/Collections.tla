------------------------------ MODULE Collections ------------------------------
(***************************************************************************)
(* The collections of prototype.js as operators: Enumerable and Array on   *)
(* sequences, Hash on sequences of pairs (an object keeps the order of its *)
(* keys), query strings, and the serialization of forms.                   *)
(*                                                                         *)
(* Values of the language are the strings of Value; == is LooseEq, which   *)
(* is not transitive, and === is equality.                                 *)
(***************************************************************************)
EXTENDS Integers, Sequences, FiniteSets, SequencesExt, Functions

Value == {"undefined", "null", "zero", "empty", "0", "a"}

Falsy == {"undefined", "null", "zero", "empty"}

Nothing == {"undefined", "null"}        \* what == null holds of

Alike == {{"undefined", "null"}, {"zero", "empty"}, {"zero", "0"}}

LooseEq(x, y) == x = y \/ {x, y} \in Alike
-------------------------------------------------------------------------------
(* Enumerable. *)

Include(s, v) == \E i \in DOMAIN s : LooseEq(s[i], v)

\* Slices of n; with n < 1 the array itself comes back.
EachSlice(s, n) ==
    [k \in 1..((Len(s) + n - 1) \div n) |->
        SubSeq(s, (k - 1) * n + 1, IF k * n < Len(s) THEN k * n ELSE Len(s))]

InGroupsOf(s, n, fill) ==
    [k \in DOMAIN EachSlice(s, n) |->
        LET slice == EachSlice(s, n)[k]
        IN  [i \in 1..n |-> IF i <= Len(slice) THEN slice[i] ELSE fill]]

\* An iterator is the set of the values it accepts.  The first of them, or
\* undefined for none.
Detect(s, accepted) ==
    IF \E i \in DOMAIN s : s[i] \in accepted
    THEN s[SelectInSeq(s, LAMBDA v : v \in accepted)]
    ELSE "undefined"

FindAll(s, accepted) == SelectSeq(s, LAMBDA v : v \in accepted)

Reject(s, accepted) == SelectSeq(s, LAMBDA v : v \notin accepted)

PartitionBy(s, accepted) ==
    FoldLeft(LAMBDA both, v : IF v \in accepted THEN <<Append(both[1], v), both[2]>>
                                                ELSE <<both[1], Append(both[2], v)>>, <<<<>>, <<>>>>, s)

AllOf(s) == \A i \in DOMAIN s : s[i] \notin Falsy

AnyOf(s) == \E i \in DOMAIN s : s[i] \notin Falsy

\* Of sequences of different lengths the first decides.
ZipWith(s, t) == [i \in DOMAIN s |-> <<s[i], IF i \in DOMAIN t THEN t[i] ELSE "undefined">>]

\* max and min of numbers; none is found in an empty array
MaxOf(s) == FoldLeft(LAMBDA result, v : IF result = {} \/ v >= CHOOSE r \in result : TRUE
                                        THEN {v} ELSE result, {}, s)

MinOf(s) == FoldLeft(LAMBDA result, v : IF result = {} \/ v < CHOOSE r \in result : TRUE
                                        THEN {v} ELSE result, {}, s)

\* ObjectRange
RangeOf(first, last, exclusive) ==
    [i \in 1..((IF exclusive THEN last ELSE last + 1) - first) |-> first + i - 1]
-------------------------------------------------------------------------------
(* Array. *)

Compact(s) == SelectSeq(s, LAMBDA v : v \notin Nothing)

Without(s, v) == SelectSeq(s, LAMBDA x : ~Include(<<v>>, x))

\* An array and, in their places, the arrays in it.
Flatten(ss) == FoldLeft(LAMBDA s, t : s \o t, <<>>, ss)

Uniq(s) == FoldLeft(LAMBDA kept, v : IF Include(kept, v) THEN kept ELSE Append(kept, v), <<>>, s)

\* With sorted only the value before is looked at.
UniqSorted(s) ==
    FoldLeft(LAMBDA kept, v : IF kept # <<>> /\ LooseEq(Last(kept), v) THEN kept
                              ELSE Append(kept, v), <<>>, s)

\* detect returns the common value, which filters itself out when it is falsy.
Intersect(s, t) ==
    SelectSeq(Uniq(s), LAMBDA v : Detect(t, {v}) \notin Falsy)

\* From place i on (from 0, a negative one counts from the end); -1 for none.
IndexOf(s, v, i) ==
    LET from == IF i < 0 THEN Len(s) + i ELSE i
        at   == {k \in DOMAIN s : k - 1 >= from /\ s[k] = v}
    IN  IF at = {} THEN -1 ELSE (CHOOSE k \in at : \A l \in at : k <= l) - 1

\* indexOf in the reversed front
LastIndexOf(s, v) ==
    LET n == IndexOf(Reverse(s), v, 0) IN IF n < 0 THEN n ELSE Len(s) - n - 1
-------------------------------------------------------------------------------
(* Hash: a sequence of pairs with different keys, the oldest key first. *)

Keys(h) == [i \in DOMAIN h |-> h[i][1]]

HasKey(h, k) == Contains(Keys(h), k)

Place(h, k) == CHOOSE i \in DOMAIN h : h[i][1] = k

Set(h, k, v) == IF HasKey(h, k) THEN [h EXCEPT ![Place(h, k)] = <<k, v>>] ELSE Append(h, <<k, v>>)

Get(h, k) == IF HasKey(h, k) THEN h[Place(h, k)][2] ELSE <<"undefined">>

Unset(h, k) == SelectSeq(h, LAMBDA p : p[1] # k)

Update(h, g) == FoldLeft(LAMBDA result, p : Set(result, p[1], p[2]), h, g)

Index(h, v) ==
    LET keys == Keys(SelectSeq(h, LAMBDA p : p[2] = v))  IN  Detect(keys, Range(keys))

\* String.interpret; a pair without = stands for undefined.
Interpret(v) ==
    CASE v = "undefined" -> "none" [] v = "null" -> "empty" [] v = "zero" -> "0"
      [] OTHER -> v

(* Values of a hash are sequences here: <<v>> is the value v, and an array *)
(* is tagged by a leading "array".                                         *)
IsArray(v) == v[1] = "array"

\* toQueryString: an array gives a pair for each member, an empty one none.
ToQuery(h) ==
    Flatten([i \in DOMAIN h |->
        LET v == IF IsArray(h[i][2]) THEN Tail(h[i][2]) ELSE h[i][2]
        IN  [j \in DOMAIN v |-> <<h[i][1], Interpret(v[j])>>]])

ToValue(text) == IF text = "none" THEN "undefined" ELSE text

\* A key that is already there collects its values in an array.
AddValue(h, k, v) ==
    IF ~HasKey(h, k) THEN Append(h, <<k, v>>)
    ELSE LET old == Get(h, k)
         IN  Set(h, k, (IF IsArray(old) THEN old ELSE <<"array">> \o old) \o v)

\* toQueryParams: a pair without a key is skipped.
ToParams(q) ==
    FoldLeft(LAMBDA h, p : IF p[1] = "" THEN h ELSE AddValue(h, p[1], <<ToValue(p[2])>>), <<>>, q)
-------------------------------------------------------------------------------
(* Forms: an element has a name, a type, a value, and is checked or not    *)
(* (an input that is no checkbox and no radio button always is).           *)

Kinds == {"text", "checkbox", "submit", "file"}

\* getValue: a box that is not checked has none.
GetValue(e) == IF e.type = "checkbox" /\ ~e.checked THEN "null" ELSE e.value

(* A select: its type and the values of its options; chosen is the set of  *)
(* the selected ones, of which a select-one keeps one at most.             *)

SelectGet(e) ==
    IF e.one THEN IF e.chosen = {} THEN <<"null">> ELSE <<e.options[CHOOSE i \in e.chosen : TRUE]>>
    ELSE IF e.options = <<>> THEN <<"null">>
    ELSE <<"array">> \o [k \in 1..Cardinality(e.chosen) |->
                            e.options[SetToSortSeq(e.chosen, <)[k]]]

\* setValue: one value is selected where it is found first, which in a
\* select-many leaves the others selected; an array decides every option.
SelectPut(e, v) ==
    LET at == {i \in DOMAIN e.options :
                  IF IsArray(v) THEN Include(Tail(v), e.options[i]) ELSE LooseEq(e.options[i], v[1])}
        first == {i \in at : \A j \in at : i <= j}
    IN  CASE IsArray(v)           -> [e EXCEPT !.chosen = at]
          [] ~IsArray(v) /\ e.one -> [e EXCEPT !.chosen = IF first = {} THEN @ ELSE first]
          [] OTHER                -> [e EXCEPT !.chosen = @ \cup first]

\* The first submit button is sent, or the one that is named, or none.
Chosen(e, wanted, submitted) ==
    e.type = "submit" => ~submitted /\ wanted # "false" /\ (wanted = "any" \/ e.name = wanted)

SerializeElements(es, wanted) ==
    FoldLeft(LAMBDA acc, e :
                IF e.disabled \/ e.name = "" \/ GetValue(e) = "null" \/ e.type = "file"
                      \/ ~Chosen(e, wanted, acc.submitted)
                THEN acc
                ELSE [data |-> AddValue(acc.data, e.name, <<GetValue(e)>>),
                      submitted |-> acc.submitted \/ e.type = "submit"],
             [data |-> <<>>, submitted |-> FALSE], es).data
-------------------------------------------------------------------------------
(* Text: a sequence of tokens.  gsub matches one token at a time; "#a" is  *)
(* an expression of a template and "\" the sign that quotes it.            *)

\* A pattern is the domain of what its matches are replaced with.  The rest of
\* the text after each match is searched again.
Gsub(s, with) == Flatten([i \in DOMAIN s |-> IF s[i] \in DOMAIN with THEN with[s[i]] ELSE <<s[i]>>])

\* sub: the first n matches are replaced, the others stay what they are.
Sub(s, with, n) ==
    FoldLeft(LAMBDA acc, t : IF t \in DOMAIN with /\ acc.left > 0
                             THEN [text |-> acc.text \o with[t], left |-> acc.left - 1]
                             ELSE [acc EXCEPT !.text = Append(@, t)],
             [text |-> <<>>, left |-> n], s).text

\* slice(0, n): a negative end counts from the end of the text.
SliceTo(s, n) == SubSeq(s, 1, IF n < 0 THEN Len(s) + n ELSE n)

Truncate(s, n, dots) == IF Len(s) > n THEN SliceTo(s, n - Len(dots)) \o dots ELSE s

Expressions == {"#a", "#b"}

\* What an expression reads in the object, and the empty text when that is null.
Read(object, t) == IF t \in DOMAIN object THEN object[t] ELSE <<>>

Literal(t) == CASE t = "#a" -> "#a as text" [] t = "#b" -> "#b as text"

\* Mutation: what was replaced is scanned again.
EvaluateTwice(s, object) ==
    LET step(out, t) == IF t \notin Expressions THEN Append(out, t)
                        ELSE IF out # <<>> /\ Last(out) = "\\" THEN Append(Front(out), Literal(t))
                        ELSE out \o Read(object, t)
    IN  FoldLeft(step, <<>>, s)

\* Template.evaluate: a match takes the token before the expression along, and
\* what an expression was replaced with is not looked at again.
Evaluate(s, object) ==
    LET step(acc, t) ==
            IF t \notin Expressions THEN [out |-> Append(acc.out, t), before |-> t]
            ELSE IF acc.before = "\\" THEN [out |-> Append(Front(acc.out), Literal(t)), before |-> ""]
            ELSE [out |-> acc.out \o Read(object, t), before |-> ""]
    IN  FoldLeft(step, [out |-> <<>>, before |-> ""], s).out
===============================================================================
