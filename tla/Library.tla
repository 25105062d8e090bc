------------------------------- MODULE Library -------------------------------
(***************************************************************************)
(* The operators of Collections checked against what they promise, on the  *)
(* arrays, hashes, forms and texts that a script reaches by changing one   *)
(* of them at a time.                                                      *)
(***************************************************************************)
EXTENDS Collections

CONSTANTS MaxArray,         \* length of an array
          MaxHash,          \* keys of a hash
          MaxForm,          \* elements of a form
          MaxText           \* tokens of a text

ASSUME LibraryAssumption == {MaxArray, MaxHash, MaxForm, MaxText} \subseteq Nat

VARIABLES subject,          \* what data is
          data

libraryVars == <<subject, data>>

Subjects == {"array", "numbers", "hash", "form", "select", "text"}

Numbers == 0..2

HashKey == {"k", "l", ""}

HashValue == {<<v>> : v \in Value} \cup {<<"array">>, <<"array", "a", "null">>}

Elements ==
    [name : {"n", "m", ""}, type : Kinds, value : {"v"}, checked : BOOLEAN, disabled : {FALSE}]
        \cup [name : {"n"}, type : {"text", "submit"}, value : {"w"}, checked : {TRUE}, disabled : BOOLEAN]

FormElements == {e \in Elements : e.type # "checkbox" => e.checked}

Token == {"x", "\\"} \cup Expressions

NoSelect == [one |-> TRUE, options |-> <<>>, chosen |-> {}]

LibraryInit ==
    \/ subject \in Subjects \ {"select"} /\ data = <<>>
    \/ /\ subject = "select"
       /\ \E one \in BOOLEAN, options \in SeqOf({"a", "0", "empty"}, 3) :
             data = [one |-> one, options |-> options,
                     chosen |-> IF one /\ options # <<>> THEN {1} ELSE {}]

Of(s) == subject = s /\ UNCHANGED subject

\* push
PushValue == Of("array") /\ Len(data) < MaxArray /\ \E v \in Value : data' = Append(data, v)

PushNumber == Of("numbers") /\ Len(data) < MaxArray /\ \E v \in Numbers : data' = Append(data, v)

\* without
RemoveValue == Of("array") /\ \E v \in Value : data' = Without(data, v)

SetKey ==
    /\ Of("hash")
    /\ \E k \in HashKey, v \in HashValue :
          /\ HasKey(data, k) \/ Len(data) < MaxHash
          /\ data' = Set(data, k, v)

UnsetKey == Of("hash") /\ \E k \in HashKey : data' = Unset(data, k)

AddElement == Of("form") /\ Len(data) < MaxForm /\ \E e \in FormElements : data' = Append(data, e)

SetValue ==
    /\ Of("select")
    /\ \E v \in {<<x>> : x \in {"a", "0", "zero"}} \cup {<<"array", "a">>, <<"array", "0", "empty">>} :
          /\ IsArray(v) => ~data.one
          /\ data' = SelectPut(data, v)

Write == Of("text") /\ Len(data) < MaxText /\ \E t \in Token : data' = Append(data, t)

LibraryNext ==
    \/ PushValue \/ PushNumber \/ RemoveValue \/ SetKey \/ UnsetKey \/ AddElement \/ SetValue \/ Write
-------------------------------------------------------------------------------
SeqRange(s) == {s[i] : i \in DOMAIN s}

Splits(s) == {<<SubSeq(s, 1, i), SubSeq(s, i + 1, Len(s))>> : i \in 0..Len(s)}

\* Of the values that are alike the first is kept, and intersect finds the
\* values both have, as far as they are not falsy.
ArraysAgree(s) ==
    /\ LET u == Uniq(s)
       IN  /\ \A i, j \in DOMAIN u : LooseEq(u[i], u[j]) => i = j
           /\ \A i \in DOMAIN s : Include(u, s[i])
           /\ \A i \in DOMAIN s : (\A j \in 1..(i - 1) : ~LooseEq(s[i], s[j])) => Contains(u, s[i])
    /\ (\A i, j \in DOMAIN s : LooseEq(s[i], s[j]) <=> s[i] = s[j]) =>
          /\ SeqRange(Uniq(s)) = SeqRange(s)
          /\ (\A i, j \in DOMAIN s : s[i] = s[j] => \A k \in i..j : s[k] = s[i]) => UniqSorted(s) = Uniq(s)
    /\ \A p \in Splits(s) :
          /\ SeqRange(Intersect(p[1], p[2]))
                = (SeqRange(Uniq(p[1])) \cap SeqRange(p[2])) \ Falsy
          /\ Len(ZipWith(p[1], p[2])) = Len(p[1])
          /\ Flatten(p) = s
    /\ \A v \in Value :
          /\ IndexOf(s, v, 0) = -1 <=> ~Contains(s, v)
          /\ IndexOf(s, v, 0) >= 0 => s[IndexOf(s, v, 0) + 1] = v /\ s[LastIndexOf(s, v) + 1] = v
          /\ LastIndexOf(s, v) >= IndexOf(s, v, 0)
          /\ IndexOf(s, v, 0) = LastIndexOf(s, v) /\ Contains(s, v)
                => Cardinality({i \in DOMAIN s : s[i] = v}) = 1
          /\ ~Include(Without(s, v), v)
    /\ AllOf(s) <=> ~AnyOf([i \in DOMAIN s |-> IF s[i] \in Falsy THEN "a" ELSE "null"])
    /\ PartitionBy(s, Falsy) = <<FindAll(s, Falsy), Reject(s, Falsy)>>

\* Slices put together give the array, all but the last are full, and groups
\* are as many.
NumbersAgree(s) ==
    /\ \A n \in 1..3 :
          /\ Flatten(EachSlice(s, n)) = s
          /\ \A k \in DOMAIN EachSlice(s, n) : Len(EachSlice(s, n)[k]) \in 1..n
          /\ \A k \in DOMAIN InGroupsOf(s, n, -1) : Len(InGroupsOf(s, n, -1)[k]) = n
          /\ Len(Flatten(InGroupsOf(s, n, -1))) - Len(s) \in 0..(n - 1)
    /\ \A m \in MaxOf(s) : m \in SeqRange(s) /\ \A i \in DOMAIN s : s[i] <= m
    /\ \A m \in MinOf(s) : m \in SeqRange(s) /\ \A i \in DOMAIN s : s[i] >= m
    /\ MaxOf(s) = {} <=> s = <<>>
    /\ \A i, j \in DOMAIN s : Len(RangeOf(s[i], s[j], FALSE)) = IF s[i] > s[j] THEN 0 ELSE s[j] - s[i] + 1

\* What comes back of a value that went through a query string: null is the
\* empty text then, a number its digits, and an array of one its only member.
Sent(v) ==
    LET word(x) == ToValue(Interpret(x))
    IN  CASE ~IsArray(v)                -> <<word(v[1])>>
          [] IsArray(v) /\ Len(v) = 2   -> <<word(v[2])>>
          [] IsArray(v) /\ Len(v) # 2   -> <<"array">> \o [i \in 1..(Len(v) - 1) |-> word(v[i + 1])]

\* A hash comes back from its query string, without the empty key and the
\* keys of empty arrays.
HashesAgree(h) ==
    /\ \A i, j \in DOMAIN h : h[i][1] = h[j][1] => i = j
    /\ \A v \in {<<x>> : x \in Value} : Index(h, v) = "undefined" <=> \A i \in DOMAIN h : h[i][2] # v
    /\ LET back == ToParams(ToQuery(h))
       IN  /\ SeqRange(Keys(back)) = {k \in SeqRange(Keys(h)) : k # "" /\ Get(h, k) # <<"array">>}
           /\ \A k \in SeqRange(Keys(back)) : Get(back, k) = Sent(Get(h, k))
    /\ \A p \in Splits(h) : Update(p[1], p[2]) = h /\ SeqRange(Keys(Update(p[2], p[1]))) = SeqRange(Keys(h))

\* A form sends its successful controls in their order, the values of one
\* name together, and at most one submit button: the first that is wanted.
FormsAgree(es) ==
    \A wanted \in {"any", "false", "n", "m"} :
        LET good(i) == ~es[i].disabled /\ es[i].name # "" /\ es[i].type # "file"
                       /\ (es[i].type = "checkbox" => es[i].checked)
            button(i) == /\ es[i].type = "submit" /\ good(i) /\ wanted # "false"
                         /\ wanted \in {"any", es[i].name}
            sent == {i \in DOMAIN es : good(i) /\ (es[i].type = "submit" =>
                        button(i) /\ \A j \in 1..(i - 1) : ~button(j))}
            result == SerializeElements(es, wanted)
        IN  /\ SeqRange(Keys(result)) = {es[i].name : i \in sent}
            /\ \A k \in SeqRange(Keys(result)) :
                  LET mine == SetToSortSeq({i \in sent : es[i].name = k}, <)
                      values == [j \in DOMAIN mine |-> es[mine[j]].value]
                  IN  Get(result, k) = IF Len(values) = 1 THEN values ELSE <<"array">> \o values

\* A select-one shows the value it is given if it has it, and what getValue
\* read is what setValue puts back, unless options are alike or none is chosen.
SelectsAgree(e) ==
    /\ e.one => Cardinality(e.chosen) <= 1
    /\ (\A i, j \in DOMAIN e.options : LooseEq(e.options[i], e.options[j]) => i = j)
          => LET read == SelectGet(e)
             IN  read # <<"null">> => SelectPut([e EXCEPT !.chosen = {}], read) = e

\* Only the first n matches are replaced; a template replaces the expressions
\* that are not quoted, whatever stands in their place.
TextsAgree(s) ==
    LET with == ("x" :> <<"y", "x">>)
        is(t) == t = "x"
    IN  /\ \A n \in 0..3 :
              Sub(s, with, n) = Flatten([i \in DOMAIN s |->
                  IF is(s[i]) /\ Cardinality({j \in 1..i : is(s[j])}) <= n THEN <<"y", "x">> ELSE <<s[i]>>])
        /\ Sub(s, with, Len(s)) = Gsub(s, with)
        /\ \A dots \in {<<>>, <<"...">>, <<".", ".">>}, n \in 1..3 :
              /\ Len(dots) <= n => Len(Truncate(s, n, dots)) = IF Len(s) > n THEN n ELSE Len(s)
              /\ Len(s) <= n => Truncate(s, n, dots) = s
        /\ \A a \in {<<>>, <<"\\">>, <<"#b">>} :
              LET object == ("#a" :> a)
                  quoted(i) == i \in DOMAIN s /\ s[i] \in Expressions /\ i > 1 /\ s[i - 1] = "\\"
              IN  Evaluate(s, object) = Flatten([i \in DOMAIN s |->
                      CASE quoted(i)                             -> <<Literal(s[i])>>
                        [] quoted(i + 1)                         -> <<>>
                        [] ~quoted(i) /\ s[i] \in Expressions    -> Read(object, s[i])
                        [] OTHER                                 -> <<s[i]>>])

(* Every operator gives what it promises for what the scripts hand it: the *)
(* cases the comments above except are all the exceptions there are.       *)
Agrees ==
    /\ subject = "array"   => ArraysAgree(data)
    /\ subject = "numbers" => NumbersAgree(data)
    /\ subject = "hash"    => HashesAgree(data)
    /\ subject = "form"    => FormsAgree(data)
    /\ subject = "select"  => SelectsAgree(data)
    /\ subject = "text"    => TextsAgree(data)
===============================================================================
