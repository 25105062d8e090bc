------------------------------ MODULE PrototypeProofs --------------------------
(***************************************************************************)
(* What two parts of prototype.js guarantee, each for itself.              *)
(*                                                                         *)
(* Ajax, for any number of requests and restarts: the variables keep their *)
(* types, the callbacks of a request are those that Exchange allows, the   *)
(* count of active requests is accounted for, and the PeriodicalUpdater    *)
(* has one chain of requests.  What has been called for a request follows  *)
(* from where it is: Shape says so for each request by itself.  The count  *)
(* needs the set of requests it counts to be finite, and the chain that    *)
(* only this.updater can be part of it, now or by a later report of an     *)
(* answer that could not be read.                                          *)
(*                                                                         *)
(* Observers, for any events and handlers: the cache of handlers and the   *)
(* listeners of the browser agree.  They do because an id belongs to one   *)
(* element, but for the two that share one on WebKit.                      *)
(***************************************************************************)
EXTENDS Ajax, Observers, FiniteSetTheorems, TLAPS

Has(c, e) == Exchanged!Has(c, e)
Callback == {"Create", "Loading", "Result", "Complete"}

\* What is known of a request by where it is.
Shape(r) ==
    /\ step[r] = "new" => /\ log[r] = <<>> /\ ready[r] = 0 /\ fault[r] = "none"
                          /\ ~deferred[r] /\ ~complete[r] /\ r \notin owned
    /\ step[r] = "open" => /\ ready[r] = 1 /\ fault[r] = "none" /\ ~complete[r]
                           /\ Has(log[r], "Create")
                           /\ ~Has(log[r], "Result") /\ ~Has(log[r], "Complete")
    /\ step[r] = "answered" => /\ ready[r] = 4 /\ fault[r] = "none" /\ complete[r]
                               /\ Has(log[r], "Result") /\ ~Has(log[r], "Complete")
    /\ step[r] = "updating" => ready[r] = 4 /\ fault[r] = "none" /\ complete[r]
    /\ Sent(r) => step[r] = "open"
    /\ ready[r] = 4 /\ ~complete[r] =>
           /\ step[r] = "over" /\ fault[r] = "Response" /\ Has(log[r], "Create")
           /\ ~Has(log[r], "Result") /\ ~Has(log[r], "Complete")
    /\ deferred[r] => Has(log[r], "Create") /\ ~Has(log[r], "Loading")

\* The requests that count.
Counting == UnderWay \cup Leaked

Counted == IsFiniteSet(Counting) /\ active = Cardinality(Counting)

\* The updater's requests that go on, or would if their answer could be read.
Going ==
    {r \in Request :
        \/ step[r] = "updating"
        \/ /\ r \in owned /\ r \in hooked
           /\ step[r] \in {"open", "answered"} \/ (ready[r] = 4 /\ ~complete[r])}

\* Of them only the last can go on.
Chained ==
    stray \/ /\ Going \subseteq {updater}
             /\ timer => Going = {}
             /\ ~running => Going = {} /\ ~timer

IInv == /\ TypeOK
        /\ \A r \in Request : Shape(r)
        /\ Counted
        /\ Chained
-------------------------------------------------------------------------------
(* Logs. *)

\* A callback is in a log after it was called, and what was in it stays.
LEMMA HasAppend ==
    ASSUME NEW c \in Seq(Callback), NEW x, NEW e
    PROVE  Has(Append(c, x), e) <=> (Has(c, e) \/ e = x)
<1>1. /\ DOMAIN Append(c, x) = 1..Len(c)+1
      /\ \A i \in 1..Len(c) : Append(c, x)[i] = c[i]
      /\ Append(c, x)[Len(c)+1] = x
      /\ DOMAIN c = 1..Len(c) /\ Len(c) \in Nat
  OBVIOUS
<1>2. ASSUME Has(c, e) PROVE Has(Append(c, x), e)
  <2>1. PICK i \in DOMAIN c : c[i] = e  BY <1>2 DEF Has, Exchanged!Has
  <2> QED  BY <1>1, <2>1 DEF Has, Exchanged!Has
<1>3. ASSUME e = x PROVE Has(Append(c, x), e)
  BY <1>1, <1>3 DEF Has, Exchanged!Has
<1>4. ASSUME Has(Append(c, x), e), e # x PROVE Has(c, e)
  <2>1. PICK i \in DOMAIN Append(c, x) : Append(c, x)[i] = e  BY <1>4 DEF Has, Exchanged!Has
  <2>2. i \in 1..Len(c)  BY <1>1, <1>4, <2>1
  <2> QED  BY <1>1, <2>1, <2>2 DEF Has, Exchanged!Has
<1> QED  BY <1>2, <1>3, <1>4

\* Nothing is in the empty log.
LEMMA EmptyLog == \A e : ~Has(<<>>, e)
<1>1. DOMAIN <<>> = {}  OBVIOUS
<1> QED  BY <1>1 DEF Has, Exchanged!Has
-------------------------------------------------------------------------------
(* Types. *)

\* Except for the count, every step keeps the types by itself: those of the
\* requests, and those of the updater.
RequestTyped ==
    /\ step \in [Request -> Step] /\ ready \in [Request -> {0, 1, 4}]
    /\ deferred \in [Request -> BOOLEAN] /\ complete \in [Request -> BOOLEAN]
    /\ fault \in [Request -> Fault] /\ log \in [Request -> Seq(Callback)]
    /\ active \in Int
UpdaterTyped ==
    /\ owned \subseteq Request /\ hooked \subseteq Request
    /\ updater \in Request \cup {None} /\ timer \in BOOLEAN /\ running \in BOOLEAN
    /\ starts \in 0..MaxStarts /\ stray \in BOOLEAN

\* A callback makes a longer log of the same type.
LEMMA CallTyped ==
    ASSUME RequestTyped, NEW r \in Request, NEW e \in Callback, Call(r, e)
    PROVE  /\ log' \in [Request -> Seq(Callback)]
           /\ log'[r] = Append(log[r], e)
           /\ \A q \in Request \ {r} : log'[q] = log[q]
<1>1. Append(log[r], e) \in Seq(Callback)  BY DEF RequestTyped
<1> QED  BY <1>1 DEF RequestTyped, Call

\* So callback e is in the log of r, and else what was in it.
LEMMA CallHas ==
    ASSUME RequestTyped, NEW r \in Request, NEW e \in Callback, Call(r, e)
    PROVE  \A x : Has(log'[r], x) <=> Has(log[r], x) \/ x = e
<1>1. log'[r] = Append(log[r], e) /\ log[r] \in Seq(Callback)
  BY CallTyped DEF RequestTyped
<1> QED  BY <1>1, HasAppend

\* The step leaves request q alone.
Apart(q) ==
    /\ step'[q] = step[q] /\ ready'[q] = ready[q] /\ deferred'[q] = deferred[q]
    /\ complete'[q] = complete[q] /\ fault'[q] = fault[q] /\ log'[q] = log[q]
    /\ q \in owned' <=> q \in owned

LEMMA ApartShape == ASSUME NEW q, Shape(q), Apart(q) PROVE Shape(q)'
  BY DEF Shape, Apart, Sent

\* A step of request r: it is typed, keeps the shape of r and touches no other.
Good(r) == RequestTyped' /\ Shape(r)' /\ \A q \in Request \ {r} : Apart(q)

\* A new request is refused, or it is counted.
LEMMA MakeRequestGood ==
    ASSUME RequestTyped, NEW r \in Request, Shape(r), MakeRequest(r),
           \A q \in Request \ {r} : q \in owned' <=> q \in owned
    PROVE  /\ Good(r)
           /\ log' = log \/ (log[r] = <<>> /\ Call(r, "Create"))
<1>1. /\ step[r] = "new" /\ complete' = complete /\ log[r] = <<>> /\ ready[r] = 0
      /\ fault[r] = "none" /\ ~deferred[r] /\ ~complete[r]
  BY DEF MakeRequest, Shape
<1>2. CASE Refuse(r)
  <2>1. /\ step'[r] = "over" /\ ready'[r] = 0 /\ ~deferred'[r]
        /\ RequestTyped'
    BY <1>1, <1>2 DEF Refuse, RequestTyped, Step, Fault
  <2>2. Shape(r)'  BY <2>1 DEF Shape, Sent
  <2>3. \A q \in Request \ {r} : Apart(q)  BY <1>1, <1>2 DEF Refuse, Apart, RequestTyped
  <2> QED  BY <1>2, <2>1, <2>2, <2>3 DEF Refuse, Good
<1>3. ASSUME Counts(r)
      PROVE  /\ log' \in [Request -> Seq(Callback)] /\ active' \in Int
             /\ \A q \in Request \ {r} : log'[q] = log[q]
             /\ \A x : Has(log'[r], x) <=> x = "Create"
             /\ Call(r, "Create")
  <2>1. "Create" \in Callback  BY DEF Callback
  <2>2. Call(r, "Create") /\ active' = active + 1  BY <1>3 DEF Counts
  <2>3. \A x : Has(log'[r], x) <=> Has(log[r], x) \/ x = "Create"
    BY <2>1, <2>2, CallHas
  <2>4. \A x : ~Has(log[r], x)  BY <1>1, EmptyLog
  <2> QED  BY <2>1, <2>2, <2>3, <2>4, CallTyped DEF RequestTyped
<1>4. CASE OpenThrows(r)
  <2>1. Counts(r)  BY <1>4 DEF OpenThrows
  <2>2. /\ step'[r] = "over" /\ ready'[r] = 0 /\ ~deferred'[r]
        /\ RequestTyped'
    BY <1>1, <1>3, <1>4, <2>1 DEF OpenThrows, RequestTyped, Step, Fault
  <2>3. Shape(r)'  BY <2>2 DEF Shape, Sent
  <2>4. \A q \in Request \ {r} : Apart(q)
    BY <1>1, <1>3, <1>4, <2>1 DEF OpenThrows, Apart, RequestTyped
  <2> QED  BY <1>1, <1>3, <2>1, <2>2, <2>3, <2>4 DEF Good
<1>5. CASE SendThrows(r) \/ Sends(r)
  <2>1. Opened(r) /\ Counts(r)  BY <1>5 DEF SendThrows, Sends, Opened
  <2>2. /\ ready'[r] = 1 /\ ~complete'[r]
        /\ \/ step'[r] = "over" /\ fault'[r] = "send"
           \/ step'[r] = "open" /\ fault'[r] = "none"
        /\ RequestTyped'
    BY <1>1, <1>3, <1>5, <2>1 DEF Opened, SendThrows, Sends, RequestTyped, Step, Fault
  <2>3. Shape(r)'  BY <1>3, <2>1, <2>2 DEF Shape, Sent
  <2>4. \A q \in Request \ {r} : Apart(q)
    BY <1>1, <1>3, <1>5, <2>1 DEF Opened, SendThrows, Sends, Apart, RequestTyped
  <2> QED  BY <1>1, <1>3, <2>1, <2>2, <2>3, <2>4 DEF Good
<1> QED  BY <1>2, <1>4, <1>5 DEF MakeRequest

\* The deferred timer calls onLoading, however far the request has come.
LEMMA DeferredGood ==
    ASSUME RequestTyped, NEW r \in Request, Shape(r), Deferred(r)
    PROVE  /\ Good(r)
           /\ \/ log' = log
              \/ Has(log[r], "Create") /\ ~Has(log[r], "Loading") /\ Call(r, "Loading")
<1>1. /\ deferred[r] /\ ~deferred'[r]
      /\ UNCHANGED <<step, ready, complete, fault, active, owned>>
      /\ \A q \in Request \ {r} : deferred'[q] = deferred[q]
      /\ deferred' \in [Request -> BOOLEAN]
  BY DEF Deferred, RequestTyped, updVars
<1>2. "Loading" \in Callback  BY DEF Callback
<1>3. CASE log' = log
  BY <1>1, <1>3 DEF Good, RequestTyped, Shape, Sent, Apart
<1>4. CASE Call(r, "Loading")
  <2>1. \A x : Has(log'[r], x) <=> Has(log[r], x) \/ x = "Loading"
    BY <1>2, <1>4, CallHas
  <2>2. /\ log' \in [Request -> Seq(Callback)]
        /\ \A q \in Request \ {r} : log'[q] = log[q]
    BY <1>2, <1>4, CallTyped
  <2>3. Shape(r)'
    <3>1. step[r] # "new"  BY <1>1 DEF Shape
    <3> QED  BY <1>1, <2>1, <3>1 DEF Shape, Sent
  <2> QED  BY <1>1, <1>4, <2>2, <2>3 DEF Good, RequestTyped, Shape, Apart
<1> QED  BY <1>3, <1>4 DEF Deferred

\* A report of state 4 whose answer was read before calls nothing, and else for
\* the result, unless it cannot be read.
LEMMA OnStateChangeGood ==
    ASSUME RequestTyped, NEW r \in Request, Shape(r), OnStateChange4(r),
           Sent(r) \/ ready[r] = 4, ready' = [ready EXCEPT ![r] = 4],
           UNCHANGED <<deferred, active, owned>>
    PROVE  /\ Good(r)
           /\ \/ log' = log
              \/ /\ Has(log[r], "Create") /\ ~Has(log[r], "Result")
                 /\ ~Has(log[r], "Complete") /\ Call(r, "Result")
<1>1. /\ ready' \in [Request -> {0, 1, 4}] /\ ready'[r] = 4
      /\ \A q \in Request \ {r} : ready'[q] = ready[q]
  BY DEF RequestTyped
<1>2. CASE complete[r]
  <2>1. UNCHANGED <<step, complete, fault, log>>  BY <1>2 DEF OnStateChange4
  <2>2. ready[r] = 4  BY <1>2 DEF Shape
  <2> QED  BY <1>1, <1>2, <2>1, <2>2 DEF Good, RequestTyped, Shape, Sent, Apart
<1>3. CASE ~complete[r]
  <2>1. /\ Has(log[r], "Create") /\ ~Has(log[r], "Result") /\ ~Has(log[r], "Complete")
        /\ step[r] # "new"
    BY <1>3 DEF Shape
  <2>2. CASE ResponseThrows(r)
    <3>1. step'[r] = "over" /\ fault'[r] = "Response" /\ UNCHANGED <<complete, log>>
      BY <2>2 DEF ResponseThrows, RequestTyped
    <3>2. Shape(r)'  BY <1>1, <1>3, <2>1, <3>1 DEF Shape, Sent
    <3>3. RequestTyped' /\ \A q \in Request \ {r} : Apart(q)
      BY <1>1, <2>2 DEF ResponseThrows, RequestTyped, Step, Fault, Apart
    <3> QED  BY <3>1, <3>2, <3>3 DEF Good
  <2>3. CASE Results(r)
    <3>1. "Result" \in Callback /\ Call(r, "Result")  BY <2>3 DEF Callback, Results
    <3>2. PICK thrown \in BOOLEAN :
              /\ step' = [step EXCEPT ![r] = IF thrown THEN "over" ELSE "answered"]
              /\ fault' = [fault EXCEPT ![r] = IF thrown THEN "onException" ELSE "none"]
      BY <2>3 DEF Results
    <3>3. /\ complete'[r] /\ complete' \in [Request -> BOOLEAN]
          /\ step' \in [Request -> Step] /\ fault' \in [Request -> Fault]
          /\ \/ step'[r] = "over"
             \/ step'[r] = "answered" /\ fault'[r] = "none"
      BY <2>3, <3>2 DEF Results, RequestTyped, Step, Fault
    <3>4. \A x : Has(log'[r], x) <=> Has(log[r], x) \/ x = "Result"
      BY <3>1, CallHas
    <3>5. /\ log' \in [Request -> Seq(Callback)]
          /\ \A q \in Request \ {r} : log'[q] = log[q]
      BY <3>1, CallTyped
    <3>6. Shape(r)'  BY <1>1, <2>1, <3>3, <3>4 DEF Shape, Sent
    <3>7. \A q \in Request \ {r} : Apart(q)
      BY <1>1, <2>3, <3>2, <3>5 DEF Results, RequestTyped, Apart
    <3>8. RequestTyped'  BY <1>1, <3>3, <3>5 DEF RequestTyped
    <3> QED  BY <2>1, <3>1, <3>6, <3>7, <3>8 DEF Good
  <2> QED  BY <1>3, <2>2, <2>3 DEF OnStateChange4, Respond4
<1> QED  BY <1>2, <1>3

LEMMA ReportGood ==
    ASSUME RequestTyped, NEW r \in Request, Shape(r), Finished(r) \/ Again(r)
    PROVE  /\ Good(r)
           /\ \/ log' = log
              \/ /\ Has(log[r], "Create") /\ ~Has(log[r], "Result")
                 /\ ~Has(log[r], "Complete") /\ Call(r, "Result")
<1>1. /\ Sent(r) \/ ready[r] = 4
      /\ ready' = [ready EXCEPT ![r] = 4]
      /\ UNCHANGED <<deferred, active, owned>> /\ OnStateChange4(r)
  BY DEF Finished, Again, RequestTyped, updVars
<1> QED  BY <1>1, OnStateChangeGood

\* onComplete is called for an answered request, and is the last of it but for
\* updateComplete.
LEMMA EndsGood ==
    ASSUME RequestTyped, NEW r \in Request, Shape(r), Respond4Ends(r)
    PROVE  /\ Good(r)
           /\ \/ log' = log
              \/ /\ Has(log[r], "Result") /\ ~Has(log[r], "Complete")
                 /\ Call(r, "Complete")
<1>1. /\ ready[r] = 4 /\ fault[r] = "none" /\ complete[r]
      /\ UNCHANGED <<ready, deferred, complete, owned>>
  BY DEF Respond4Ends, CompleteThrows, CompleteReturns, UpdateContent, UpdateComplete,
         Shape, updVars
<1>2. /\ step' \in [Request -> Step] /\ step'[r] \in {"updating", "over"}
      /\ fault' \in [Request -> Fault] /\ active' \in Int
      /\ step'[r] = "updating" => fault'[r] = "none"
      /\ \A q \in Request \ {r} : step'[q] = step[q] /\ fault'[q] = fault[q]
  <2>1. CASE CompleteThrows(r)
    BY <1>1, <2>1 DEF CompleteThrows, RequestTyped, Step, Fault
  <2>2. CASE CompleteReturns(r)
    BY <1>1, <2>2 DEF CompleteReturns, Uncount, RequestTyped, Step
  <2>3. CASE UpdateContent(r)
    BY <1>1, <2>3 DEF UpdateContent, RequestTyped, Step
  <2>4. CASE UpdateComplete(r)
    BY <1>1, <2>4 DEF UpdateComplete, Uncount, RequestTyped, Step
  <2> QED  BY <2>1, <2>2, <2>3, <2>4 DEF Respond4Ends
<1>3. CASE UpdateComplete(r)
  <2>1. log' = log  BY <1>3 DEF UpdateComplete
  <2>2. Shape(r)'  BY <1>1, <1>2, <2>1 DEF Shape, Sent
  <2> QED  BY <1>1, <1>2, <2>1, <2>2 DEF Good, Apart, RequestTyped
<1>4. CASE CompleteThrows(r) \/ CompleteReturns(r) \/ UpdateContent(r)
  <2>1. step[r] = "answered" /\ Call(r, "Complete") /\ "Complete" \in Callback
    BY <1>4 DEF CompleteThrows, CompleteReturns, UpdateContent, Callback
  <2>2. \A x : Has(log'[r], x) <=> Has(log[r], x) \/ x = "Complete"
    BY <2>1, CallHas
  <2>3. /\ log' \in [Request -> Seq(Callback)]
        /\ \A q \in Request \ {r} : log'[q] = log[q]
    BY <2>1, CallTyped
  <2>4. Shape(r)'  BY <1>1, <1>2, <2>2 DEF Shape, Sent
  <2>5. RequestTyped'  BY <1>1, <1>2, <2>3 DEF RequestTyped
  <2> QED  BY <1>1, <1>2, <2>1, <2>3, <2>4, <2>5 DEF Good, Apart, Shape
<1> QED  BY <1>3, <1>4 DEF Respond4Ends

\* A callback that may follow is a step of Exchange.
MayCall(r, e) == Exchanged!MayFollow(log[r], e) /\ Call(r, e)

LEMMA ExchangeStep ==
    ASSUME NEW r \in Request, NEW e \in Callback, MayCall(r, e)
    PROVE  Exchanged!Next
  BY DEF MayCall, Exchanged!Next, Exchanged!Callback, Callback, Call

\* Every step either calls nothing or one callback that may follow.
LEMMA ShapeStep ==
    ASSUME RequestTyped, \A r \in Request : Shape(r), [Next]_vars
    PROVE  /\ RequestTyped' /\ \A r \in Request : Shape(r)'
           /\ [Exchanged!Next]_log
<1>0. ASSUME NEW r \in Request, Good(r)
      PROVE  RequestTyped' /\ \A q \in Request : Shape(q)'
  BY <1>0, ApartShape DEF Good
<1>1. ASSUME NEW r \in Request, NewRequest(r) \/ Start(r) \/ TimerFires(r)
      PROVE  Good(r) /\ [Exchanged!Next]_log
  <2>1. MakeRequest(r) /\ \A q \in Request \ {r} : q \in owned' <=> q \in owned
    BY <1>1 DEF NewRequest, updVars, Start, TimerFires, OnTimerEvent
  <2>2. CASE log[r] = <<>> /\ Call(r, "Create")
    <3>1. MayCall(r, "Create")  BY <2>2 DEF MayCall, Exchanged!MayFollow
    <3> QED  BY <2>1, <3>1, ExchangeStep, MakeRequestGood DEF Callback
  <2> QED  BY <2>1, <2>2, MakeRequestGood
<1>2. ASSUME NEW r \in Request, Deferred(r)
      PROVE  Good(r) /\ [Exchanged!Next]_log
  <2>1. log' = log \/ MayCall(r, "Loading")
    BY <1>2, DeferredGood DEF MayCall, Exchanged!MayFollow, Has
  <2> QED  BY <1>2, <2>1, DeferredGood, ExchangeStep DEF Callback
<1>3. ASSUME NEW r \in Request, Finished(r) \/ Again(r)
      PROVE  Good(r) /\ [Exchanged!Next]_log
  <2>1. log' = log \/ MayCall(r, "Result")
    BY <1>3, ReportGood DEF MayCall, Exchanged!MayFollow, Has
  <2> QED  BY <1>3, <2>1, ReportGood, ExchangeStep DEF Callback
<1>4. ASSUME NEW r \in Request, Respond4Ends(r)
      PROVE  Good(r) /\ [Exchanged!Next]_log
  <2>1. log' = log \/ MayCall(r, "Complete")
    BY <1>4, EndsGood DEF MayCall, Exchanged!MayFollow, Has
  <2> QED  BY <1>4, <2>1, EndsGood, ExchangeStep DEF Callback
<1>5. ASSUME UNCHANGED reqVars, active' = active, owned' = owned
      PROVE  /\ RequestTyped' /\ \A q \in Request : Shape(q)'
             /\ [Exchanged!Next]_log
  BY <1>5 DEF reqVars, RequestTyped, Shape, Sent
<1>6. ASSUME Stop \/ UNCHANGED vars
      PROVE  UNCHANGED reqVars /\ active' = active /\ owned' = owned
  BY <1>6 DEF Stop, vars, updVars
<1> QED  BY <1>0, <1>1, <1>2, <1>3, <1>4, <1>5, <1>6 DEF Next, Transport

\* The updater keeps its types.
LEMMA UpdaterTypedStep == ASSUME UpdaterTyped, [Next]_vars PROVE UpdaterTyped'
<1>1. ASSUME UNCHANGED updVars PROVE UpdaterTyped'  BY <1>1 DEF updVars, UpdaterTyped
<1>2. ASSUME NEW r \in Request, NewRequest(r) \/ Deferred(r) \/ Finished(r) \/ Again(r)
      PROVE  UpdaterTyped'
  BY <1>1, <1>2 DEF NewRequest, Deferred, Finished, Again
<1>3. ASSUME NEW r \in Request, OnTimerEvent(r)
      PROVE  owned' \subseteq Request /\ updater' \in Request \cup {None}
  BY <1>3 DEF OnTimerEvent, UpdaterTyped
<1>4. ASSUME NEW r \in Request, Start(r) PROVE UpdaterTyped'
  <2>1. starts' \in 0..MaxStarts  BY <1>4, StartsAssumption DEF Start, UpdaterTyped
  <2> QED  BY <1>3, <1>4, <2>1 DEF Start, UpdaterTyped
<1>5. ASSUME NEW r \in Request, TimerFires(r) PROVE UpdaterTyped'
  BY <1>3, <1>5 DEF TimerFires, UpdaterTyped
<1>6. ASSUME NEW r \in Request, Respond4Ends(r) PROVE UpdaterTyped'
  <2>1. CASE UpdateComplete(r)  BY <2>1 DEF UpdateComplete, UpdaterTyped
  <2> QED  BY <1>1, <1>6, <2>1 DEF Respond4Ends, CompleteThrows, CompleteReturns, UpdateContent
<1>7. ASSUME Stop PROVE UpdaterTyped'
  <2>1. stray' \in BOOLEAN /\ hooked' \subseteq Request
    BY <1>7 DEF Stop, UpdaterTyped
  <2> QED  BY <1>7, <2>1 DEF Stop, UpdaterTyped
<1>8. ASSUME UNCHANGED vars PROVE UpdaterTyped'  BY <1>1, <1>8 DEF vars
<1> QED  BY <1>2, <1>4, <1>5, <1>6, <1>7, <1>8 DEF Next, Transport
-------------------------------------------------------------------------------
(* The count of active requests. *)

Counts1(r) == step[r] \in {"open", "answered", "updating"} \/
              fault[r] \in {"open", "send", "Response", "onException", "Complete"}

LEMMA CountingIs == Counting = {r \in Request : Counts1(r)}
  BY DEF Counting, UnderWay, Leaked, Counts1

\* A step of r changes whether r counts, and the count with it.
LEMMA CountedMove ==
    ASSUME RequestTyped, Counted, NEW r \in Request, \A q \in Request \ {r} : Apart(q),
           \/ (Counts1(r)' <=> Counts1(r)) /\ active' = active
           \/ ~Counts1(r) /\ Counts1(r)' /\ active' = active + 1
           \/ Counts1(r) /\ ~Counts1(r)' /\ active' = active - 1
    PROVE  Counted'
<1>1. \A q \in Request \ {r} : Counts1(q)' <=> Counts1(q)
  BY DEF Apart, Counts1
<1>2. Counting = {q \in Request : Counts1(q)} /\ Counting' = {q \in Request : Counts1(q)'}
  BY CountingIs DEF Counting, UnderWay, Leaked, Counts1
<1>3. IsFiniteSet(Counting) /\ Cardinality(Counting) \in Nat /\ active = Cardinality(Counting)
  BY FS_CardinalityType DEF Counted
<1>4. CASE (Counts1(r)' <=> Counts1(r)) /\ active' = active
  <2>1. Counting' = Counting  BY <1>1, <1>2, <1>4
  <2> QED  BY <1>3, <1>4, <2>1 DEF Counted
<1>5. CASE ~Counts1(r) /\ Counts1(r)' /\ active' = active + 1
  <2>1. Counting' = Counting \cup {r} /\ r \notin Counting  BY <1>1, <1>2, <1>5
  <2>2. IsFiniteSet(Counting') /\ Cardinality(Counting') = Cardinality(Counting) + 1
    BY <1>3, <2>1, FS_AddElement
  <2> QED  BY <1>3, <1>5, <2>2 DEF Counted
<1>6. CASE Counts1(r) /\ ~Counts1(r)' /\ active' = active - 1
  <2>1. Counting' = Counting \ {r} /\ r \in Counting  BY <1>1, <1>2, <1>6
  <2>2. IsFiniteSet(Counting') /\ Cardinality(Counting') = Cardinality(Counting) - 1
    BY <1>3, <2>1, FS_RemoveElement
  <2> QED  BY <1>3, <1>6, <2>2 DEF Counted
<1> QED  BY <1>4, <1>5, <1>6

LEMMA CountedStep ==
    ASSUME RequestTyped, \A r \in Request : Shape(r), Counted, [Next]_vars
    PROVE  Counted'
<1>1. ASSUME NEW r \in Request, NewRequest(r) \/ Start(r) \/ TimerFires(r) PROVE Counted'
  <2>1. MakeRequest(r) /\ \A q \in Request \ {r} : q \in owned' <=> q \in owned
    BY <1>1 DEF NewRequest, updVars, Start, TimerFires, OnTimerEvent
  <2>2. \A q \in Request \ {r} : Apart(q)  BY <2>1, MakeRequestGood DEF Good
  <2>3. step[r] = "new" /\ fault[r] = "none" /\ ~Counts1(r)
    BY <2>1 DEF MakeRequest, Shape, Counts1
  <2>4. CASE Refuse(r)
    <3>1. ~Counts1(r)' /\ active' = active
      BY <2>4 DEF Refuse, Counts1, RequestTyped
    <3> QED  BY <2>2, <2>3, <3>1, CountedMove
  <2>5. CASE OpenThrows(r) \/ SendThrows(r) \/ Sends(r)
    <3>1. Counts1(r)' /\ active' = active + 1
      BY <2>5 DEF OpenThrows, SendThrows, Sends, Opened, Counts, Counts1, RequestTyped
    <3> QED  BY <2>2, <2>3, <3>1, CountedMove
  <2> QED  BY <2>1, <2>4, <2>5 DEF MakeRequest
<1>2. ASSUME UNCHANGED <<step, fault, active>> PROVE Counted'
  BY <1>2 DEF Counted, Counting, UnderWay, Leaked
<1>3. ASSUME NEW r \in Request, Deferred(r) PROVE Counted'
  BY <1>2, <1>3 DEF Deferred
<1>4. ASSUME NEW r \in Request, Finished(r) \/ Again(r) PROVE Counted'
  <2>1. \A q \in Request \ {r} : Apart(q)  BY <1>4, ReportGood DEF Good
  <2>2. active' = active /\ OnStateChange4(r)  BY <1>4 DEF Finished, Again
  <2>3. CASE complete[r]
    BY <1>2, <2>2, <2>3 DEF OnStateChange4
  <2>4. CASE ~complete[r]
    <3>1. Counts1(r)
      <4>1. Sent(r) \/ ready[r] = 4  BY <1>4 DEF Finished, Again
      <4> QED  BY <2>4, <4>1 DEF Shape, Counts1
    <3>2. Counts1(r)'
      <4>1. CASE ResponseThrows(r)  BY <4>1 DEF ResponseThrows, Counts1, RequestTyped
      <4>2. CASE Results(r)  BY <4>2 DEF Results, Counts1, RequestTyped
      <4> QED  BY <2>2, <2>4, <4>1, <4>2 DEF OnStateChange4, Respond4
    <3> QED  BY <2>1, <2>2, <3>1, <3>2, CountedMove
  <2> QED  BY <2>3, <2>4
<1>5. ASSUME NEW r \in Request, Respond4Ends(r) PROVE Counted'
  <2>1. \A q \in Request \ {r} : Apart(q)  BY <1>5, EndsGood DEF Good
  <2>2. Counts1(r) /\ fault[r] = "none"
    BY <1>5 DEF Respond4Ends, CompleteThrows, CompleteReturns, UpdateContent,
                UpdateComplete, Shape, Counts1
  <2>3. CASE CompleteThrows(r) \/ UpdateContent(r)
    <3>1. Counts1(r)' /\ active' = active
      BY <2>3 DEF CompleteThrows, UpdateContent, Counts1, RequestTyped
    <3> QED  BY <2>1, <2>2, <3>1, CountedMove
  <2>4. CASE CompleteReturns(r) \/ UpdateComplete(r)
    <3>1. ~Counts1(r)' /\ active' = active - 1
      BY <2>2, <2>4 DEF CompleteReturns, UpdateComplete, Uncount, Counts1, RequestTyped
    <3> QED  BY <2>1, <2>2, <3>1, CountedMove
  <2> QED  BY <1>5, <2>3, <2>4 DEF Respond4Ends
<1>6. ASSUME Stop \/ UNCHANGED vars PROVE Counted'
  BY <1>2, <1>6 DEF Stop, vars, reqVars
<1> QED  BY <1>1, <1>3, <1>4, <1>5, <1>6 DEF Next, Transport

\* What is counted is under way or has leaked, and not both.
LEMMA CountedAccounts ==
    ASSUME \A r \in Request : Shape(r), Counted
    PROVE  CountAccounts
<1>1. IsFiniteSet(UnderWay) /\ IsFiniteSet(Leaked)
  BY FS_Subset DEF Counted, Counting
<1>2. \A r \in UnderWay : fault[r] = "none" /\ (Sent(r) \/ ready[r] = 4)
  BY DEF UnderWay, Shape, Sent
<1>3. UnderWay \cap Leaked = {}  BY <1>2 DEF Leaked
<1>4. Cardinality(UnderWay) \in Nat /\ Cardinality(Leaked) \in Nat
  BY <1>1, FS_CardinalityType
<1>5. Cardinality(Counting) =
          Cardinality(UnderWay) + Cardinality(Leaked) - Cardinality(UnderWay \cap Leaked)
  BY <1>1, FS_Union DEF Counting
<1>6. Cardinality(UnderWay \cap Leaked) = 0  BY <1>3, FS_EmptySet
<1> QED  BY <1>2, <1>4, <1>5, <1>6 DEF Counted, CountAccounts
-------------------------------------------------------------------------------
(* The chain of the PeriodicalUpdater. *)

\* While nothing else of the updater goes on it may make its next request.
LEMMA TimerEventChained ==
    ASSUME RequestTyped, NEW r \in Request, \A q \in Request : Shape(q), Going = {},
           OnTimerEvent(r), running', timer' = FALSE, UNCHANGED hooked
    PROVE  Chained'
<1>1. MakeRequest(r) /\ owned' = owned \cup {r}  BY DEF OnTimerEvent
<1>2. \A q \in Request \ {r} : Apart(q)  BY <1>1, MakeRequestGood DEF Good
<1>3. Going' \subseteq {r}  BY <1>2 DEF Going, Apart
<1>4. CASE updater' = r  BY <1>3, <1>4 DEF Chained
<1>5. CASE fault'[r] # "none"
  <2>1. step'[r] = "over" /\ ready'[r] # 4
    BY <1>1, <1>5 DEF MakeRequest, Refuse, OpenThrows, SendThrows, Sends, Opened,
                      RequestTyped, Shape
  <2>2. Going' = {}  BY <1>3, <2>1 DEF Going
  <2> QED  BY <2>2 DEF Chained
<1> QED  BY <1>4, <1>5 DEF OnTimerEvent

LEMMA ChainedStep ==
    ASSUME RequestTyped, UpdaterTyped, \A r \in Request : Shape(r), Chained, [Next]_vars
    PROVE  Chained'
<1>1. ASSUME Going' \subseteq Going, UNCHANGED <<updater, timer, running, stray>>
      PROVE  Chained'
  BY <1>1 DEF Chained
<1>2. ASSUME NEW r \in Request, NewRequest(r) PROVE Chained'
  <2>1. step[r] = "new" /\ r \notin owned /\ MakeRequest(r) /\ UNCHANGED updVars
    BY <1>2 DEF NewRequest, MakeRequest, Shape
  <2>2. /\ \A q \in Request \ {r} : Apart(q)
        /\ step'[r] # "updating"
    BY <2>1, MakeRequestGood DEF updVars, Good, MakeRequest, Refuse, OpenThrows,
                                 SendThrows, Sends, Opened, RequestTyped
  <2>3. Going' \subseteq Going  BY <2>1, <2>2 DEF updVars, Going, Apart
  <2> QED  BY <1>1, <2>1, <2>3 DEF updVars
<1>3. CASE stray
  <2>1. ASSUME stray' PROVE Chained'  BY <2>1 DEF Chained
  <2>2. stray'
    BY <1>3 DEF Next, NewRequest, Start, TimerFires, Transport, Deferred, Finished, Again,
                Respond4Ends, CompleteThrows, CompleteReturns, UpdateContent,
                UpdateComplete, Stop, vars, updVars
  <2> QED  BY <2>1, <2>2
<1>4. ASSUME NEW r \in Request, Start(r), ~stray PROVE Chained'
  <2>1. Going = {} /\ timer' = FALSE /\ running' = TRUE /\ hooked' = hooked
    BY <1>4 DEF Start, Chained, UpdaterTyped
  <2> QED  BY <1>4, <2>1, TimerEventChained DEF Start
<1>5. ASSUME NEW r \in Request, TimerFires(r), ~stray PROVE Chained'
  <2>1. Going = {} /\ timer' = FALSE /\ running' = TRUE /\ hooked' = hooked
    BY <1>5 DEF TimerFires, Chained, UpdaterTyped
  <2> QED  BY <1>5, <2>1, TimerEventChained DEF TimerFires
<1>6. ASSUME NEW r \in Request, Deferred(r) PROVE Chained'
  BY <1>1, <1>6 DEF Deferred, updVars, Going
<1>7. ASSUME NEW r \in Request, Finished(r) \/ Again(r) PROVE Chained'
  <2>1. UNCHANGED updVars /\ OnStateChange4(r) /\ (Sent(r) \/ ready[r] = 4)
    BY <1>7 DEF Finished, Again
  <2>2. \A q \in Request \ {r} : Apart(q)  BY <1>7, ReportGood DEF Good
  <2>3. step'[r] = "updating" => step[r] = "updating"
    BY <2>1 DEF OnStateChange4, Respond4, ResponseThrows, Results, RequestTyped
  <2>4. ASSUME r \in Going' PROVE r \in Going
    <3>1. CASE complete[r]
      <4>1. UNCHANGED <<step, complete>>  BY <2>1, <3>1 DEF OnStateChange4
      <4> QED  BY <2>1, <2>4, <3>1, <4>1 DEF Going, updVars
    <3>2. CASE ~complete[r]
      BY <2>1, <2>3, <2>4, <3>2 DEF Going, Shape, updVars
    <3> QED  BY <3>1, <3>2
  <2>5. Going' \subseteq Going  BY <2>1, <2>2, <2>4 DEF updVars, Going, Apart
  <2> QED  BY <1>1, <2>1, <2>5 DEF updVars
<1>8. ASSUME NEW r \in Request, Respond4Ends(r), ~stray PROVE Chained'
  <2>1. UNCHANGED <<owned, hooked, updater, running, stray>>
    BY <1>8 DEF Respond4Ends, CompleteThrows, CompleteReturns, UpdateContent,
                UpdateComplete, updVars
  <2>2. \A q \in Request \ {r} : Apart(q)  BY <1>8, EndsGood DEF Good
  <2>3. complete'[r]
    BY <1>8 DEF Respond4Ends, CompleteThrows, CompleteReturns, UpdateContent,
                UpdateComplete, Shape
  <2>4. Going' \subseteq Going \cup {r}  BY <2>1, <2>2 DEF Going, Apart
  <2>5. CASE CompleteThrows(r) \/ CompleteReturns(r)
    <3>1. step'[r] = "over" /\ timer' = timer
      BY <2>5 DEF CompleteThrows, CompleteReturns, updVars, RequestTyped
    <3>2. r \notin Going'  BY <2>3, <3>1 DEF Going
    <3> QED  BY <1>1, <2>1, <2>4, <3>1, <3>2
  <2>6. CASE UpdateContent(r)
    <3>1. r \in Going /\ timer' = timer  BY <2>6 DEF UpdateContent, Going, updVars
    <3> QED  BY <1>1, <2>1, <2>4, <3>1
  <2>7. CASE UpdateComplete(r)
    <3>1. r \in Going /\ step'[r] = "over"  BY <2>7 DEF UpdateComplete, Going, RequestTyped
    <3>2. Going \subseteq {r} /\ running  BY <1>8, <3>1 DEF Chained
    <3>3. Going' = {}  BY <2>3, <2>4, <3>1, <3>2 DEF Going
    <3> QED  BY <2>1, <3>2, <3>3 DEF Chained
  <2> QED  BY <1>8, <2>5, <2>6, <2>7 DEF Respond4Ends
<1>9. ASSUME Stop, ~stray PROVE Chained'
  <2>1. UNCHANGED reqVars /\ owned' = owned /\ hooked' = hooked \ {updater}
    BY <1>9 DEF Stop
  <2>2. CASE step[updater] = "updating"  BY <1>9, <2>2 DEF Stop, Chained
  <2>3. CASE step[updater] # "updating"
    <3>1. Going' = {}
      BY <1>9, <2>1, <2>3 DEF Going, Chained, reqVars
    <3> QED  BY <1>9, <3>1 DEF Stop, Chained
  <2> QED  BY <2>2, <2>3
<1>10. ASSUME UNCHANGED vars PROVE Chained'
  BY <1>1, <1>10 DEF vars, reqVars, updVars, Going
<1> QED  BY <1>2, <1>3, <1>4, <1>5, <1>6, <1>7, <1>8, <1>9, <1>10 DEF Next, Transport
-------------------------------------------------------------------------------
(* The theorems. *)

\* What the runs call the type follows once the count cannot be negative.
LEMMA TypesAgree ==
    /\ TypeOK => RequestTyped /\ UpdaterTyped
    /\ RequestTyped /\ UpdaterTyped /\ Counted => TypeOK
<1>1. TypeOK => RequestTyped /\ UpdaterTyped
  BY DEF TypeOK, RequestTyped, UpdaterTyped, Callback
<1>2. ASSUME RequestTyped, UpdaterTyped, Counted PROVE TypeOK
  <2>1. active \in Nat  BY <1>2, FS_CardinalityType DEF Counted
  <2> QED  BY <1>2, <2>1 DEF RequestTyped, UpdaterTyped, TypeOK, Callback
<1> QED  BY <1>1, <1>2

LEMMA InvInit == Init => IInv
<1> SUFFICES ASSUME Init PROVE IInv  OBVIOUS
<1>1. RequestTyped
  <2>1. /\ step \in [Request -> Step] /\ ready \in [Request -> {0, 1, 4}]
        /\ deferred \in [Request -> BOOLEAN]
        /\ complete \in [Request -> BOOLEAN] /\ fault \in [Request -> Fault]
    BY DEF Init, Step, Fault
  <2>2. <<>> \in Seq(Callback)  OBVIOUS
  <2>3. log \in [Request -> Seq(Callback)]  BY <2>2 DEF Init
  <2> QED  BY <2>1, <2>3 DEF Init, RequestTyped
<1>2. UpdaterTyped
  <2>1. starts \in 0..MaxStarts  BY StartsAssumption DEF Init
  <2>2. owned \subseteq Request /\ hooked \subseteq Request  BY DEF Init
  <2>3. updater \in Request \cup {None}  BY DEF Init
  <2> QED  BY <2>1, <2>2, <2>3 DEF Init, UpdaterTyped
<1>3. \A r \in Request : Shape(r)  BY DEF Init, Shape, Sent
<1>4. Counting = {}  BY DEF Init, Counting, UnderWay, Leaked
<1>5. Counted  BY <1>4, FS_EmptySet DEF Init, Counted
<1>6. Chained  BY DEF Init, Chained, Going
<1> QED  BY <1>1, <1>2, <1>3, <1>5, <1>6, TypesAgree DEF IInv

LEMMA InvStep == IInv /\ [Next]_vars => IInv'
<1> SUFFICES ASSUME IInv, [Next]_vars PROVE IInv'  OBVIOUS
<1>1. RequestTyped /\ UpdaterTyped /\ (\A r \in Request : Shape(r)) /\ Counted /\ Chained
  BY TypesAgree DEF IInv
<1>2. UpdaterTyped'  BY <1>1, UpdaterTypedStep
<1>3. RequestTyped' /\ \A r \in Request : Shape(r)'  BY <1>1, ShapeStep
<1>4. Counted'  BY <1>1, CountedStep
<1>5. Chained'  BY <1>1, ChainedStep
<1>6. TypeOK'
  <2>1. active' \in Nat  BY <1>4, FS_CardinalityType DEF Counted
  <2> QED  BY <1>2, <1>3, <2>1 DEF RequestTyped, UpdaterTyped, TypeOK, Callback
<1> QED  BY <1>3, <1>4, <1>5, <1>6 DEF IInv

\* The inductive invariant: the log of each request is that of its place in
\* request() and respondToReadyState, the count is of the requests that count,
\* and the updater has one chain.
THEOREM Invariance == Spec => []IInv
BY InvInit, InvStep, PTL DEF Spec

\* Every variable keeps its type.
THEOREM TypeCorrect == Spec => []TypeOK
<1>1. IInv => TypeOK  BY DEF IInv
<1> QED  BY <1>1, Invariance, PTL

\* Ajax.activeRequestCount is the number of requests that were sent and are not
\* over, and of those it leaked: whose open, setRequestHeaders, send or onComplete
\* threw, whose answer could not be read, or whose onException threw.
THEOREM CountSound == Spec => []CountAccounts
<1>1. IInv => CountAccounts  BY CountedAccounts DEF IInv
<1> QED  BY <1>1, Invariance, PTL

\* The PeriodicalUpdater has one request or timer at a time, and none when
\* stopped, unless its own content stopped it.
THEOREM OneChainOnly == Spec => []OneChain
<1>1. IInv => OneChain
  <2> SUFFICES ASSUME IInv, ~stray PROVE OneChain  BY DEF OneChain
  <2>1. IsFiniteSet({updater}) /\ Cardinality({updater}) = 1  BY FS_Singleton
  <2>2. Chains \subseteq Going  BY DEF Chains, Going, UnderWay
  <2>3. Chains \subseteq {updater} /\ (timer => Chains = {})
        /\ (~running => Chains = {} /\ ~timer)
    BY <2>2 DEF IInv, Chained
  <2>4. IsFiniteSet(Chains) /\ Cardinality(Chains) <= 1 /\ Cardinality(Chains) \in Nat
    BY <2>1, <2>3, FS_Subset, FS_CardinalityType
  <2>5. timer => Cardinality(Chains) = 0  BY <2>3, FS_EmptySet
  <2> QED  BY <2>3, <2>4, <2>5 DEF OneChain
<1> QED  BY <1>1, Invariance, PTL

\* The detailed module implements the abstract one: Create, the result and
\* Complete come at most once and in this order, and Loading at most once.
THEOREM CallbacksOrdered == Spec => Ordered
<1>1. Init => Exchanged!Init  BY DEF Init, Exchanged!Init
<1>2. IInv /\ [Next]_vars => [Exchanged!Next]_log
  BY ShapeStep, TypesAgree DEF IInv
<1> QED  BY <1>1, <1>2, Invariance, PTL DEF Spec, Ordered, Exchanged!Spec
-------------------------------------------------------------------------------
(* The cache of handlers. *)

ObserversSpec == ObserversInit /\ [][ObserversNext]_observersVars

\* The elements have ids of their own, except on WebKit.
Numbered ==
    /\ webkit \in BOOLEAN /\ counter \in Ids /\ id \in [Element -> {0} \cup Ids]
    /\ id["document"] = 2
    /\ webkit => id["window"] = 2 /\ counter = 2
    /\ ~webkit => id["window"] = IF counter = 2 THEN 0 ELSE 3

\* The cache has wrappers of its event, and of the element that has the id; the
\* browser has each of them, and nothing else when no id is shared.
Cached ==
    /\ wrappers \in [Ids -> [EventName -> SUBSET Wrapper]]
    /\ listeners \in [Wrapper -> Nat]
    /\ \A i \in Ids, v \in EventName : \A w \in wrappers[i][v] : w[2] = v /\ id[w[1]] = i
    /\ \A w \in Wrapper : Registered(w) => listeners[w] > 0
    /\ ~webkit => \A w \in Wrapper : listeners[w] = IF Registered(w) THEN 1 ELSE 0

\* Who was called is who the browser had on the way, under the name of the event.
Called ==
    /\ fired = NotFired \/ \E e \in Element, v \in EventName :
                              fired = [element |-> e, event |-> v, calls |-> Calls(e, v)]

\* What is registered is what was asked for, or what stopping it threw for.
Told ==
    /\ asked \in [Wrapper -> {"no", "yes", "kept"}]
    /\ \A w \in Wrapper : asked[w] = "kept" => w[1] = "window"
    /\ ~webkit => \A w \in Wrapper : Registered(w) <=> asked[w] # "no"

ObserversInv == Numbered /\ Cached /\ Called /\ Told

LEMMA Identify ==
    ASSUME Numbered, NEW e \in Element, Identified(e), UNCHANGED webkit
    PROVE  /\ Numbered' /\ id'[e] = getEventID(e) /\ getEventID(e) \in Ids
           /\ \A d \in Element \ {e} : id'[d] = id[d]
           /\ id[e] # 0 => id' = id
           /\ id[e] = 0 => e = "window" /\ ~webkit /\ id'[e] = 3 /\ \A d \in Element : id[d] # 3
  BY DEF Numbered, Identified, getEventID, Ids, Element

LEMMA WrapperParts ==
    /\ \A w \in Wrapper : /\ w[1] \in Element /\ w[2] \in EventName /\ w[3] \in Handler
                          /\ w = <<w[1], w[2], w[3]>>
    /\ \A e \in Element, v \in EventName, h \in Handler : <<e, v, h>> \in Wrapper
  BY DEF Wrapper

\* Giving an element its id registers nothing.
LEMMA RegisteredStays ==
    ASSUME Numbered, Cached, NEW e \in Element, Identified(e), UNCHANGED webkit, NEW w \in Wrapper
    PROVE  /\ id'[w[1]] # 0 /\ w \in wrappers[id'[w[1]]][w[2]] <=> Registered(w)
<1>1. w[1] \in Element /\ w[2] \in EventName
  BY WrapperParts
<1>2. CASE id[w[1]] # 0
  BY <1>1, <1>2, Identify DEF Registered
<1>3. CASE id[w[1]] = 0
  <2>1. ~Registered(w)
    BY <1>3 DEF Registered
  <2>2. ASSUME id'[w[1]] # 0, w \in wrappers[id'[w[1]]][w[2]] PROVE FALSE
    <3>1. w[1] = e /\ id'[w[1]] = 3 /\ 3 \in Ids
      BY <1>1, <1>3, <2>2, Identify DEF Ids
    <3>2. id[w[1]] = 3
      BY <1>1, <2>2, <3>1 DEF Cached
    <3> QED BY <1>3, <3>2
  <2> QED BY <2>1, <2>2
<1> QED BY <1>2, <1>3

\* What a step must do with the cache and the browser.
Kept(ws, ls) ==
    /\ ws \in [Ids -> [EventName -> SUBSET Wrapper]] /\ ls \in [Wrapper -> Nat]
    /\ \A i \in Ids, v \in EventName : \A w \in ws[i][v] : w[2] = v /\ id'[w[1]] = i

LEMMA IdsStay ==
    ASSUME Numbered, Cached, NEW e \in Element, Identified(e), UNCHANGED webkit
    PROVE  Kept(wrappers, listeners)
<1>1. wrappers \in [Ids -> [EventName -> SUBSET Wrapper]] /\ listeners \in [Wrapper -> Nat]
  BY DEF Cached
<1>2. ASSUME NEW i \in Ids, NEW v \in EventName, NEW w \in wrappers[i][v] PROVE w[2] = v /\ id'[w[1]] = i
  <2>1. w \in Wrapper /\ w[2] = v /\ id[w[1]] = i /\ i # 0
    BY DEF Cached, Ids
  <2>2. w[1] \in Element
    BY <2>1, WrapperParts
  <2> QED BY <2>1, <2>2, Identify
<1> QED BY <1>1, <1>2 DEF Kept

\* Outside of WebKit an id is of one element.
LEMMA OneId ==
    ASSUME Numbered, NEW e \in Element, Identified(e), UNCHANGED webkit, ~webkit, NEW x \in Wrapper
    PROVE  id'[x[1]] = id'[e] <=> x[1] = e
<1>1. x[1] \in Element
  BY WrapperParts
<1>2. id'["window"] # id'["document"]
  BY Identify DEF Numbered, Ids
<1> QED BY <1>1, <1>2 DEF Element

LEMMA ObserveStep ==
    ASSUME Numbered, Cached, NEW e \in Element, NEW v \in EventName, NEW h \in Handler, ElementObserve(e, v, h)
    PROVE  /\ Cached'
           /\ ~webkit => \A x \in Wrapper : Registered(x)' <=> x = <<e, v, h>> \/ Registered(x)
<1> DEFINE w == <<e, v, h>>
<1>1. Identified(e) /\ UNCHANGED webkit /\ w \in Wrapper /\ w[1] = e /\ w[2] = v /\ w[3] = h
  BY WrapperParts DEF ElementObserve
<1>2. PICK i \in Ids : i = getEventID(e) /\ id'[e] = i
  BY <1>1, Identify
<1>3. Kept(wrappers, listeners)
  BY <1>1, IdsStay
<1>4. CASE h \in HandlersOf(wrappers[i][v])
  <2>1. UNCHANGED <<wrappers, listeners>>
    BY <1>2, <1>4 DEF ElementObserve
  <2>2. \A x \in Wrapper : Registered(x)' <=> Registered(x)
    BY <1>1, <2>1, RegisteredStays DEF Registered
  <2>3. ASSUME ~webkit PROVE Registered(w)
    <3>1. PICK y \in wrappers[i][v] : y[3] = h
      BY <1>4 DEF HandlersOf
    <3>2. y \in Wrapper /\ y[2] = v /\ id'[y[1]] = i
      BY <1>3, <3>1 DEF Kept
    <3>3. y[1] = e
      BY <1>1, <1>2, <2>3, <3>2, OneId
    <3>4. y = w
      BY <3>1, <3>2, <3>3, WrapperParts
    <3> QED BY <1>1, <1>2, <3>1, <3>4, RegisteredStays DEF Ids
  <2>4. Cached'
    BY <1>1, <1>3, <2>1, <2>2 DEF Cached, Kept
  <2> QED BY <2>2, <2>3, <2>4
<1>5. CASE h \notin HandlersOf(wrappers[i][v])
  <2>1. /\ wrappers' = [wrappers EXCEPT ![i][v] = @ \cup {w}]
        /\ listeners' = [listeners EXCEPT ![w] = @ + 1]
    BY <1>2, <1>5 DEF ElementObserve
  <2> HIDE DEF w
  <2>2. w \notin wrappers[i][v]
    BY <1>1, <1>5 DEF HandlersOf
  <2>3. /\ wrappers' \in [Ids -> [EventName -> SUBSET Wrapper]] /\ listeners' \in [Wrapper -> Nat]
        /\ \A j \in Ids, u \in EventName : wrappers'[j][u] = wrappers[j][u] \cup (IF j = i /\ u = v THEN {w} ELSE {})
        /\ \A x \in Wrapper : listeners'[x] = IF x = w THEN listeners[x] + 1 ELSE listeners[x]
    BY <1>1, <1>3, <2>1 DEF Kept
  <2>4. \A j \in Ids, u \in EventName : \A x \in wrappers'[j][u] : x[2] = u /\ id'[x[1]] = j
    BY <1>1, <1>2, <1>3, <2>3 DEF Kept
  <2>5. ASSUME NEW x \in Wrapper PROVE Registered(x)' <=> x = w \/ Registered(x)
    <3>1. x[1] \in Element /\ x[2] \in EventName /\ id' \in [Element -> {0} \cup Ids]
      BY <1>1, Identify, WrapperParts DEF Numbered
    <3>2. Registered(x) <=> id'[x[1]] # 0 /\ x \in wrappers[id'[x[1]]][x[2]]
      BY <1>1, RegisteredStays
    <3>3. Registered(x)' <=> id'[x[1]] # 0 /\ x \in wrappers'[id'[x[1]]][x[2]]
      BY DEF Registered
    <3>4. CASE x = w
      BY <1>1, <1>2, <2>3, <3>3, <3>4 DEF Ids
    <3>5. CASE x # w
      BY <2>3, <3>1, <3>2, <3>3, <3>5
    <3> QED BY <3>4, <3>5
  <2>6. ~Registered(w)
    <3>1. Registered(w) <=> id'[w[1]] # 0 /\ w \in wrappers[id'[w[1]]][w[2]]
      BY <1>1, RegisteredStays
    <3> QED BY <1>1, <1>2, <2>2, <3>1
  <2>7. \A x \in Wrapper : Registered(x)' => listeners'[x] > 0
    BY <2>3, <2>5, <1>3 DEF Cached, Kept
  <2>8. ~webkit' => \A x \in Wrapper : listeners'[x] = IF Registered(x)' THEN 1 ELSE 0
    BY <1>1, <2>3, <2>5, <2>6 DEF Cached
  <2>9. Cached'
    BY <2>3, <2>4, <2>7, <2>8 DEF Cached
  <2> QED BY <2>5, <2>9 DEF w
<1> QED BY <1>4, <1>5

LEMMA StopStep ==
    ASSUME Numbered, Cached, NEW e \in Element, NEW v \in EventName, NEW h \in Handler, ElementStop(e, v, h)
    PROVE  /\ Cached'
           /\ ~webkit => \A x \in Wrapper : Registered(x)' <=> x # <<e, v, h>> /\ Registered(x)
<1>1. Identified(e) /\ UNCHANGED webkit
  BY DEF ElementStop
<1>2. PICK i \in Ids : i = getEventID(e) /\ id'[e] = i
  BY <1>1, Identify
<1>3. Kept(wrappers, listeners)
  BY <1>1, IdsStay
<1>4. CASE h \notin HandlersOf(wrappers[i][v])
  <2>1. UNCHANGED <<wrappers, listeners>>
    BY <1>2, <1>4 DEF ElementStop
  <2>2. \A x \in Wrapper : Registered(x)' <=> Registered(x)
    BY <1>1, <2>1, RegisteredStays DEF Registered
  <2>3. <<e, v, h>> \in Wrapper /\ ~Registered(<<e, v, h>>)
    <3> DEFINE w == <<e, v, h>>
    <3>1. w \in Wrapper /\ w[1] = e /\ w[2] = v /\ w[3] = h
      BY WrapperParts
    <3> HIDE DEF w
    <3>2. w \notin wrappers[i][v]
      BY <1>4, <3>1 DEF HandlersOf
    <3>3. ~Registered(w)
      BY <1>1, <1>2, <3>1, <3>2, RegisteredStays
    <3> QED BY <3>1, <3>3 DEF w
  <2>4. Cached'
    BY <1>1, <1>3, <2>1, <2>2 DEF Cached, Kept
  <2> QED BY <2>2, <2>3, <2>4
<1>5. CASE h \in HandlersOf(wrappers[i][v])
  <2>1. PICK w \in wrappers[i][v] : /\ w[3] = h
                                    /\ wrappers' = [wrappers EXCEPT ![i][v] = @ \ {w}]
                                    /\ listeners' = [listeners EXCEPT ![w] = IF w[1] = e /\ @ > 0 THEN @ - 1 ELSE @]
    <3>1. findWrapper(i, v, h) \in wrappers[i][v] /\ findWrapper(i, v, h)[3] = h
      BY <1>5 DEF HandlersOf, findWrapper
    <3> QED BY <1>2, <1>5, <3>1 DEF ElementStop
  <2>2. w \in Wrapper /\ w[2] = v /\ id'[w[1]] = i
    BY <1>3, <2>1 DEF Kept
  <2>3. /\ wrappers' \in [Ids -> [EventName -> SUBSET Wrapper]] /\ listeners' \in [Wrapper -> Nat]
        /\ \A j \in Ids, u \in EventName : wrappers'[j][u] = wrappers[j][u] \ (IF j = i /\ u = v THEN {w} ELSE {})
        /\ \A x \in Wrapper : x # w => listeners'[x] = listeners[x]
        /\ w[1] = e /\ listeners[w] > 0 => listeners'[w] = listeners[w] - 1
    BY <1>3, <2>1, <2>2 DEF Kept
  <2>4. \A j \in Ids, u \in EventName : \A x \in wrappers'[j][u] : x[2] = u /\ id'[x[1]] = j
    BY <1>3, <2>3 DEF Kept
  <2>5. ASSUME NEW x \in Wrapper PROVE Registered(x)' <=> x # w /\ Registered(x)
    <3>1. x[1] \in Element /\ x[2] \in EventName /\ id' \in [Element -> {0} \cup Ids]
      BY <1>1, Identify, WrapperParts DEF Numbered
    <3>2. Registered(x) <=> id'[x[1]] # 0 /\ x \in wrappers[id'[x[1]]][x[2]]
      BY <1>1, RegisteredStays
    <3>3. Registered(x)' <=> id'[x[1]] # 0 /\ x \in wrappers'[id'[x[1]]][x[2]]
      BY DEF Registered
    <3>4. CASE x = w
      BY <2>2, <2>3, <3>1, <3>3, <3>4
    <3>5. CASE x # w
      BY <2>3, <3>1, <3>2, <3>3, <3>5
    <3> QED BY <3>4, <3>5
  <2>6. Registered(w)
    <3>1. Registered(w) <=> id'[w[1]] # 0 /\ w \in wrappers[id'[w[1]]][w[2]]
      BY <1>1, <2>2, RegisteredStays
    <3> QED BY <2>1, <2>2, <3>1 DEF Ids
  <2>7. \A x \in Wrapper : Registered(x)' => listeners'[x] > 0
    BY <2>3, <2>5, <1>3 DEF Cached, Kept
  <2>8. ~webkit => w[1] = e
    BY <1>1, <1>2, <2>2, OneId
  <2>9. ~webkit' => \A x \in Wrapper : listeners'[x] = IF Registered(x)' THEN 1 ELSE 0
    BY <1>1, <2>2, <2>3, <2>5, <2>6, <2>8 DEF Cached
  <2>10. ~webkit => w = <<e, v, h>>
    BY <2>1, <2>2, <2>8, WrapperParts
  <2>11. Cached'
    BY <2>3, <2>4, <2>7, <2>9 DEF Cached
  <2> QED BY <2>5, <2>10, <2>11
<1> QED BY <1>4, <1>5

LEMMA StopAllStep ==
    ASSUME Numbered, Cached, NEW e \in Element, NEW vs \in SUBSET EventName, e # "window", ElementStopAll(e, vs)
    PROVE  /\ Cached'
           /\ ~webkit => \A x \in Wrapper : Registered(x)' <=> Registered(x) /\ ~(x[1] = e /\ x[2] \in vs)
<1>1. Identified(e) /\ UNCHANGED webkit /\ DocumentStopAll(e, vs)
  BY DEF ElementStopAll
<1>2. PICK i \in Ids : i = getEventID(e) /\ id'[e] = i
  BY <1>1, Identify
<1>3. Kept(wrappers, listeners)
  BY <1>1, IdsStay
<1> DEFINE mine(w) == w[1] = e /\ w[2] \in vs /\ w \in wrappers[i][w[2]]
<1>4. /\ wrappers' = [wrappers EXCEPT ![i] = [v \in EventName |-> IF v \in vs THEN {} ELSE @[v]]]
      /\ listeners' = [w \in Wrapper |-> IF mine(w) /\ listeners[w] > 0 THEN listeners[w] - 1 ELSE listeners[w]]
  BY <1>1, <1>2 DEF DocumentStopAll
<1>5. /\ wrappers' \in [Ids -> [EventName -> SUBSET Wrapper]]
      /\ \A j \in Ids, u \in EventName : wrappers'[j][u] = IF j = i /\ u \in vs THEN {} ELSE wrappers[j][u]
  BY <1>3, <1>4 DEF Kept
<1>6. /\ listeners' \in [Wrapper -> Nat]
      /\ \A x \in Wrapper : /\ ~mine(x) => listeners'[x] = listeners[x]
                            /\ mine(x) /\ listeners[x] > 0 => listeners'[x] = listeners[x] - 1
  BY <1>3, <1>4 DEF Kept
<1>7. \A j \in Ids, u \in EventName : \A x \in wrappers'[j][u] : x[2] = u /\ id'[x[1]] = j
  BY <1>3, <1>5 DEF Kept
<1>8. ASSUME NEW x \in Wrapper
      PROVE  /\ Registered(x)' <=> Registered(x) /\ ~(id'[x[1]] = i /\ x[2] \in vs)
             /\ Registered(x) /\ x[1] = e => (mine(x) <=> x[2] \in vs)
             /\ mine(x) => Registered(x)
  <2>1. x[1] \in Element /\ x[2] \in EventName /\ id' \in [Element -> {0} \cup Ids]
    BY <1>1, Identify, WrapperParts DEF Numbered
  <2>2. Registered(x) <=> id'[x[1]] # 0 /\ x \in wrappers[id'[x[1]]][x[2]]
    BY <1>1, RegisteredStays
  <2>3. Registered(x)' <=> id'[x[1]] # 0 /\ x \in wrappers'[id'[x[1]]][x[2]]
    BY DEF Registered
  <2> QED BY <1>2, <1>5, <2>1, <2>2, <2>3 DEF Ids
<1>9. ASSUME NEW x \in Wrapper, ~webkit PROVE id'[x[1]] = i <=> x[1] = e
  BY <1>1, <1>2, <1>9, OneId
<1> HIDE DEF mine
<1>10. \A x \in Wrapper : Registered(x)' => listeners'[x] > 0
  <2> SUFFICES ASSUME NEW x \in Wrapper, Registered(x)' PROVE listeners'[x] > 0
    OBVIOUS
  <2>1. Registered(x) /\ ~(id'[x[1]] = i /\ x[2] \in vs)
    BY <1>8
  <2>2. ~mine(x)
    BY <1>2, <2>1 DEF mine
  <2> QED BY <1>6, <2>1, <2>2 DEF Cached
<1>11. ~webkit' => \A x \in Wrapper : listeners'[x] = IF Registered(x)' THEN 1 ELSE 0
  <2> SUFFICES ASSUME ~webkit, NEW x \in Wrapper PROVE listeners'[x] = IF Registered(x)' THEN 1 ELSE 0
    BY <1>1
  <2>1. listeners[x] = IF Registered(x) THEN 1 ELSE 0
    BY DEF Cached
  <2>2. mine(x) <=> Registered(x) /\ x[1] = e /\ x[2] \in vs
    BY <1>8 DEF mine
  <2>3. Registered(x)' <=> Registered(x) /\ ~(x[1] = e /\ x[2] \in vs)
    BY <1>8, <1>9
  <2> QED BY <1>6, <2>1, <2>2, <2>3
<1>12. Cached'
  BY <1>5, <1>6, <1>7, <1>10, <1>11 DEF Cached
<1> QED BY <1>8, <1>9, <1>12

\* The window has no stopObserving: what it registered stays.
LEMMA WindowStopStep ==
    ASSUME Numbered, Cached, NEW e \in Element, Identified(e), UNCHANGED <<webkit, wrappers, listeners>>
    PROVE  Cached' /\ \A x \in Wrapper : Registered(x)' <=> Registered(x)
<1>1. Kept(wrappers, listeners)
  BY IdsStay
<1>2. \A x \in Wrapper : Registered(x)' <=> Registered(x)
  BY RegisteredStays DEF Registered
<1>3. Cached'
  BY <1>1, <1>2 DEF Cached, Kept
<1> QED BY <1>2, <1>3

LEMMA ToldStep ==
    ASSUME Numbered, Cached, Told, NEW e \in Element,
           \/ \E v \in EventName, h \in Handler : ElementObserve(e, v, h) \/ ElementStop(e, v, h)
           \/ \E vs \in SUBSET EventName : ElementStopAll(e, vs)
    PROVE  Told'
<1>1. CASE webkit
  <2>1. UNCHANGED <<webkit, asked>>
    BY <1>1 DEF ElementObserve, ElementStop, ElementStopAll, WindowStopAll, DocumentStopAll, Ask
  <2> QED BY <1>1, <2>1 DEF Told
<1>2. ASSUME ~webkit, NEW v \in EventName, NEW h \in Handler, ElementObserve(e, v, h) PROVE Told'
  <2> DEFINE w == <<e, v, h>>
  <2>1. webkit' = webkit /\ asked' = [asked EXCEPT ![w] = "yes"] /\ w \in Wrapper
    BY <1>2, WrapperParts DEF ElementObserve, Ask
  <2>2. \A x \in Wrapper : Registered(x)' <=> x = w \/ Registered(x)
    BY <1>2, ObserveStep
  <2> HIDE DEF w
  <2> QED BY <1>2, <2>1, <2>2 DEF Told
<1>3. ASSUME ~webkit, NEW v \in EventName, NEW h \in Handler, ElementStop(e, v, h) PROVE Told'
  <2> DEFINE w == <<e, v, h>>
  <2>1. webkit' = webkit /\ asked' = [asked EXCEPT ![w] = "no"] /\ w \in Wrapper
    BY <1>3, WrapperParts DEF ElementStop, Ask
  <2>2. \A x \in Wrapper : Registered(x)' <=> x # w /\ Registered(x)
    BY <1>3, StopStep
  <2> HIDE DEF w
  <2> QED BY <1>3, <2>1, <2>2 DEF Told
<1>4. ASSUME ~webkit, NEW vs \in SUBSET EventName, ElementStopAll(e, vs) PROVE Told'
  <2>1. CASE e = "window"
    <3>1. /\ Identified(e) /\ UNCHANGED <<webkit, wrappers, listeners>>
          /\ asked' = [x \in Wrapper |-> IF x[1] = e /\ x[2] \in vs /\ asked[x] = "yes"
                                         THEN "kept" ELSE asked[x]]
      BY <1>4, <2>1 DEF ElementStopAll, WindowStopAll, Ask
    <3>2. \A x \in Wrapper : Registered(x)' <=> Registered(x)
      BY <3>1, WindowStopStep
    <3> QED BY <1>4, <2>1, <3>1, <3>2 DEF Told
  <2>2. CASE e # "window"
    <3>1. /\ webkit' = webkit
          /\ asked' = [x \in Wrapper |-> IF x[1] = e /\ x[2] \in vs THEN "no" ELSE asked[x]]
      BY <1>4, <2>2 DEF ElementStopAll, DocumentStopAll, Ask
    <3>2. \A x \in Wrapper : Registered(x)' <=> Registered(x) /\ ~(x[1] = e /\ x[2] \in vs)
      BY <1>4, <2>2, StopAllStep
    <3> QED BY <1>4, <3>1, <3>2 DEF Told
  <2> QED BY <2>1, <2>2
<1> QED BY <1>1, <1>2, <1>3, <1>4

LEMMA ObserversStep == ObserversInv /\ [ObserversNext]_observersVars => ObserversInv'
<1> SUFFICES ASSUME ObserversInv, [ObserversNext]_observersVars PROVE ObserversInv'
  OBVIOUS
<1>1. Numbered /\ Cached /\ Told
  BY DEF ObserversInv
<1>2. ASSUME NEW e \in Element, Identified(e), UNCHANGED webkit, fired' = NotFired PROVE Numbered' /\ Called'
  BY <1>1, <1>2, Identify DEF Called
<1>3. ASSUME NEW e \in Element, NEW v \in EventName, NEW h \in Handler, ElementObserve(e, v, h) PROVE ObserversInv'
  <2>1. Told'  BY <1>1, <1>3, ToldStep
  <2>2. Cached'  BY <1>1, <1>3, ObserveStep
  <2> QED BY <1>2, <1>3, <2>1, <2>2 DEF ObserversInv, ElementObserve
<1>4. ASSUME NEW e \in Element, NEW v \in EventName, NEW h \in Handler, ElementStop(e, v, h) PROVE ObserversInv'
  <2>1. Told'  BY <1>1, <1>4, ToldStep
  <2>2. Cached'  BY <1>1, <1>4, StopStep
  <2> QED BY <1>2, <1>4, <2>1, <2>2 DEF ObserversInv, ElementStop
<1>5. ASSUME NEW e \in Element, NEW vs \in SUBSET EventName, ElementStopAll(e, vs) PROVE ObserversInv'
  <2>1. Told'  BY <1>1, <1>5, ToldStep
  <2>2. Cached'
    <3>1. CASE e = "window"
      BY <1>1, <1>5, <3>1, WindowStopStep DEF ElementStopAll, WindowStopAll
    <3>2. CASE e # "window"
      BY <1>1, <1>5, <3>2, StopAllStep
    <3> QED BY <3>1, <3>2
  <2> QED BY <1>2, <1>5, <2>1, <2>2 DEF ObserversInv, ElementStopAll
<1>6. ASSUME NEW e \in Element, NEW v \in EventName, Fire(e, v) PROVE ObserversInv'
  <2>1. UNCHANGED <<webkit, counter, id, wrappers, listeners, asked>>
    BY <1>6 DEF Fire
  <2>2. Numbered' /\ Cached' /\ Told'
    BY <1>1, <2>1 DEF Numbered, Cached, Told, Registered
  <2>3. Calls(e, v)' = Calls(e, v)
    BY <2>1 DEF Calls
  <2>4. Called'
    BY <1>6, <2>3 DEF Fire, Called
  <2> QED BY <2>2, <2>4 DEF ObserversInv
<1>7. CASE UNCHANGED observersVars
  <2>1. UNCHANGED <<webkit, counter, id, wrappers, listeners, fired, asked>>
    BY <1>7 DEF observersVars
  <2>2. \A e, v : Calls(e, v)' = Calls(e, v)
    BY <2>1 DEF Calls
  <2> QED BY <2>1, <2>2 DEF ObserversInv, Numbered, Cached, Registered, Called, Told
<1> QED BY <1>3, <1>4, <1>5, <1>6, <1>7 DEF ObserversNext

LEMMA ObserversStart == ObserversInit => ObserversInv
<1> SUFFICES ASSUME ObserversInit PROVE ObserversInv
  OBVIOUS
<1>1. Numbered
  BY DEF ObserversInit, Numbered, Ids, Element
<1>2. Called
  BY DEF ObserversInit, Called
<1>3. PICK h \in Handler :
        /\ wrappers = [i \in Ids |-> [v \in EventName |->
                          IF webkit /\ i = 2 /\ v = "load" THEN {<<"window", "load", h>>} ELSE {}]]
        /\ listeners = [w \in Wrapper |-> IF webkit /\ w = <<"window", "load", h>> THEN 1 ELSE 0]
        /\ asked = [w \in Wrapper |-> "no"]
  BY DEF ObserversInit
<1> DEFINE x == <<"window", "load", h>>
<1>4. x \in Wrapper /\ x[1] = "window" /\ x[2] = "load"
  BY WrapperParts, ObserversAssumption DEF Element
<1> HIDE DEF x
<1>5. /\ \A i \in Ids, v \in EventName : wrappers[i][v] = IF webkit /\ i = 2 /\ v = "load" THEN {x} ELSE {}
      /\ \A w \in Wrapper : listeners[w] = IF webkit /\ w = x THEN 1 ELSE 0
      /\ wrappers \in [Ids -> [EventName -> SUBSET Wrapper]] /\ listeners \in [Wrapper -> Nat]
  BY <1>3, <1>4 DEF x
<1>6. ASSUME NEW w \in Wrapper PROVE Registered(w) => webkit /\ w = x
  <2>1. w[1] \in Element /\ w[2] \in EventName
    BY WrapperParts
  <2> QED BY <1>1, <1>5, <2>1 DEF Registered, Numbered
<1>7. Cached
  BY <1>1, <1>4, <1>5, <1>6 DEF Cached, Numbered
<1>8. Told
  BY <1>3, <1>6 DEF Told
<1> QED BY <1>1, <1>2, <1>7, <1>8 DEF ObserversInv

(* The handlers that are observed are those the browser has, each once,    *)
(* but for those of the window that stopping all of them threw for, and    *)
(* but for WebKit, where the browser may have more: Attached, for any      *)
(* events and handlers.                                                    *)
THEOREM AttachedAlways == ObserversSpec => []Attached
<1>1. ObserversInv => Attached
  <2> SUFFICES ASSUME ObserversInv PROVE Attached
    OBVIOUS
  <2>1. ASSUME fired.element # "none"
        PROVE  {c[1] : c \in fired.calls} = {w \in Wrapper : /\ w[1] \in Path(fired.element)
                                                            /\ w[2] = fired.event /\ listeners[w] > 0}
    <3>1. PICK e \in Element, v \in EventName : fired = [element |-> e, event |-> v, calls |-> Calls(e, v)]
      BY <2>1 DEF ObserversInv, Called, NotFired
    <3>2. fired.element = e /\ fired.event = v /\ fired.calls = Calls(e, v)
      BY <3>1
    <3>3. {c[1] : c \in Calls(e, v)} = {w \in Wrapper : w[1] \in Path(e) /\ w[2] = v /\ listeners[w] > 0}
      <4>1. ASSUME NEW c \in Calls(e, v)
            PROVE  c[1] \in {w \in Wrapper : w[1] \in Path(e) /\ w[2] = v /\ listeners[w] > 0}
        BY DEF Calls
      <4>2. ASSUME NEW w \in Wrapper, w[1] \in Path(e), w[2] = v, listeners[w] > 0
            PROVE  \E c \in Calls(e, v) : c[1] = w
        <5>1. <<w, listeners[w]>> \in Calls(e, v) /\ <<w, listeners[w]>>[1] = w
          BY <4>2 DEF Calls
        <5> QED BY <5>1
      <4> QED BY <4>1, <4>2
    <3> QED BY <3>2, <3>3
  <2>2. ASSUME ~webkit, NEW w \in Wrapper
        PROVE  /\ listeners[w] = IF asked[w] = "no" THEN 0 ELSE 1
               /\ Registered(w) <=> asked[w] # "no"
               /\ asked[w] = "kept" => w[1] = "window"
    <3>1. listeners[w] = IF Registered(w) THEN 1 ELSE 0
      BY <2>2 DEF ObserversInv, Cached
    <3>2. Registered(w) <=> asked[w] # "no"
      BY <2>2 DEF ObserversInv, Told
    <3>3. asked[w] = "kept" => w[1] = "window"
      BY <2>2 DEF ObserversInv, Told
    <3> QED BY <3>1, <3>2, <3>3
  <2>3. \A w \in Wrapper : Registered(w) => listeners[w] > 0
    BY DEF ObserversInv, Cached
  <2> QED BY <2>1, <2>2, <2>3 DEF Attached
<1> QED BY <1>1, ObserversStart, ObserversStep, PTL DEF ObserversSpec
===============================================================================
