--------------------------------- MODULE Ajax ---------------------------------
(***************************************************************************)
(* Ajax.Request, Ajax.Response, Ajax.Responders and Ajax.PeriodicalUpdater *)
(* of prototype.js.  A request is an object over an XMLHttpRequest whose   *)
(* readyState the browser moves from 1 to 4; each event calls              *)
(* onStateChange, and a timer of 10 ms stands in for the event of state 1. *)
(* A callback of the application may throw, onException included, and may  *)
(* open a dialog, during which browsers deliver further events: the        *)
(* handling of state 4 is two steps, the result callback and the rest, and *)
(* for a request of the updater a third, updateComplete after the content. *)
(* That the transport is let go at the end is left out: it stops only what *)
(* _complete stops already.                                                *)
(***************************************************************************)
EXTENDS Integers, FiniteSets, Sequences

CONSTANTS Request,      \* the requests, numbered in the order they are made
          None,         \* no request
          MaxStarts     \* bound on the calls of start

ASSUME RequestAssumption == Request \subseteq Nat
ASSUME NoneAssumption == None \notin Request
ASSUME StartsAssumption == MaxStarts \in Nat

VARIABLES
    step,       \* where request() and respondToReadyState are
    ready,      \* transport.readyState (2 and 3 call nothing that matters here)
    deferred,   \* the timer of respondToReadyState.defer(1) is pending
    complete,   \* _complete
    fault,      \* the call or callback of the request that threw
    log,        \* the callbacks of the request so far
    active,     \* Ajax.activeRequestCount
    owned,      \* the requests made by the PeriodicalUpdater
    hooked,     \* requests whose options.onComplete is still set
    updater,    \* this.updater of the PeriodicalUpdater
    timer,      \* this.timer of the PeriodicalUpdater is pending
    running,    \* start was called and stop was not called since
    starts,     \* calls of start
    stray       \* history: stop was called while content was being updated

reqVars == <<step, ready, deferred, complete, fault, log>>
updVars == <<owned, hooked, updater, timer, running, starts, stray>>
vars == <<reqVars, active, updVars>>

Step   == {"new", "open", "answered", "updating", "over"}
Fault  == {"none", "onCreate", "open", "send", "Response", "onException", "Complete"}

\* A callback is called for r: Create, Loading, Result or Complete.
Call(r, e) == log' = [log EXCEPT ![r] = Append(@, e)]

Init ==
    /\ step = [r \in Request |-> "new"]
    /\ ready = [r \in Request |-> 0]
    /\ deferred = [r \in Request |-> FALSE]
    /\ complete = [r \in Request |-> FALSE]
    /\ fault = [r \in Request |-> "none"]
    /\ log = [r \in Request |-> <<>>]
    /\ active = 0
    /\ owned = {} /\ hooked = Request /\ updater = None /\ timer = FALSE
    /\ running = FALSE /\ starts = 0 /\ stray = FALSE
-------------------------------------------------------------------------------
(* Making a request: four ways it can go, by the first call that throws.   *)

\* options.onCreate throws: no responder hears of the request.
Refuse(r) ==
    /\ fault' = [fault EXCEPT ![r] = "onCreate"]
    /\ step' = [step EXCEPT ![r] = "over"]
    /\ UNCHANGED <<ready, deferred, log, active>>

\* The responders hear of it, and the one of prototype.js counts it.
Counts(r) == Call(r, "Create") /\ active' = active + 1

\* transport.open throws: nothing follows the count.
OpenThrows(r) ==
    /\ fault' = [fault EXCEPT ![r] = "open"]
    /\ step' = [step EXCEPT ![r] = "over"]
    /\ Counts(r)
    /\ UNCHANGED <<ready, deferred>>

\* open returned and the timer of state 1 is set.
Opened(r) ==
    /\ Counts(r)
    /\ ready' = [ready EXCEPT ![r] = 1]
    /\ deferred' = [deferred EXCEPT ![r] = TRUE]

\* setRequestHeaders or send throws: the timer is all that will come.
SendThrows(r) ==
    /\ Opened(r)
    /\ fault' = [fault EXCEPT ![r] = "send"]
    /\ step' = [step EXCEPT ![r] = "over"]

Sends(r) ==
    /\ Opened(r)
    /\ step' = [step EXCEPT ![r] = "open"]
    /\ UNCHANGED fault

\* request, called by the constructor of Ajax.Request.
MakeRequest(r) ==
    /\ step[r] = "new" /\ \A q \in Request : q < r => step[q] # "new"
    /\ Refuse(r) \/ OpenThrows(r) \/ SendThrows(r) \/ Sends(r)
    /\ UNCHANGED complete

\* The application makes a request of its own.
NewRequest(r) == MakeRequest(r) /\ UNCHANGED updVars
-------------------------------------------------------------------------------
(* Events of the transport. *)

\* send has returned and the transport has not ended.
Sent(r) == ready[r] = 1 /\ fault[r] # "send"

\* new Ajax.Response: a header that is not UTF-8 throws, and so does onException
\* for JSON that cannot be read.  _complete is not set: a later report retries.
ResponseThrows(r) ==
    /\ step' = [step EXCEPT ![r] = "over"]
    /\ fault' = [fault EXCEPT ![r] = "Response"]
    /\ UNCHANGED <<complete, log>>

\* The result callback: onSuccess, onFailure or the one of the status.  What it
\* or a script throws goes to onException; when that throws too the rest is left
\* out, onComplete and the responders with it.
Results(r) ==
    /\ complete' = [complete EXCEPT ![r] = TRUE]
    /\ Call(r, "Result")
    /\ \E thrown \in BOOLEAN :
        /\ step' = [step EXCEPT ![r] = IF thrown THEN "over" ELSE "answered"]
        /\ fault' = [fault EXCEPT ![r] = IF thrown THEN "onException" ELSE "none"]

\* respondToReadyState(4) to the end of the result callback.
Respond4(r) == ResponseThrows(r) \/ Results(r)

\* Mutation: state 4 is answered without the test of _complete.
OnStateChange4Again(r) == Respond4(r)

\* onStateChange for state 4.  For the states before it, onLoaded and
\* onInteractive are called any number of times and change nothing here.
OnStateChange4(r) ==
    IF complete[r] THEN UNCHANGED <<step, complete, fault, log>> ELSE Respond4(r)

\* The timer of defer(1) runs respondToReadyState(1), however far the request is;
\* after the answer new Ajax.Response may throw here too.
Deferred(r) ==
    /\ deferred[r]
    /\ deferred' = [deferred EXCEPT ![r] = FALSE]
    /\ Call(r, "Loading") \/ (ready[r] = 4 /\ UNCHANGED log)
    /\ UNCHANGED <<step, ready, complete, fault, active, updVars>>

\* The transport ends: an answer, or status 0 for a broken or aborted request.
Finished(r) ==
    /\ Sent(r)
    /\ ready' = [ready EXCEPT ![r] = 4]
    /\ OnStateChange4(r)
    /\ UNCHANGED <<deferred, active, updVars>>

\* Browsers report state 4 more than once.
Again(r) ==
    /\ ready[r] = 4
    /\ OnStateChange4(r)
    /\ UNCHANGED <<ready, deferred, active, updVars>>
-------------------------------------------------------------------------------
(* The end of respondToReadyState(4): options.onComplete, the responders,  *)
(* and the transport is let go.  For a request of the PeriodicalUpdater    *)
(* onComplete is Ajax.Updater's, unless stop took it away: updateContent   *)
(* and then the updateComplete it was made with.                           *)

\* The responder that prototype.js registers counts the request.
Uncount == active' = active - 1

\* Mutation: an onComplete that threw is counted down all the same.
CompleteThrowsUncounted(r) ==
    /\ step[r] = "answered" /\ r \in hooked
    /\ step' = [step EXCEPT ![r] = "over"]
    /\ fault' = [fault EXCEPT ![r] = "Complete"]
    /\ Call(r, "Complete")
    /\ Uncount
    /\ UNCHANGED <<ready, deferred, complete, updVars>>

\* options.onComplete throws: for a request of the updater, in updateContent.
\* The responders' onComplete is not called.
CompleteThrows(r) ==
    /\ step[r] = "answered" /\ r \in hooked
    /\ step' = [step EXCEPT ![r] = "over"]
    /\ fault' = [fault EXCEPT ![r] = "Complete"]
    /\ Call(r, "Complete")
    /\ UNCHANGED <<ready, deferred, complete, active, updVars>>

CompleteReturns(r) ==
    /\ step[r] = "answered" /\ r \notin owned \cap hooked
    /\ step' = [step EXCEPT ![r] = "over"]
    /\ Call(r, "Complete")
    /\ Uncount
    /\ UNCHANGED <<ready, deferred, complete, fault, updVars>>

\* The content is put into the page, by an insertion or scripts that may stop
\* the updater.
UpdateContent(r) ==
    /\ step[r] = "answered" /\ r \in owned \cap hooked
    /\ step' = [step EXCEPT ![r] = "updating"]
    /\ Call(r, "Complete")
    /\ UNCHANGED <<ready, deferred, complete, fault, active, updVars>>

\* Mutation: the timer is not set again after an answer.
UpdateCompleteOnce(r) ==
    /\ step[r] = "updating"
    /\ step' = [step EXCEPT ![r] = "over"]
    /\ Uncount
    /\ UNCHANGED <<ready, deferred, complete, fault, log, updVars>>

\* updateComplete sets the timer, with a delay that is not modelled.
UpdateComplete(r) ==
    /\ step[r] = "updating"
    /\ step' = [step EXCEPT ![r] = "over"]
    /\ timer' = TRUE
    /\ Uncount
    /\ UNCHANGED <<ready, deferred, complete, fault, log,
                   owned, hooked, updater, running, starts, stray>>

Respond4Ends(r) ==
    CompleteThrows(r) \/ CompleteReturns(r) \/ UpdateContent(r) \/ UpdateComplete(r)
-------------------------------------------------------------------------------
(* Ajax.PeriodicalUpdater *)

\* onTimerEvent: this.updater = new Ajax.Updater(...), which is not assigned
\* when an exception of the constructor gets past onException.
OnTimerEvent(r) ==
    /\ MakeRequest(r)
    /\ owned' = owned \cup {r}
    /\ updater' = r \/ (fault'[r] # "none" /\ UNCHANGED updater)

\* start, by the constructor or after a stop.
Start(r) ==
    /\ ~running /\ starts < MaxStarts
    /\ running' = TRUE /\ starts' = starts + 1
    /\ OnTimerEvent(r)
    /\ UNCHANGED <<hooked, timer, stray>>

TimerFires(r) ==
    /\ timer /\ timer' = FALSE
    /\ OnTimerEvent(r)
    /\ UNCHANGED <<hooked, running, starts, stray>>

\* Mutation: stop leaves the timer of the next request set.
StopInFlight ==
    /\ running /\ running' = FALSE
    /\ updater # None
    /\ hooked' = hooked \ {updater}
    /\ stray' = (stray \/ step[updater] = "updating")
    /\ UNCHANGED <<reqVars, active, owned, updater, timer, starts>>

\* stop: the updater in flight loses its onComplete, the timer is cleared.  An
\* updater whose constructor threw is the application's to stop no more.
Stop ==
    /\ running /\ running' = FALSE
    /\ updater # None
    /\ hooked' = hooked \ {updater}
    /\ timer' = FALSE
    /\ stray' = (stray \/ step[updater] = "updating")
    /\ UNCHANGED <<reqVars, active, owned, updater, starts>>

Transport(r) ==
    \/ Deferred(r)
    \/ Finished(r) \/ Again(r)
    \/ Respond4Ends(r)

Next ==
    \/ \E r \in Request : NewRequest(r) \/ Start(r) \/ TimerFires(r) \/ Transport(r)
    \/ Stop

\* The browser ends every request that was sent, and runs what is due.
Fairness ==
    \A r \in Request :
        /\ WF_vars(Finished(r))
        /\ WF_vars(Respond4Ends(r))

Spec == Init /\ [][Next]_vars /\ Fairness
-------------------------------------------------------------------------------
TypeOK ==
    /\ step \in [Request -> Step] /\ ready \in [Request -> {0, 1, 4}]
    /\ deferred \in [Request -> BOOLEAN] /\ complete \in [Request -> BOOLEAN]
    /\ fault \in [Request -> Fault]
    /\ log \in [Request -> Seq({"Create", "Loading", "Result", "Complete"})]
    /\ active \in Nat /\ stray \in BOOLEAN
    /\ owned \subseteq Request /\ hooked \subseteq Request
    /\ updater \in Request \cup {None} /\ timer \in BOOLEAN /\ running \in BOOLEAN
    /\ starts \in 0..MaxStarts

\* Requests that are under way: sent, and their onComplete has not returned.
UnderWay == {r \in Request : step[r] \in {"open", "answered", "updating"}}
\* Requests that were counted, and of which a call threw so that nothing counts
\* them down.
Leaked ==
    {r \in Request : fault[r] \in {"open", "send", "Response", "onException", "Complete"}}

\* Ajax.activeRequestCount, which pages use to show that something is loading,
\* is the number of requests that were sent and are not over, plus those whose
\* open, setRequestHeaders, send or onComplete threw, whose answer could not be
\* read, or whose onException threw after the result callback or a script had:
\* each of these leaves it one too high, and nothing else does (request,
\* respondToReadyState).
CountAccounts ==
    /\ active = Cardinality(UnderWay) + Cardinality(Leaked)
    /\ \A r \in UnderWay : fault[r] = "none" /\ (Sent(r) \/ ready[r] = 4)

\* Requests of the updater that will set its timer, or make the next request.
Chains == {r \in UnderWay : r \in owned /\ (r \in hooked \/ step[r] = "updating")}

\* The PeriodicalUpdater polls with one request or timer at a time, however
\* stop and start interleave with a request in flight, and with none after stop,
\* as long as it was not stopped by its own content: updateComplete, which
\* comes after that, sets the timer again.
OneChain ==
    stray \/ /\ Cardinality(Chains) + (IF timer THEN 1 ELSE 0) <= 1
             /\ ~running => Chains = {} /\ ~timer

\* The callbacks of every request are those Exchange allows: one Create, then at
\* most one result, then at most one Complete, whatever throws and however often
\* state 4 is reported; and one Loading, which comes when its timer is due.
Exchanged == INSTANCE Exchange WITH calls <- log
Ordered == Exchanged!Spec

\* A request of the updater that was sent sets its timer for the next one,
\* unless the updater is stopped, or its answer, updateContent or onException
\* throws.
PollGoesOn ==
    \A r \in Request :
        (r \in Chains /\ Sent(r)) ~>
            (timer \/ ~running \/ fault[r] \in {"Response", "onException", "Complete"})
===============================================================================
