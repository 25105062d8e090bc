------------------------------ MODULE Observers ------------------------------
(***************************************************************************)
(* Event of prototype.js and livepipe.js: the handlers that scripts have   *)
(* on the window and the document, the cache that finds the wrapper of a   *)
(* handler again, and the listeners of the browser.  livepipe.js defines   *)
(* the functions anew over the same cache, with a counter of ids of its    *)
(* own; on WebKit prototype.js has observed the window by then, and        *)
(* livepipe.js observes the document first.                                *)
(***************************************************************************)
EXTENDS Integers, Sequences

CONSTANTS EventName,        \* what is observed; "load" is among them
          Handler,
          MaxLeft           \* bound: wrappers of one handler left with the browser

ASSUME ObserversAssumption == "load" \in EventName /\ MaxLeft \in Nat \ {0}

Element == {"window", "document"}

VARIABLES
    webkit,         \* Prototype.Browser.WebKit
    counter,        \* getEventID.id of the functions in force
    id,             \* _prototypeEventID of each element, 0 for none
    wrappers,       \* Event.cache: the wrappers of each id and event
    listeners,      \* how often the browser has each wrapper
    fired,          \* the last event: where, its name, who was called
    asked           \* history, not on WebKit: what scripts asked for, "no",
                    \* "yes", or "kept" where stopping it threw

observersVars == <<webkit, counter, id, wrappers, listeners, fired, asked>>

Ids == 2..3

Wrapper == Element \X EventName \X Handler

NotFired == [element |-> "none", event |-> "none", calls |-> {}]

\* Custom events all have the name of one event of the browser.
getDOMEventName(event) == IF event = "load" THEN "load" ELSE "dataavailable"

\* The id of an element, made when it is asked for the first time.
getEventID(e) == IF id[e] # 0 THEN id[e] ELSE counter + 1

Identified(e) ==
    /\ id' = [id EXCEPT ![e] = getEventID(e)]
    /\ counter' = IF id[e] # 0 THEN counter ELSE counter + 1

\* The page after prototype.js and livepipe.js were loaded.
ObserversInit ==
    /\ webkit \in BOOLEAN
    /\ counter = 2              \* the document has the first id
    /\ id = [e \in Element |-> IF e = "document" \/ webkit THEN 2 ELSE 0]
    /\ \E h \in Handler :       \* fireContentLoadedEvent
          /\ wrappers = [i \in Ids |-> [v \in EventName |->
                            IF webkit /\ i = 2 /\ v = "load" THEN {<<"window", "load", h>>} ELSE {}]]
          /\ listeners = [w \in Wrapper |-> IF webkit /\ w = <<"window", "load", h>> THEN 1 ELSE 0]
          /\ asked = [w \in Wrapper |-> "no"]
    /\ fired = NotFired
------------------------------------------------------------------------------
\* On WebKit nothing is said of what was asked for.
Ask(status) == asked' = IF webkit THEN asked ELSE status

HandlersOf(ws) == {w[3] : w \in ws}

findWrapper(i, v, h) == CHOOSE w \in wrappers[i][v] : w[3] = h

\* observe: a handler that the id has already is refused.
ElementObserve(e, v, h) ==
    LET i == getEventID(e)
        w == <<e, v, h>>
    IN  /\ Identified(e)
        /\ IF h \in HandlersOf(wrappers[i][v]) THEN UNCHANGED <<wrappers, listeners>>
           ELSE /\ listeners[w] < MaxLeft
                /\ wrappers' = [wrappers EXCEPT ![i][v] = @ \cup {w}]
                /\ listeners' = [listeners EXCEPT ![w] = @ + 1]
        /\ Ask([asked EXCEPT ![w] = "yes"])
        /\ fired' = NotFired /\ UNCHANGED webkit

\* stopObserving with a handler: the wrapper that the id finds is taken from
\* the cache, and from the browser when it is a wrapper of this element.
ElementStop(e, v, h) ==
    LET i == getEventID(e)
    IN  /\ Identified(e)
        /\ IF h \notin HandlersOf(wrappers[i][v]) THEN UNCHANGED <<wrappers, listeners>>
           ELSE LET w == findWrapper(i, v, h)
                IN  /\ wrappers' = [wrappers EXCEPT ![i][v] = @ \ {w}]
                    /\ listeners' = [listeners EXCEPT ![w] = IF w[1] = e /\ @ > 0 THEN @ - 1 ELSE @]
        /\ Ask([asked EXCEPT ![<<e, v, h>>] = "no"])
        /\ fired' = NotFired /\ UNCHANGED webkit

\* stopObserving of an event, or of every event the id has: each wrapper is
\* stopped by a call of element.stopObserving, which the document has.
DocumentStopAll(e, vs) ==
    LET i == getEventID(e)
        mine(w) == w[1] = e /\ w[2] \in vs /\ w \in wrappers[i][w[2]]
    IN  /\ wrappers' = [wrappers EXCEPT ![i] = [v \in EventName |-> IF v \in vs THEN {} ELSE @[v]]]
        /\ listeners' = [w \in Wrapper |-> IF mine(w) /\ listeners[w] > 0 THEN listeners[w] - 1 ELSE listeners[w]]
        /\ Ask([w \in Wrapper |-> IF w[1] = e /\ w[2] \in vs THEN "no" ELSE asked[w]])

\* The window has no such method, since Element.extend leaves it as it is: the
\* first wrapper throws and all stay.
WindowStopAll(e, vs) ==
    /\ Ask([w \in Wrapper |-> IF w[1] = e /\ w[2] \in vs /\ asked[w] = "yes" THEN "kept" ELSE asked[w]])
    /\ UNCHANGED <<wrappers, listeners>>

ElementStopAll(e, vs) ==
    /\ Identified(e)
    /\ IF e = "window" THEN WindowStopAll(e, vs) ELSE DocumentStopAll(e, vs)
    /\ fired' = NotFired /\ UNCHANGED webkit

\* What an event at an element reaches: it bubbles up to the window.
Path(e) == IF e = "document" THEN Element ELSE {"window"}

\* Mutation: the wrapper does not compare the name of the event.
CallsUnfiltered(e, v) ==
    {<<w, listeners[w]>> : w \in {u \in Wrapper : u[1] \in Path(e) /\ listeners[u] > 0
                                     /\ getDOMEventName(u[2]) = getDOMEventName(v)}}

\* A wrapper drops the custom events that are not its own.
Calls(e, v) ==
    {<<w, listeners[w]>> : w \in {u \in Wrapper : u[1] \in Path(e) /\ listeners[u] > 0
                                     /\ getDOMEventName(u[2]) = getDOMEventName(v) /\ u[2] = v}}

Fire(e, v) ==
    /\ fired' = [element |-> e, event |-> v, calls |-> Calls(e, v)]
    /\ UNCHANGED <<webkit, counter, id, wrappers, listeners, asked>>

ObserversNext ==
    \E e \in Element, v \in EventName :
        \/ \E h \in Handler : ElementObserve(e, v, h) \/ ElementStop(e, v, h)
        \/ ElementStopAll(e, {v}) \/ ElementStopAll(e, EventName)
        \/ v # "load" /\ Fire(e, v)
------------------------------------------------------------------------------
Registered(w) == id[w[1]] # 0 /\ w \in wrappers[id[w[1]]][w[2]]

(* Whatever scripts observed and stopped, one at a time or all at once,    *)
(* cache and browser have exactly the handlers that are observed, each     *)
(* once, and an event calls those of its own name on its way: nothing that *)
(* was stopped is called again, but what stopping all handlers of the      *)
(* window was to take away, which throws instead.  Not so on WebKit, where *)
(* the window and the document have one id: what the cache finds for the   *)
(* one may be a wrapper of the other, which stays with the browser.        *)
Attached ==
    /\ \A w \in Wrapper : Registered(w) => listeners[w] > 0
    /\ ~webkit => \A w \in Wrapper :
                     /\ listeners[w] = IF asked[w] = "no" THEN 0 ELSE 1
                     /\ Registered(w) <=> asked[w] # "no"
                     /\ asked[w] = "kept" => w[1] = "window"
    /\ fired.element # "none" =>
          {c[1] : c \in fired.calls} = {w \in Wrapper : /\ w[1] \in Path(fired.element)
                                                      /\ w[2] = fired.event /\ listeners[w] > 0}
==============================================================================
