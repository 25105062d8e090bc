------------------------------ MODULE Notifier ------------------------------
(***************************************************************************)
(* Object.Event of livepipe.js: the observers of one event of an object    *)
(* and of its class, and notify, step by step, because an observer may     *)
(* change the list that notify is going through.                           *)
(***************************************************************************)
EXTENDS Naturals, Sequences, FiniteSets, SequencesExt

CONSTANTS MaxOnce,          \* bound: calls of observeOnce
          Room              \* bound: observers of the object; the class has one

ASSUME NotifierAssumption == {MaxOnce, Room} \subseteq Nat

\* What an observer does: nothing, throw $break, stop observing, stop all the
\* observers of the event, take away the table of observers, observe "idle".
Observer == {"idle", "veto", "quit", "clear", "reset", "add"}

Scope == {"class", "own"}

Fits(s, list) == Len(list) <= IF s = "own" THEN Room ELSE 1

VARIABLES
    observers,      \* of the event, of the class and of the object
    phase,          \* "none", or what notify is calling
    next,           \* the index of its loop
    option,         \* what options[event_name] does
    made,           \* calls of observeOnce
    turn            \* of this phase: the list at its start, who was called, how it ended

notifierVars == <<observers, phase, next, option, made, turn>>

\* An entry is an observer, or the inner observer of a call of observeOnce.
Plain(o) == [o |-> o, once |-> 0]

NoTurn == [start |-> <<>>, called |-> <<>>, result |-> "none"]

NotifierInit ==
    /\ observers = [s \in Scope |-> <<>>]
    /\ phase = "none" /\ next = 1 /\ made = 0 /\ turn = NoTurn
    /\ option \in {"none", "veto"}

WithPlain(list, o) == IF Contains(list, Plain(o)) THEN list ELSE Append(list, Plain(o))

\* without: the list without its entries that are e.
WithoutOne(list, e) ==
    LET kept[n \in 0..Len(list)] ==
            IF n = 0 THEN <<>>
            ELSE IF list[n] = e THEN kept[n - 1] ELSE Append(kept[n - 1], list[n])
    IN  kept[Len(list)]

-----------------------------------------------------------------------------
Observe(s, o) ==
    /\ phase = "none"
    /\ observers' = [observers EXCEPT ![s] = WithPlain(@, o)]
    /\ Fits(s, observers'[s])
    /\ UNCHANGED <<phase, next, option, made, turn>>

\* A call of observeOnce makes a new inner observer, so none is there twice.
ObserveOnce(s, o) ==
    /\ phase = "none" /\ made < MaxOnce
    /\ made' = made + 1
    /\ observers' = [observers EXCEPT ![s] = Append(@, [o |-> o, once |-> made + 1])]
    /\ Fits(s, observers'[s])
    /\ UNCHANGED <<phase, next, option, turn>>

StopObserving(s, o) ==
    /\ phase = "none" /\ Contains(observers[s], Plain(o))
    /\ observers' = [observers EXCEPT ![s] = WithoutOne(@, Plain(o))]
    /\ UNCHANGED <<phase, next, option, made, turn>>

\* notify of the class goes first, then the option, then the object's own.
Notify ==
    /\ phase = "none"
    /\ phase' = "class" /\ next' = 1
    /\ turn' = [NoTurn EXCEPT !.start = observers["class"]]
    /\ UNCHANGED <<observers, option, made>>

\* What the list is after the outer observer of an entry was called.
After(list, o) ==
    CASE o = "quit"             -> WithoutOne(list, Plain("quit"))
      [] o \in {"clear", "reset"} -> <<>>
      [] o = "add"              -> WithPlain(list, "idle")
      [] OTHER                  -> list

\* Mutation: the observer of observeOnce is not removed.
CallKeeping(s) ==
    /\ phase = s /\ turn.result = "none" /\ next <= Len(observers[s])
    /\ LET e == observers[s][next]
       IN  /\ observers' = [observers EXCEPT ![s] = After(@, e.o)]
           /\ turn' = [turn EXCEPT !.called = Append(@, e), !.result =
                 CASE e.o = "veto" -> "vetoed" [] e.o = "reset" -> "failed" [] OTHER -> "none"]
    /\ next' = next + 1
    /\ UNCHANGED <<phase, option, made>>

\* An inner observer takes itself away when the outer one returned, and makes
\* the table again if that took it; without it the loop fails on its length.
Call(s) ==
    /\ phase = s /\ turn.result = "none" /\ next <= Len(observers[s])
    /\ LET e == observers[s][next]
           after == After(observers[s], e.o)
       IN  /\ observers' = [observers EXCEPT ![s] =
                 IF e.once # 0 /\ e.o # "veto" THEN WithoutOne(after, e) ELSE after]
           /\ turn' = [turn EXCEPT !.called = Append(@, e), !.result =
                 CASE e.o = "veto"                  -> "vetoed"
                   [] e.o = "reset" /\ e.once = 0   -> "failed"
                   [] OTHER                         -> "none"]
    /\ next' = next + 1
    /\ UNCHANGED <<phase, option, made>>

\* A loop that is over, or was left by $break: that of the class vetoes nothing.
\* Any other error leaves notify.
EndPhase ==
    /\ \/ phase = "class" /\ turn.result # "failed"
          /\ (turn.result = "none" => next > Len(observers["class"]))
          /\ IF option = "veto" THEN phase' = "none" /\ turn' = NoTurn
             ELSE phase' = "own" /\ turn' = [NoTurn EXCEPT !.start = observers["own"]]
       \/ /\ phase = "own" /\ turn.result # "failed"
          /\ (turn.result = "none" => next > Len(observers["own"]))
          /\ phase' = "none" /\ turn' = NoTurn
       \/ phase # "none" /\ turn.result = "failed" /\ phase' = "none" /\ turn' = NoTurn
    /\ next' = 1
    /\ UNCHANGED <<observers, option, made>>

NotifierNext ==
    \/ Notify \/ EndPhase
    \/ \E s \in Scope : Call(s) \/ \E o \in Observer : Observe(s, o) \/ ObserveOnce(s, o) \/ StopObserving(s, o)
-----------------------------------------------------------------------------
(* No observer is in a list twice, and none that observed once is called   *)
(* by two turns of notify: who was called is gone, unless it vetoed.  In a *)
(* loop that came to its end every observer had its turn, except that each *)
(* one that went away, or was taken away, cost at most one its turn.       *)
Notified ==
    /\ \A s \in Scope : IsInjective(observers[s])
    /\ phase # "none" =>
          LET left == Range(observers[phase])
              gone == Range(turn.start) \ left
              missed == {e \in left \cap Range(turn.start) : ~Contains(turn.called, e)}
          IN  /\ \A e \in Range(turn.called) : e.once # 0 /\ e.o # "veto" => e \notin left
              /\ IsInjective(turn.called)
              /\ turn.result = "none" /\ next > Len(observers[phase])
                    => Cardinality(missed) <= Cardinality(gone)
=============================================================================
