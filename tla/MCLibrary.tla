------------------------------ MODULE MCLibrary ------------------------------
(* Five parts of the vendored libraries in one run: a behaviour is one of  *)
(* the frame of a window, of the collections, of notify, of the events, or  *)
(* of the elements and their selectors.                                    *)
EXTENDS Frame, Library, Notifier, Observers

CONSTANTS Elem, Body, Marked, Named

VARIABLES part, kids, tag

Dom == INSTANCE Selectors

NoPage == kids = [p \in Elem \cup {Body} |-> <<>>] /\ tag = [e \in Elem |-> "div"]

\* The other parts while a part is not the one of the behaviour.
IdleFrame == FrameInit /\ ~f.wired /\ ~f.centered /\ f.top = 0
IdleLibrary == LibraryInit /\ subject = "select" /\ data.one /\ data.options = <<>>
IdleNotifier == NotifierInit /\ option = "none"
IdleObservers == ObserversInit /\ ~webkit

Init ==
    \/ part = "frame" /\ FrameInit /\ IdleLibrary /\ IdleNotifier /\ IdleObservers /\ NoPage
    \/ part = "library" /\ LibraryInit /\ IdleFrame /\ IdleNotifier /\ IdleObservers /\ NoPage
    \/ part = "notifier" /\ NotifierInit /\ IdleFrame /\ IdleLibrary /\ IdleObservers /\ NoPage
    \/ part = "observers" /\ ObserversInit /\ IdleFrame /\ IdleLibrary /\ IdleNotifier /\ NoPage
    \/ part = "page" /\ Dom!SelectorsInit /\ IdleFrame /\ IdleLibrary /\ IdleNotifier /\ IdleObservers

Next ==
    /\ UNCHANGED part
    /\ \/ part = "frame" /\ FrameNext /\ UNCHANGED <<libraryVars, notifierVars, observersVars, kids, tag>>
       \/ part = "library" /\ LibraryNext /\ UNCHANGED <<frameVars, notifierVars, observersVars, kids, tag>>
       \/ part = "notifier" /\ NotifierNext /\ UNCHANGED <<frameVars, libraryVars, observersVars, kids, tag>>
       \/ part = "observers" /\ ObserversNext /\ UNCHANGED <<frameVars, libraryVars, notifierVars, kids, tag>>
       \/ part = "page" /\ Dom!SelectorsNext /\ UNCHANGED <<frameVars, libraryVars, notifierVars, observersVars>>

\* What Selectors promises, in the behaviours that have a page.
PageAgrees == part = "page" => Dom!PageAgrees
===============================================================================
