-------------------------------- MODULE LivePipe --------------------------------
(***************************************************************************)
(* The windows of livepipe/window.js: Control.Window, Control.Overlay,     *)
(* Control.Modal and Control.LightBox.  The administration page loads the  *)
(* file without an effects library, so no window fades.                    *)
(*                                                                         *)
(* ui is what the page and the two objects hold; the methods are operators *)
(* from a ui to the next, composed in the order of their calls and of the  *)
(* observers they notify.  Positions are left out; mouse hover opens and   *)
(* closes like a click; the iframe shims are left out.                     *)
(***************************************************************************)
EXTENDS Integers, Sequences, FiniteSets, SequencesExt

CONSTANTS Win,          \* windows
          Modal,        \* those that are Control.Modal or open as one
          Light,        \* those that are Control.LightBox
          Remote,       \* href shown by an Ajax request
          Image,        \* href of an image
          Framed,       \* href shown in an iframe
          None,
          MaxMade       \* bound on the windows that are constructed

ASSUME KindsAssumption == /\ Modal \subseteq Win /\ Light \subseteq Win
                          /\ Remote \cup Image \cup Framed \subseteq Win
                          /\ Remote \cap Image = {} /\ Remote \cap Framed = {}
                          /\ Image \cap Framed = {} /\ Light \cap (Image \cup Framed) = {}
                          /\ None \notin Win

\* The effects of a link are bound to it; other windows own their element.
Linked == Remote \cup Image \cup Framed

VARIABLES
    ui,         \* the page, Control.Window, Control.Overlay and Control.Modal
    reports     \* this browser reports an aborted request as complete

vars == <<ui, reports>>

Init ==
    /\ reports \in BOOLEAN
    /\ ui = [list     |-> <<>>,                  \* Control.Window.windows
             made     |-> {},                    \* constructed
             gone     |-> {},                    \* destroyed
             open     |-> {},                    \* isOpen
             shown    |-> {},                    \* the container is displayed
             z        |-> [w \in Win |-> 0],     \* zIndex over baseZIndex
             loaded   |-> {},                    \* remoteContentLoaded
             stage    |-> [w \in Win |-> "idle"],\* what the window waits for
             failed   |-> {},                    \* its request failed or was aborted
             light    |-> [w \in Win |-> "off"], \* the indicator
             overlay  |-> FALSE,                 \* Control.Overlay is displayed
             onclick  |-> <<>>,                  \* closeHandlers on the overlay
             ready    |-> {},                    \* overlayFinishedOpening
             current  |-> None]                  \* Control.Modal.current
-------------------------------------------------------------------------------
(* The methods. *)

\* The array without its entries equal to e.
Without(list, e) ==
    LET kept[n \in 0..Len(list)] ==
            IF n = 0 THEN <<>>
            ELSE IF list[n] = e THEN kept[n - 1] ELSE Append(kept[n - 1], list[n])
    IN  kept[Len(list)]

\* Mutation: the levels are not set again.
KeepLevels(u, w) == [u EXCEPT !.list = Append(Without(@, w), w)]

\* without(w) and push(w); every listed window gets the level of its index.
BringToFront(u, w) ==
    LET order == Append(Without(u.list, w), w)
    IN  [u EXCEPT !.list = order,
                  !.z = [x \in Win |-> IF \E i \in DOMAIN order : order[i] = x
                                       THEN (CHOOSE i \in DOMAIN order : order[i] = x) - 1
                                       ELSE @[x]]]

ShowIndicator(u, w) == [u EXCEPT !.light[w] = "timer"]

\* Mutation: the timer that would show the indicator is not cleared.
TimerKept(u, w) == [u EXCEPT !.light[w] = IF @ = "timer" THEN "timer" ELSE "off"]

\* The timer that would show it is cleared too.
HideIndicator(u, w) == [u EXCEPT !.light[w] = "off"]

ShowOverlay(u) == [u EXCEPT !.overlay = TRUE]

HideOverlay(u) == [u EXCEPT !.overlay = FALSE]

\* Mutation: the overlay stays shown when the last modal closes.
OverlayLeft(u, w) ==
    IF w \in Modal THEN [u EXCEPT !.current = None, !.ready = @ \ {w}] ELSE u

\* The observer of a modal window.
AfterClose(u, w) ==
    IF w \in Modal THEN [HideOverlay(u) EXCEPT !.current = None, !.ready = @ \ {w}] ELSE u

FinishOpen(u, w) ==
    LET v == [BringToFront(u, w) EXCEPT !.shown = @ \cup {w}, !.open = @ \cup {w}]
    IN  IF w \in Modal THEN [v EXCEPT !.current = w] ELSE v

\* A lightbox hides the images that came and waits for each of them.
OnSuccess(u, w) ==
    IF w \in Light THEN [u EXCEPT !.stage[w] = "images"]
    ELSE FinishOpen(HideIndicator([u EXCEPT !.stage[w] = "idle"], w), w)

\* close aborts the request; a browser that reports it has status 0, a success
\* without content, in which a lightbox finds no image to wait for.
Abort(u, w) ==
    IF u.stage[w] # "request" \/ w \notin Remote THEN u
    ELSE LET v == [u EXCEPT !.failed = @ \cup {w}]
         IN  IF reports /\ w \notin Light THEN OnSuccess(v, w) ELSE [v EXCEPT !.stage[w] = "idle"]

Close(u, w) ==
    IF w \notin u.open THEN u
    ELSE LET v == [u EXCEPT !.onclick = Without(@, w), !.shown = @ \ {w}]
             x == HideIndicator(Abort(v, w), w)
         IN  AfterClose([x EXCEPT !.open = @ \ {w}], w)

\* Mutation: opening a modal does not close the others.
CloseNone(u, w) == u

\* invoke('close'), one window of the list after the other.
CloseEach(u, list) ==
    LET after[n \in 0..Len(list)] == IF n = 0 THEN u ELSE Close(after[n - 1], list[n])
    IN  after[Len(list)]

\* windows.without(w).invoke('close'), in the order the list has at the call.
CloseOthers(u, w) == CloseEach(u, Without(u.list, w))

\* beforeOpen of a modal window shows the overlay, whose afterShow opens the
\* window again: the second time it closes the others and goes on.
BeforeOpen(u, w) ==
    IF w \notin Modal THEN u
    ELSE CloseOthers(IF w \in u.ready THEN u ELSE [ShowOverlay(u) EXCEPT !.ready = @ \cup {w}], w)

\* beforeOpen of a lightbox refuses while images are loading.
Refused(u, w) == w \in Light \ Remote /\ u.stage[w] = "images"

\* closeOnClick is 'overlay' for a modal window; a lightbox loses its options.
ObserveOverlay(u, w) ==
    IF w \in Modal \ Light /\ ~Contains(u.onclick, w) THEN [u EXCEPT !.onclick = Append(@, w)]
    ELSE u

\* The content of an href is asked for once, whatever becomes of it.
Load(u, w) ==
    LET v == [u EXCEPT !.loaded = @ \cup {w}]
    IN  CASE w \in Remote -> ShowIndicator([v EXCEPT !.stage[w] = "request"], w)
          [] w \in Image  -> [v EXCEPT !.stage[w] = "image"]
          [] w \in Framed -> FinishOpen(ShowIndicator([v EXCEPT !.stage[w] = "frame"], w), w)

Open(u, w) ==
    IF w \in u.open THEN BringToFront(u, w)
    ELSE LET v == BeforeOpen(u, w)
         IN  IF Refused(v, w) THEN v
             ELSE LET x == ObserveOverlay(v, w)
                  IN  IF w \in Linked \ x.loaded THEN Load(x, w) ELSE FinishOpen(x, w)
-------------------------------------------------------------------------------
(* Code of a page, clicks, answers and timers. *)

Live == ui.made \ ui.gone

\* A lightbox observes the images its container already has.
New(w) ==
    /\ w \notin ui.made /\ Cardinality(ui.made) < MaxMade
    /\ ui' = [ui EXCEPT !.made = @ \cup {w}, !.list = Append(@, w), !.z[w] = Len(ui.list),
                        !.stage[w] = IF w \in Light \ Remote THEN "images" ELSE "idle"]
    /\ UNCHANGED reports

UserOpen(w) == w \in Live /\ ui' = Open(ui, w) /\ UNCHANGED reports

UserClose(w) == w \in Live \cap ui.open /\ ui' = Close(ui, w) /\ UNCHANGED reports

\* Control.Modal.close
CloseCurrent == ui.current # None /\ ui' = Close(ui, ui.current) /\ UNCHANGED reports

ClickOverlay ==
    /\ ui.overlay
    /\ ui' = CloseEach(ui, ui.onclick)
    /\ UNCHANGED reports

MouseDown(w) == w \in Live \cap ui.shown /\ ui' = BringToFront(ui, w) /\ UNCHANGED reports

\* The window stays open if it was; the element of a link stays on the page.
Destroy(w) ==
    /\ w \in Live
    /\ ui' = [ui EXCEPT !.gone = @ \cup {w}, !.list = Without(@, w),
                        !.shown = IF w \in Linked THEN @ ELSE @ \ {w}]
    /\ UNCHANGED reports

Answer(w) ==
    /\ w \in Remote /\ ui.stage[w] = "request"
    /\ ui' = OnSuccess(ui, w)
    /\ UNCHANGED reports

\* onFailure, and onException of a request that could not be sent
Fails(w) ==
    /\ w \in Remote /\ ui.stage[w] = "request"
    /\ ui' = HideIndicator([ui EXCEPT !.stage[w] = "idle", !.failed = @ \cup {w}], w)
    /\ UNCHANGED reports

ImageLoads(w) ==
    /\ ui.stage[w] = "image"
    /\ ui' = FinishOpen(HideIndicator([ui EXCEPT !.stage[w] = "idle"], w), w)
    /\ UNCHANGED reports

FrameLoads(w) ==
    /\ ui.stage[w] = "frame"
    /\ ui' = HideIndicator([ui EXCEPT !.stage[w] = "idle"], w)
    /\ UNCHANGED reports

\* onAllImagesLoaded: a lightbox of the page itself opens, asked for or not.
ImagesLoad(w) ==
    /\ ui.stage[w] = "images"
    /\ LET v == [ui EXCEPT !.stage[w] = "idle"]
       IN  ui' = IF w \in Remote THEN FinishOpen(HideIndicator(v, w), w) ELSE Open(v, w)
    /\ UNCHANGED reports

Timer(w) ==
    /\ ui.light[w] = "timer"
    /\ ui' = [ui EXCEPT !.light[w] = "on"]
    /\ UNCHANGED reports

Next ==
    \/ CloseCurrent \/ ClickOverlay
    \/ \E w \in Win : \/ New(w) \/ UserOpen(w) \/ UserClose(w) \/ MouseDown(w) \/ Destroy(w)
                      \/ Answer(w) \/ Fails(w) \/ ImageLoads(w) \/ FrameLoads(w)
                      \/ ImagesLoad(w) \/ Timer(w)

Spec == Init /\ [][Next]_vars
-------------------------------------------------------------------------------
TypeOK ==
    /\ reports \in BOOLEAN
    /\ ui.list \in Seq(Win) /\ ui.onclick \in Seq(Win) /\ ui.overlay \in BOOLEAN
    /\ ui.made \subseteq Win /\ ui.gone \subseteq ui.made /\ ui.open \subseteq ui.made
    /\ ui.shown \subseteq ui.made /\ ui.loaded \subseteq ui.made /\ ui.failed \subseteq Remote
    /\ ui.z \in [Win -> 0..(MaxMade - 1)]
    /\ ui.stage \in [Win -> {"idle", "request", "image", "frame", "images"}]
    /\ ui.light \in [Win -> {"off", "timer", "on"}]
    /\ ui.ready \subseteq Modal /\ ui.current \in Modal \cup {None}

(* Of two open windows the one brought to the front later is above: the    *)
(* level of a new window may be that of an open one when windows were      *)
(* destroyed, but it is not shown before every level is set again.         *)
Layered ==
    \A i, j \in DOMAIN ui.list :
        i < j => /\ ui.list[i] # ui.list[j]
                 /\ {ui.list[i], ui.list[j]} \subseteq ui.open => ui.z[ui.list[i]] < ui.z[ui.list[j]]

\* A click on the overlay closes the window, now or once it is answered.
Leavable(w) ==
    Contains(ui.onclick, w) /\ (w \in ui.open \/ ui.stage[w] = "request")

\* A window that leaves the page behind the overlay, where its link cannot be
\* clicked: its request failed, or its image may never come, so that there is
\* nothing to close, destroyed meanwhile or not; or it is a lightbox, which
\* loses closeOnClick with its options.
Stranded(w) ==
    \/ w \notin ui.open /\ w \in ui.failed /\ ui.stage[w] = "idle"
    \/ w \notin ui.open /\ ui.stage[w] = "image"
    \/ w \in Light

(* The overlay is up for a modal window, and each that it was shown for    *)
(* and that was not closed since is one a click on the overlay closes, now *)
(* or once it is answered, or is stranded in one of three ways: failure    *)
(* does not take the overlay away again.                                   *)
Dismissable ==
    /\ ui.overlay => ui.ready # {}
    /\ \A w \in ui.ready : Leavable(w) \/ Stranded(w)

(* The indicator, and the timer that will show it, are off once the answer *)
(* is there, and of a lightbox the images it has, or the request failed or *)
(* the window was closed meanwhile.                                        *)
IndicatorGoes == \A w \in Win : ui.light[w] # "off" => ui.stage[w] # "idle"

(* A modal window of the page opens alone: the other windows are closed,   *)
(* and if none of them is modal it lies over the overlay and is current.   *)
(* (When it takes the place of another one, closing that one takes the     *)
(* overlay away; a browser that reports aborted requests shows one again.) *)
ModalAlone ==
    [][\A w \in Modal \ (Light \cup Linked) :
          w \in ui'.open \ ui.open =>
             /\ ui'.open \cap Range(ui'.list) = {w}
             /\ ui.open \cap Modal \cap Range(ui.list) = {} => ui'.overlay /\ ui'.current = w]_vars
===============================================================================
