-------------------------------- MODULE Desktop --------------------------------
(***************************************************************************)
(* The windows of a page: Window, Windows, Dialog and WindowUtilities of   *)
(* window.js, as chat.js opens them and as the library offers them.  The   *)
(* chat page loads no effects library, so windows show and hide at once.   *)
(*                                                                         *)
(* ui is what the page and the object Windows hold; the functions of the   *)
(* library are operators from a ui to the next, composed in the order of   *)
(* their calls.  Sizes and positions are those of Frame; overflow styles,  *)
(* the select boxes of IE and the notified observers are left out.         *)
(***************************************************************************)
EXTENDS Integers, Sequences, FiniteSets, SequencesExt

CONSTANTS Chat,         \* windows of open_window: never modal, kept when closed
          Dialogs,      \* windows of Dialog: modal, destroyed when closed
          Panel,        \* windows filled by setAjaxContent: modal, kept
          None,
          MaxRaise      \* bound on Windows.maxZIndex

Win == Chat \cup Dialogs \cup Panel

ASSUME KindsAssumption == /\ Chat \cap Dialogs = {} /\ Chat \cap Panel = {}
                          /\ Dialogs \cap Panel = {}
ASSUME NoneAssumption == None \notin Win

VARIABLES
    keep,       \* Window.keepMultiModalWindow
    ui,         \* the page and the object Windows
    ready,      \* overlayOpacity is known
    retries,    \* the timer of show's hack for Safari is pending
    asking,     \* the request of setAjaxContent is under way
    dragged     \* the window under a drag, or None

vars == <<keep, ui, ready, retries, asking, dragged>>

Init ==
    /\ keep \in BOOLEAN
    /\ ui = [windows |-> <<>>,              \* Windows.windows
             modals  |-> <<>>,              \* Windows.modalWindows
             made    |-> {},                \* constructed
             visible |-> {},                \* win.visible
             shown   |-> {},                \* win.element is displayed
             modal   |-> {},                \* win.modal
             z       |-> [w \in Win |-> 0], \* win.element's zIndex, 0 for none
             overlay |-> 0,                 \* zIndex of overlay_modal, 0 for none
             maxZ    |-> 0,                 \* Windows.maxZIndex
             focused |-> None,              \* Windows.focusedWindow
             risen   |-> {},                \* open modal windows that _recenter
                                            \* raised since the overlay was put
             mixed   |-> FALSE]             \* a modal window was shown twice or
                                            \* left when it was not the last
    /\ ready = {} /\ retries = {} /\ asking = {} /\ dragged = None
-------------------------------------------------------------------------------
(* The functions of the library. *)

Registered(u, w) == w \in Range(u.windows)

\* reject: the list without its entries that are w.
Reject(list, w) ==
    LET kept[n \in 0..Len(list)] ==
            IF n = 0 THEN <<>>
            ELSE IF list[n] = w THEN kept[n - 1] ELSE Append(kept[n - 1], list[n])
    IN  kept[Len(list)]

\* initialize: the window is not shown and has no zIndex.
Construct(u, w) == [u EXCEPT !.windows = Append(@, w), !.made = @ \cup {w}]

\* Mutation: the level is taken without adding one.
RaiseLevel(u, w) == [u EXCEPT !.z[w] = u.maxZ, !.focused = w]

\* setZIndex(maxZIndex + 1) and updateZindex: it blurs, and focuses win.
Raise(u, w) == [u EXCEPT !.z[w] = u.maxZ + 1, !.maxZ = u.maxZ + 1, !.focused = w]

ToFront(u, w) == IF u.z[w] < u.maxZ THEN Raise(u, w) ELSE u

\* initLightbox: the overlay is made, or moved over all windows.
DisableScreen(u) == [u EXCEPT !.overlay = u.maxZ + 1, !.maxZ = u.maxZ + 1, !.risen = {}]

EnableScreen(u) == [u EXCEPT !.overlay = 0]

\* A modal window that another one covers is hidden, or left under the overlay.
AddModalWindow(u, w) ==
    LET v == IF u.modals = <<>> \/ keep
             THEN DisableScreen(u)
             ELSE [u EXCEPT !.shown = @ \ {Last(u.modals)}]
    IN  [v EXCEPT !.modals = Append(@, w), !.mixed = @ \/ w \in Range(u.modals)]

\* The last one is taken, whichever window leaves, and the one before comes back.
RemoveModalWindow(u, w) ==
    IF u.modals = <<>> THEN EnableScreen([u EXCEPT !.mixed = TRUE])
    ELSE LET v == [u EXCEPT !.modals = Front(@), !.mixed = @ \/ Last(u.modals) # w]
         IN  CASE v.modals = <<>> -> EnableScreen(v)
               [] v.modals # <<>> /\ keep -> ToFront(v, Last(v.modals))
               [] v.modals # <<>> /\ ~keep -> [v EXCEPT !.shown = @ \cup {Last(v.modals)}]

\* Mutation: the window is raised before addModalWindow puts the overlay.
ShowRaisedFirst(u, w, isModal) ==
    LET v == [u EXCEPT !.visible = @ \cup {w}]
        x == CASE isModal                -> AddModalWindow(Raise([v EXCEPT !.modal = @ \cup {w}], w), w)
               [] ~isModal /\ v.z[w] = 0 -> Raise(v, w)
               [] ~isModal /\ v.z[w] # 0 -> v
    IN  IF Registered(u, w) THEN [x EXCEPT !.shown = @ \cup {w}] ELSE x

\* show when overlayOpacity is known, and show of a window that is not modal.
\* For a window that was destroyed setSize throws before the element is shown.
Show(u, w, isModal) ==
    LET v == [u EXCEPT !.visible = @ \cup {w}]
        x == CASE isModal                -> Raise([AddModalWindow(v, w) EXCEPT !.modal = @ \cup {w}], w)
               [] ~isModal /\ v.z[w] = 0 -> Raise(v, w)
               [] ~isModal /\ v.z[w] # 0 -> v
    IN  IF Registered(u, w) THEN [x EXCEPT !.shown = @ \cup {w}] ELSE x

\* unregister, and the element leaves the page.
Destroy(u, w) == [u EXCEPT !.windows = Reject(@, w), !.shown = @ \ {w},
                           !.risen = @ \ {w}]

\* Mutation: hide does not call removeModalWindow.
HideKept(u, w) ==
    LET v == [u EXCEPT !.visible = @ \ {w}]
    IN  IF w \in Dialogs THEN Destroy(v, w) ELSE [v EXCEPT !.shown = @ \ {w}]

Hide(u, w) ==
    LET v == [u EXCEPT !.visible = @ \ {w}]
        x == IF w \in u.modal THEN RemoveModalWindow(v, w) ELSE v
    IN  IF w \in Dialogs THEN Destroy(x, w) ELSE [x EXCEPT !.shown = @ \ {w}]

\* updateFocusedWindow: windows[length - 2], by the order they were made in.
UpdateFocusedWindow(u) ==
    [u EXCEPT !.focused = IF Len(u.windows) >= 2 THEN u.windows[Len(u.windows) - 1] ELSE None]

Close(u, w) == IF w \in u.visible THEN Hide(UpdateFocusedWindow(u), w) ELSE u

\* Windows.close finds the window by its id.
CloseById(u, w) == IF Registered(u, w) THEN Close(u, w) ELSE u

\* showCenter: of the windows here _openDialog's alone, until they are destroyed.
Centered(u) == Dialogs \cap Range(u.windows)

\* _recenter of each centered window, in the order their observers were added:
\* _center ends with toFront, whatever lies over the window.
RaiseEach(u, list) ==
    LET after[n \in 0..Len(list)] ==
            IF n = 0 THEN u
            ELSE LET v == after[n - 1]
                 IN  IF list[n] \in Dialogs THEN ToFront(v, list[n]) ELSE v
    IN  after[Len(list)]

Recenter(u) ==
    RaiseEach([u EXCEPT !.risen = @ \cup (Centered(u) \cap Range(u.modals))], u.windows)

\* closeAll: the list is replaced when a window is destroyed, so each goes
\* through the old one.
CloseEach(u, list) ==
    LET after[n \in 0..Len(list)] ==
            IF n = 0 THEN u ELSE CloseById(after[n - 1], list[n])
    IN  after[Len(list)]

\* closeAllModalWindows: the list is shortened under each, so that of two modal
\* windows only one is closed.
CloseModals(u, count) ==
    LET after[n \in 0..count] ==
            IF n = 0 THEN u
            ELSE LET v == after[n - 1]
                 IN  IF n <= Len(v.modals) THEN Close(v, v.modals[n]) ELSE v
    IN  after[count]
-------------------------------------------------------------------------------
(* Code of the page. *)

Room(n) == ui.maxZ + n <= MaxRaise

\* Mutation: a new chat window is not brought to the front.
OpenWindowBehind(w) ==
    /\ w \in Chat /\ Room(1)
    /\ ui' = Show(IF w \in ui.made THEN ui ELSE Construct(ui, w), w, FALSE)
    /\ UNCHANGED <<keep, ready, retries, asking, dragged>>

\* open_window of chat.js: a window that was closed is shown again, in front.
OpenWindow(w) ==
    /\ w \in Chat /\ Room(1)
    /\ ui' = IF w \in ui.made THEN ToFront(Show(ui, w, FALSE), w)
                              ELSE Show(Construct(ui, w), w, FALSE)
    /\ UNCHANGED <<keep, ready, retries, asking, dragged>>

\* The timeout of _getWindowBorderSize, which only modal windows wait for.
Ready(w) ==
    /\ w \in ui.made \ (Chat \cup ready)
    /\ ready' = ready \cup {w}
    /\ UNCHANGED <<keep, ui, retries, asking, dragged>>

\* _openDialog: the overlay's opacity is not known yet, so show tries again later.
OpenDialog(w) ==
    /\ w \in Dialogs \ ui.made
    /\ ui' = [Construct(ui, w) EXCEPT !.visible = @ \cup {w}]
    /\ retries' = retries \cup {w}
    /\ UNCHANGED <<keep, ready, asking, dragged>>

ShowAgain(w) ==
    /\ w \in retries /\ Room(2)
    /\ IF w \in ready
       THEN retries' = retries \ {w} /\ ui' = Show(ui, w, TRUE)
       ELSE UNCHANGED retries /\ ui' = [ui EXCEPT !.visible = @ \cup {w}]
    /\ UNCHANGED <<keep, ready, asking, dragged>>

\* setAjaxContent(url, options, false, true) of a window made when first needed.
SetAjaxContent(w) ==
    /\ w \in Panel \ asking
    /\ ui' = IF w \in ui.made THEN ui ELSE Construct(ui, w)
    /\ asking' = asking \cup {w}
    /\ UNCHANGED <<keep, ready, retries, dragged>>

\* _setAjaxContent shows the window, whatever happened to it meanwhile.
AjaxContentComes(w) ==
    /\ w \in asking /\ Room(2)
    /\ asking' = asking \ {w}
    /\ IF w \in ready
       THEN ui' = Show(ui, w, TRUE) /\ UNCHANGED retries
       ELSE ui' = [ui EXCEPT !.visible = @ \cup {w}] /\ retries' = retries \cup {w}
    /\ UNCHANGED <<keep, ready, dragged>>

\* closeInfo: Windows.close of the last dialog.
CloseInfo(w) ==
    /\ w \in Dialogs \cap ui.made /\ Room(1)
    /\ ui' = CloseById(ui, w) /\ ui' # ui
    /\ UNCHANGED <<keep, ready, retries, asking, dragged>>

CloseAll ==
    /\ ui.windows # <<>> /\ Room(Cardinality(Win))
    /\ ui' = CloseEach(ui, ui.windows) /\ ui' # ui
    /\ UNCHANGED <<keep, ready, retries, asking, dragged>>

CloseAllModalWindows ==
    /\ ui.modals # <<>> /\ Room(Cardinality(Win))
    /\ ui' = CloseModals(EnableScreen(ui), Len(ui.modals))
    /\ UNCHANGED <<keep, ready, retries, asking, dragged>>
-------------------------------------------------------------------------------
(* The user, who reaches the windows that are displayed over the overlay. *)

Over(u, w)   == w \in u.shown /\ u.z[w] > u.overlay
Reachable(w) == dragged = None /\ Over(ui, w)

\* The content is clicked: toFront; maximizing and restoring raise it as well.
MouseDown(w) ==
    /\ Reachable(w) /\ Room(1)
    /\ ui' = ToFront(ui, w) /\ ui' # ui
    /\ UNCHANGED <<keep, ready, retries, asking, dragged>>

\* _initDrag: an invisible overlay of its own catches the mouse until _endDrag.
InitDrag(w) ==
    /\ w \in Chat /\ Reachable(w) /\ Room(2)
    /\ ui' = LET u == ToFront(ui, w) IN [u EXCEPT !.maxZ = @ + 1]
    /\ dragged' = w
    /\ UNCHANGED <<keep, ready, retries, asking>>

EndDrag ==
    /\ dragged # None /\ dragged' = None
    /\ UNCHANGED <<keep, ui, ready, retries, asking>>

\* The close button, which dialogs do not have.
CloseButton(w) ==
    /\ w \notin Dialogs /\ Reachable(w) /\ Room(1)
    /\ ui' = CloseById(ui, w)
    /\ UNCHANGED <<keep, ready, retries, asking, dragged>>

\* A button of a dialog: the mousedown raises it, then okCallback or
\* cancelCallback closes the focused window.  Callbacks of the application that
\* keep the window open change nothing here.
DialogButton(w) ==
    /\ w \in Dialogs /\ Reachable(w) /\ Room(2)
    /\ LET u == ToFront(ui, w) IN
          ui' = IF u.focused = None THEN u ELSE Close(u, u.focused)
    /\ UNCHANGED <<keep, ready, retries, asking, dragged>>

\* The page is resized or scrolled.
Resized ==
    /\ Room(Cardinality(Dialogs))
    /\ ui' = Recenter(ui) /\ ui' # ui
    /\ UNCHANGED <<keep, ready, retries, asking, dragged>>

\* Nothing is followed once the modal windows are mixed.
Next ==
    /\ ~ui.mixed
    /\ \/ \E w \in Win :
             \/ OpenWindow(w) \/ OpenDialog(w) \/ SetAjaxContent(w) \/ AjaxContentComes(w)
             \/ Ready(w) \/ ShowAgain(w) \/ CloseInfo(w)
             \/ MouseDown(w) \/ InitDrag(w) \/ CloseButton(w) \/ DialogButton(w)
       \/ EndDrag \/ CloseAll \/ CloseAllModalWindows \/ Resized

Spec == Init /\ [][Next]_vars
-------------------------------------------------------------------------------
TypeOK ==
    /\ keep \in BOOLEAN /\ dragged \in Win \cup {None}
    /\ ready \subseteq Win /\ retries \subseteq Win /\ asking \subseteq Win
    /\ IsInjective(ui.windows) /\ Range(ui.windows) \subseteq ui.made
    /\ \A S \in {ui.made, ui.visible, ui.shown, ui.modal, ui.risen} : S \subseteq Win
    /\ ui.z \in [Win -> 0..ui.maxZ] /\ ui.overlay \in 0..ui.maxZ
    /\ ui.focused \in Win \cup {None} /\ ui.mixed \in BOOLEAN

\* While no modal window is shown twice or left out of turn, modalWindows holds
\* each open modal window once, and the overlay is there as long as it has one.
ModalStack ==
    ~ui.mixed => /\ IsInjective(ui.modals)
                 /\ Range(ui.modals) = ui.visible \cap ui.modal
                 /\ ui.overlay # 0 <=> ui.modals # <<>>

\* The last modal window can be reached over the overlay, unless it was
\* destroyed before its time to show came: then the overlay stays and nothing
\* on the page can take it away.  Those before it cannot be reached, unless
\* the page was resized or scrolled since the overlay was put: with
\* keepMultiModalWindow _recenter then raises the dialogs under the overlay
\* over it, where the user may answer them out of turn.
Dismissable ==
    ~ui.mixed /\ ui.modals # <<>> =>
        /\ Over(ui, Last(ui.modals)) \/ ~Registered(ui, Last(ui.modals))
        /\ \A w \in Range(Front(ui.modals)) : Over(ui, w) => keep /\ w \in ui.risen

\* Windows that were shown, and the overlay, are at levels of their own.
Stacked ==
    /\ \A v, w \in Win : v # w /\ ui.z[v] # 0 => ui.z[v] # ui.z[w]
    /\ \A w \in Win : ui.overlay # 0 => ui.z[w] # ui.overlay
    /\ \A w \in ui.shown : ui.z[w] # 0

\* open_window, for a message or a click on a contact, brings its window over
\* all that is shown, also when it was closed, covered or never opened.
OnTop(u, w) == /\ w \in u.shown /\ u.z[w] > u.overlay
               /\ \A v \in u.shown \ {w} : u.z[v] < u.z[w]
ChatOnTop == [][\A w \in Chat : OpenWindow(w) => OnTop(ui', w)]_vars
===============================================================================
