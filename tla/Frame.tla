--------------------------------- MODULE Frame ---------------------------------
(***************************************************************************)
(* The place of one Window of window.js on its page, in the vertical: its  *)
(* top and height under drags, resizes, minimize, maximize, constraints    *)
(* and the cookie that keeps them over a reload.  The horizontal goes the  *)
(* same way, except that minimize leaves it alone.  The window is placed   *)
(* by its top, the page is not scrolled, and no effects library is loaded. *)
(***************************************************************************)
EXTENDS Integers

CONSTANTS Page,             \* height of the page
          Border,           \* heightN + heightS
          PadTop, PadBottom,\* constraintPad
          MinHeight, MaxHeight,
          Height,           \* options.height
          Fitted,           \* what _computeSize finds for the content, and 5
          Grid              \* gridY

ASSUME PageAssumption ==
    /\ {Page, Border, PadTop, PadBottom, MinHeight, MaxHeight, Height, Fitted} \subseteq Nat
    /\ Grid \in Nat \ {0} /\ 0 < MinHeight /\ MinHeight <= Height /\ Height <= MaxHeight
    /\ PadTop + MaxHeight + Border + PadBottom <= Page /\ 0 < Fitted /\ Fitted <= MaxHeight

VARIABLES
    f,          \* the window
    drag,       \* the drag under way
    cookie,     \* what was saved
    hist        \* what the properties compare with

frameVars == <<f, drag, cookie, hist>>

NoPlace == [top |-> 0, height |-> 0]
NoDrag  == [kind |-> "none", pointer |-> 0, org |-> 0, grip |-> 0]
NoCookie == [top |-> 0, height |-> 0, mini |-> FALSE, maxi |-> FALSE]

FrameInit ==
    /\ \E wired, centered \in BOOLEAN, top \in {0, PadTop} :
          /\ wired => ~centered
          /\ f = [top |-> top, height |-> Height,
               elem |-> Height + Border,        \* height of the element
               content |-> Height,              \* height of the content
               minimized |-> FALSE,
               row |-> 0,                       \* r2Height
               stored |-> NoPlace,              \* storedLocation
               bound |-> FALSE,                 \* constraint
               centered |-> centered,           \* shown by showCenter
               wired |-> wired,                 \* options.wiredDrag
               wiring |-> FALSE,                \* currentDrag is the wired element
               wire |-> 0]                      \* its top
    /\ drag = NoDrag /\ cookie = NoCookie
    /\ hist = [was    |-> NoPlace,            \* the place before it was maximized
               tall   |-> 0,                  \* the height before it was minimized
               lost   |-> FALSE,              \* reloaded while it was minimized
               odd    |-> FALSE,              \* shown while it was minimized
               jumped |-> FALSE]              \* centered again under the drag
-------------------------------------------------------------------------------
Round(v) == (v \div Grid) * Grid

IsMaximized(w) == w.stored # NoPlace

TopConstraint(w, top) ==
    LET low  == IF top < PadTop THEN PadTop ELSE top
        room == Page - PadBottom - w.height - Border
    IN  IF ~w.bound THEN top ELSE IF low > room THEN room ELSE low

HeightConstraint(w, h) ==
    LET room == Page - PadBottom - w.top - Border
    IN  IF w.bound /\ h > room THEN room ELSE h

\* Of a wired resize the element learns when the drag ends.
SetSize(w, h) ==
    LET low == IF ~w.minimized /\ h < MinHeight THEN MinHeight ELSE h
        s   == IF low > MaxHeight THEN MaxHeight ELSE low
    IN  IF w.wiring THEN [w EXCEPT !.height = s]
        ELSE [w EXCEPT !.height = s, !.elem = s + Border, !.content = s]

\* The top of what is dragged.
At(w) == IF w.wiring THEN w.wire ELSE w.top

PutAt(w, top) == IF w.wiring THEN [w EXCEPT !.wire = top] ELSE [w EXCEPT !.top = top]

SetLocation(w, top) == PutAt(w, TopConstraint(w, top))

Center(w) == SetLocation(w, (Page - (w.height + Border)) \div 2)

\* A minimized window has height 0, which computeBounds takes for none.
ComputeBounds(w) ==
    LET v == SetSize(w, IF w.height = 0 THEN Fitted ELSE w.height)
    IN  IF w.centered THEN Center(v) ELSE v

Maximized(w) ==
    LET v == SetSize([w EXCEPT !.stored = [top |-> w.top, height |-> w.height]],
                     Page - Border - IF w.bound THEN PadTop + PadBottom ELSE 0)
    \* a top without its unit is a style only when it is 0
    IN  IF w.bound /\ PadTop # 0 THEN v ELSE [v EXCEPT !.top = 0]

Restored(w) == [SetSize([w EXCEPT !.top = w.stored.top], w.stored.height) EXCEPT !.stored = NoPlace]

Minimized(w) ==
    [w EXCEPT !.minimized = TRUE, !.row = w.content, !.height = @ - w.content, !.elem = @ - w.content]

Unfolded(w) ==
    [w EXCEPT !.minimized = FALSE, !.row = 0, !.height = @ + w.row, !.elem = @ + w.row]

\* Mutation: the cookie saves the geometry seen, not the stored one, of a maximized window.
SavedAsSeen(w) == [top |-> w.top, height |-> w.height, mini |-> w.minimized, maxi |-> IsMaximized(w)]

\* _saveCookie
Saved(w) ==
    LET place == IF IsMaximized(w) THEN w.stored ELSE [top |-> w.top, height |-> w.height]
    IN  [top |-> place.top, height |-> place.height, mini |-> w.minimized, maxi |-> IsMaximized(w)]
-------------------------------------------------------------------------------
\* show of chat.js for every message, and showCenter
ShowFrame ==
    /\ f' = ComputeBounds(f)
    /\ hist' = [hist EXCEPT !.odd = @ \/ f.minimized,
                            !.jumped = @ \/ (f.centered /\ drag.kind # "none")]
    /\ UNCHANGED <<drag, cookie>>

\* _initDrag on a bar: at the top, or at the bottom
StartMove(p) ==
    /\ drag.kind = "none" /\ ~IsMaximized(f)
    /\ p \in {f.top, f.top + f.elem} \cap (0..Page)
    /\ drag' = [kind |-> "move", pointer |-> Round(p), org |-> 0, grip |-> Round(p) - f.top]
    /\ f' = [f EXCEPT !.wiring = f.wired, !.wire = IF f.wired THEN f.top ELSE 0]
    /\ UNCHANGED <<cookie, hist>>

\* _initDrag on the sizer
StartResize(p) ==
    /\ drag.kind = "none" /\ ~f.minimized
    /\ p = f.top + f.elem /\ p \in 0..Page
    /\ drag' = [kind |-> "resize", pointer |-> Round(p), org |-> f.height, grip |-> 0]
    /\ f' = [f EXCEPT !.wiring = f.wired, !.wire = IF f.wired THEN f.top ELSE 0]
    /\ UNCHANGED <<cookie, hist>>

\* A centered window that is shown again under a drag drifts: this bounds it.
OnPage(w) == At(w) \in (0 - Border)..Page

\* Mutation: the pointer is not kept back with the window at a constraint.
MoveLoose(p) ==
    /\ drag.kind = "move"
    /\ LET top == At(f) + (Round(p) - drag.pointer)
       IN  /\ f' = [PutAt(f, TopConstraint(f, top)) EXCEPT !.stored = NoPlace]
           /\ drag' = [drag EXCEPT !.pointer = Round(p)]
    /\ OnPage(f')
    /\ UNCHANGED <<cookie, hist>>

\* _updateDrag: where the constraint holds the window back it holds the
\* pointer back too.
Move(p) ==
    /\ drag.kind = "move"
    /\ LET top == At(f) + (Round(p) - drag.pointer)
           new == TopConstraint(f, top)
       IN  /\ f' = [PutAt(f, new) EXCEPT !.stored = NoPlace]
           /\ drag' = [drag EXCEPT !.pointer = Round(p) + (new - top)]
    /\ OnPage(f')
    /\ UNCHANGED <<cookie, hist>>

\* A maximized window that is resized is not maximized any more.
Resize(p) ==
    /\ drag.kind = "resize"
    /\ f' = [SetSize(f, HeightConstraint(f, drag.org + (Round(p) - drag.pointer)))
                EXCEPT !.stored = NoPlace]
    /\ UNCHANGED <<drag, cookie, hist>>

EndFrameDrag ==
    /\ drag.kind # "none"
    /\ LET w == [f EXCEPT !.top = At(f), !.wiring = FALSE, !.wire = 0]
           v == IF f.wiring /\ drag.kind = "resize" THEN SetSize(w, w.height) ELSE w
       IN  f' = v /\ cookie' = Saved(v)
    /\ drag' = NoDrag
    /\ hist' = [hist EXCEPT !.was = IF IsMaximized(f) THEN @ ELSE NoPlace, !.jumped = FALSE]

Minimize ==
    /\ drag.kind = "none"
    /\ f' = IF f.minimized THEN Unfolded(f) ELSE Minimized(f)
    /\ cookie' = Saved(f')
    /\ hist' = [hist EXCEPT !.tall = IF f.minimized THEN 0 ELSE f.height, !.lost = FALSE]
    /\ UNCHANGED drag

Maximize ==
    /\ drag.kind = "none" /\ ~f.minimized
    /\ f' = IF IsMaximized(f) THEN Restored(f) ELSE Maximized(f)
    /\ cookie' = Saved(f')
    /\ hist' = [hist EXCEPT !.was = IF IsMaximized(f) THEN NoPlace
                                    ELSE [top |-> f.top, height |-> f.height]]
    /\ UNCHANGED drag

SetConstraint(bound) ==
    /\ drag.kind = "none"
    /\ f' = SetLocation([f EXCEPT !.bound = bound], f.top)
    /\ UNCHANGED <<drag, cookie, hist>>

\* The page is loaded again: the window is made with its options, setCookie
\* gives it what was saved, and the load event minimizes or maximizes it.  What
\* was saved of a minimized window is its height 0, or the one it had before it
\* was maximized; setSize makes the least one of 0.
Reload ==
    /\ cookie # NoCookie
    /\ LET w == [f EXCEPT !.minimized = FALSE, !.row = 0, !.stored = NoPlace, !.bound = FALSE,
                          !.wiring = FALSE, !.wire = 0]
           v == [SetSize(w, cookie.height) EXCEPT !.top = cookie.top]
       IN  /\ f' = CASE cookie.mini                 -> Minimized(v)
                     [] ~cookie.mini /\ cookie.maxi -> Maximized(v)
                     [] ~cookie.mini /\ ~cookie.maxi -> v
           /\ cookie' = IF cookie.mini \/ cookie.maxi THEN Saved(f') ELSE cookie
    /\ hist' = [hist EXCEPT !.was = IF cookie.maxi /\ ~cookie.mini THEN @ ELSE NoPlace,
                            !.tall = 0, !.lost = cookie.mini, !.jumped = FALSE]
    /\ drag' = NoDrag

FrameNext ==
    \/ ShowFrame \/ EndFrameDrag \/ Minimize \/ Maximize \/ Reload
    \/ \E p \in 0..Page : StartMove(p) \/ StartResize(p) \/ Move(p) \/ Resize(p)
    \/ \E bound \in BOOLEAN : SetConstraint(bound)
-------------------------------------------------------------------------------
(* The element is as high as the window and its borders, and both are      *)
(* within the limits, unless the window was shown while it was minimized.  *)
FrameTypeOK ==
    /\ f.top \in (0 - Page)..Page /\ f.wire \in (0 - Page)..Page
    /\ drag.kind \in {"none", "move", "resize"} /\ cookie.height \in Nat
    /\ ~hist.odd => /\ f.height \in (IF f.minimized THEN {0} ELSE MinHeight..MaxHeight)
                    /\ ~f.wiring => f.elem = f.height + Border
                    /\ ~f.wiring /\ ~f.minimized => f.content = f.height

(* A window that is dragged is where the mouse wants it, as far as the     *)
(* constraint lets it go: after any number of steps over the edge and back *)
(* the mouse still holds the point of the bar it took, unless the window   *)
(* was shown meanwhile and it is one that show moves to the center.        *)
DragFollows ==
    [][\A p \in 0..Page : Move(p) /\ ~hist.jumped
          => At(f') = TopConstraint(f, Round(p) - drag.grip)]_frameVars

(* Restoring a maximized window puts it back where maximize took it from,  *)
(* also when the page was loaded again meanwhile, and a window that is not *)
(* minimized any more has the height it had, and its content too, unless   *)
(* the page was loaded again meanwhile: the cookie has not its height.     *)
(* Neither holds of a window that was shown while it was minimized.        *)
Restores ==
    [][~hist'.odd =>
          /\ Maximize /\ IsMaximized(f) => [top |-> f'.top, height |-> f'.height] = hist.was
          /\ Minimize /\ f.minimized => /\ f'.content = f'.height
                                        /\ ~hist.lost => f'.height = hist.tall]_frameVars
===============================================================================
