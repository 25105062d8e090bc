------------------------------ MODULE WindowProofs ------------------------------
(***************************************************************************)
(* What window.js guarantees.                                              *)
(*                                                                         *)
(* Of one window (Frame), for any page, limits, grid and borders: the      *)
(* mouse keeps hold of the point of the bar it took, and a window that was *)
(* maximized or minimized is put back as it was: the maximized one over     *)
(* reloads as well, the minimized one unless a reload lost its height.     *)
(* The point that is held is the difference of pointer and top, which every *)
(* step of a drag keeps; what a window goes back to is kept three times,   *)
(* in the window, in the cookie and in the history, and the three agree.   *)
(*                                                                         *)
(* Of all windows (Desktop), for any number of them: every level is taken  *)
(* once, the list of modal windows is the stack of those that are open,    *)
(* and the last one can be reached.  What each function of the library     *)
(* does to the page is a lemma; a handler composes them.  The loops of     *)
(* closeAll and closeAllModalWindows need induction over their rounds,     *)
(* which is there as the least round at which something would fail.        *)
(***************************************************************************)
EXTENDS Frame, Desktop, WellFoundedInduction, TLAPS

(* One window. *)

FrameSpec == FrameInit /\ [][FrameNext]_frameVars

Place == [top : Int, height : Int]

Window ==
    [top : Int, height : Int, elem : Int, content : Int, minimized : BOOLEAN,
     row : Int, stored : Place, bound : BOOLEAN, centered : BOOLEAN,
     wired : BOOLEAN, wiring : BOOLEAN, wire : Int]

Past == [was : Place, tall : Int, lost : BOOLEAN, odd : BOOLEAN, jumped : BOOLEAN]

Typed ==
    /\ f \in Window
    /\ drag \in [kind : {"none", "move", "resize"}, pointer : Int, org : Int, grip : Int]
    /\ cookie \in [top : Int, height : Int, mini : BOOLEAN, maxi : BOOLEAN]
    /\ hist \in Past

\* The mouse holds the point of the bar it took.
Held == drag.kind = "move" /\ ~hist.jumped => At(f) = drag.pointer - drag.grip

Allowed == MinHeight..MaxHeight

\* The window is as high as its limits allow, or folded to its bar.
Sized ==
    /\ ~f.minimized => f.height \in Allowed
    /\ f.minimized => /\ f.height = 0 /\ f.row = f.content /\ f.row \in Allowed
                      /\ ~hist.lost => f.content = hist.tall
    /\ ~f.minimized /\ ~(f.wiring /\ drag.kind = "resize") => f.content = f.height

\* What the window is put back to is what the history has.
Remembered ==
    /\ IsMaximized(f) => f.stored = hist.was /\ f.stored.height \in Allowed
    /\ cookie.maxi => [top |-> cookie.top, height |-> cookie.height] = hist.was
    /\ cookie.maxi => cookie.height \in Allowed

\* A wire is there for a drag only, and a folded window is not resized.
Wired ==
    /\ f.wiring => drag.kind # "none"
    /\ drag.kind = "resize" => ~f.minimized

FrameInv == Typed /\ Wired /\ Held /\ (~hist.odd => Sized /\ Remembered)
-------------------------------------------------------------------------------
(* The operators. *)

LEMMA Numbers ==
    /\ Page \in Nat /\ Border \in Nat /\ PadTop \in Nat /\ PadBottom \in Nat
    /\ MinHeight \in Nat /\ MaxHeight \in Nat /\ Height \in Nat /\ Fitted \in Nat
    /\ 0 < MinHeight /\ MinHeight <= Height /\ Height <= MaxHeight
  BY PageAssumption

LEMMA RoundInt == ASSUME NEW v \in Int PROVE Round(v) \in Int
<1>1. v \div Grid \in Int  BY PageAssumption
<1>2. Grid \in Int  BY PageAssumption
<1>3. \A a, b \in Int : a * b \in Int  OBVIOUS
<1> QED  BY <1>1, <1>2, <1>3 DEF Round

LEMMA TopConstraintInt ==
    ASSUME NEW w \in Window, NEW top \in Int PROVE TopConstraint(w, top) \in Int
  BY Numbers DEF TopConstraint, Window

\* setSize keeps everything but the three heights, and within the limits.
LEMMA SetSizeEffect ==
    ASSUME NEW w \in Window, NEW h \in Int
    PROVE  /\ SetSize(w, h) \in Window
           /\ SetSize(w, h).top = w.top /\ SetSize(w, h).wire = w.wire
           /\ SetSize(w, h).stored = w.stored /\ SetSize(w, h).minimized = w.minimized
           /\ SetSize(w, h).wiring = w.wiring /\ SetSize(w, h).wired = w.wired
           /\ SetSize(w, h).centered = w.centered /\ SetSize(w, h).row = w.row
           /\ SetSize(w, h).bound = w.bound
           /\ ~w.minimized => SetSize(w, h).height \in Allowed
           /\ ~w.minimized /\ h \in Allowed => SetSize(w, h).height = h
           /\ ~w.wiring => SetSize(w, h).content = SetSize(w, h).height
<1> DEFINE low == IF ~w.minimized /\ h < MinHeight THEN MinHeight ELSE h
           s == IF low > MaxHeight THEN MaxHeight ELSE low
<1>1. /\ s \in Int /\ s + Border \in Int
      /\ ~w.minimized => s \in Allowed
      /\ ~w.minimized /\ h \in Allowed => s = h
  BY Numbers DEF Allowed
<1> HIDE DEF low, s
<1>2. SetSize(w, h) = IF w.wiring THEN [w EXCEPT !.height = s]
                      ELSE [w EXCEPT !.height = s, !.elem = s + Border, !.content = s]
  BY DEF SetSize, low, s
<1> QED  BY <1>1, <1>2 DEF Window

\* setLocation moves what is dragged, and nothing else.
LEMMA PutAtEffect ==
    ASSUME NEW w \in Window, NEW top \in Int
    PROVE  /\ PutAt(w, top) \in Window /\ At(PutAt(w, top)) = top
           /\ \E t, r \in Int : PutAt(w, top) = [w EXCEPT !.top = t, !.wire = r]
<1>1. CASE w.wiring
  <2>1. PutAt(w, top) = [w EXCEPT !.top = w.top, !.wire = top]
    BY <1>1 DEF PutAt, Window
  <2> QED  BY <1>1, <2>1 DEF PutAt, At, Window
<1>2. CASE ~w.wiring
  <2>1. PutAt(w, top) = [w EXCEPT !.top = top, !.wire = w.wire]
    BY <1>2 DEF PutAt, Window
  <2> QED  BY <1>2, <2>1 DEF PutAt, At, Window
<1> QED  BY <1>1, <1>2 DEF Window

\* Moving a window changes neither its heights nor what it goes back to.
LEMMA Moved ==
    ASSUME NEW w \in Window, NEW top \in Int
    PROVE  LET v == PutAt(w, top) IN
           /\ v \in Window /\ At(v) = top
           /\ v.height = w.height /\ v.content = w.content /\ v.row = w.row
           /\ v.minimized = w.minimized /\ v.stored = w.stored /\ v.wiring = w.wiring
           /\ v.centered = w.centered /\ v.wired = w.wired /\ v.bound = w.bound
<1>1. PICK t, r \in Int : PutAt(w, top) = [w EXCEPT !.top = t, !.wire = r]
  BY PutAtEffect
<1>2. PutAt(w, top) \in Window /\ At(PutAt(w, top)) = top  BY PutAtEffect
<1> QED  BY <1>1, <1>2 DEF Window

LEMMA Located ==
    ASSUME NEW w \in Window, NEW top \in Int
    PROVE  LET v == SetLocation(w, top) IN
           /\ v \in Window
           /\ v.height = w.height /\ v.content = w.content /\ v.row = w.row
           /\ v.minimized = w.minimized /\ v.stored = w.stored /\ v.wiring = w.wiring
           /\ v.centered = w.centered /\ v.wired = w.wired
<1>1. TopConstraint(w, top) \in Int  BY TopConstraintInt
<1> QED  BY <1>1, Moved DEF SetLocation

\* maximize keeps the place, and restore takes it back.
LEMMA MaximizedEffect ==
    ASSUME NEW w \in Window, ~w.minimized, ~w.wiring
    PROVE  LET v == Maximized(w) IN
           /\ v \in Window /\ v.stored = [top |-> w.top, height |-> w.height]
           /\ ~v.minimized /\ ~v.wiring /\ v.centered = w.centered
           /\ v.height \in Allowed /\ v.content = v.height
<1> DEFINE u == [w EXCEPT !.stored = [top |-> w.top, height |-> w.height]]
           h == Page - Border - IF w.bound THEN PadTop + PadBottom ELSE 0
<1>1. u \in Window /\ h \in Int  BY Numbers DEF Window, Place
<1>2. u.stored = [top |-> w.top, height |-> w.height] /\ ~u.minimized /\ ~u.wiring
      /\ u.centered = w.centered
  BY DEF Window
<1>3. Maximized(w) = IF w.bound /\ PadTop # 0 THEN SetSize(u, h)
                     ELSE [SetSize(u, h) EXCEPT !.top = 0]
  BY DEF Maximized
<1> HIDE DEF u, h
<1>4. SetSize(u, h) \in Window /\ SetSize(u, h).stored = u.stored
      /\ ~SetSize(u, h).minimized /\ ~SetSize(u, h).wiring
      /\ SetSize(u, h).centered = u.centered
      /\ SetSize(u, h).height \in Allowed /\ SetSize(u, h).content = SetSize(u, h).height
  BY <1>1, <1>2, SetSizeEffect
<1> QED  BY <1>2, <1>3, <1>4 DEF Window

LEMMA RestoredEffect ==
    ASSUME NEW w \in Window, ~w.minimized, ~w.wiring
    PROVE  LET v == Restored(w) IN
           /\ v \in Window /\ v.stored = NoPlace /\ ~v.minimized /\ ~v.wiring
           /\ v.top = w.stored.top /\ v.centered = w.centered
           /\ v.height \in Allowed /\ v.content = v.height
           /\ w.stored.height \in Allowed => v.height = w.stored.height
<1> DEFINE u == [w EXCEPT !.top = w.stored.top]
<1>1. /\ u \in Window /\ u.top = w.stored.top /\ ~u.minimized /\ ~u.wiring
      /\ u.centered = w.centered /\ w.stored.height \in Int
  BY DEF Window, Place
<1>2. Restored(w) = [SetSize(u, w.stored.height) EXCEPT !.stored = NoPlace]
  BY DEF Restored
<1> HIDE DEF u
<1>3. LET v == SetSize(u, w.stored.height) IN
      /\ v \in Window /\ ~v.minimized /\ ~v.wiring /\ v.top = u.top
      /\ v.centered = u.centered /\ v.height \in Allowed /\ v.content = v.height
      /\ w.stored.height \in Allowed => v.height = w.stored.height
  BY <1>1, SetSizeEffect
<1>4. NoPlace \in Place  BY DEF NoPlace, Place
<1> QED  BY <1>1, <1>2, <1>3, <1>4 DEF Window

\* minimize folds the window to its bar, and a second time unfolds it.
LEMMA MinimizedEffect ==
    ASSUME NEW w \in Window
    PROVE  /\ Minimized(w) \in Window /\ Unfolded(w) \in Window
           /\ Minimized(w).minimized /\ Minimized(w).row = w.content
           /\ Minimized(w).content = w.content
           /\ w.content = w.height => Minimized(w).height = 0
           /\ Minimized(w).stored = w.stored /\ Minimized(w).wiring = w.wiring
           /\ ~Unfolded(w).minimized /\ Unfolded(w).height = w.height + w.row
           /\ Unfolded(w).content = w.content
           /\ Unfolded(w).stored = w.stored /\ Unfolded(w).wiring = w.wiring
<1>0. /\ w.height - w.content \in Int /\ w.elem - w.content \in Int /\ w.content \in Int
      /\ w.height + w.row \in Int /\ w.elem + w.row \in Int
  BY DEF Window
<1>1. Minimized(w) \in Window /\ Unfolded(w) \in Window
  <2> DEFINE a == w.height - w.content  b == w.elem - w.content
             c == w.height + w.row      d == w.elem + w.row   zero == 0
  <2>1. a \in Int /\ b \in Int /\ c \in Int /\ d \in Int /\ zero \in Int  BY <1>0
  <2>2. Minimized(w) = [w EXCEPT !.minimized = TRUE, !.row = w.content, !.height = a, !.elem = b]
    BY DEF Minimized
  <2>3. Unfolded(w) = [w EXCEPT !.minimized = FALSE, !.row = zero, !.height = c, !.elem = d]
    BY DEF Unfolded
  <2> HIDE DEF a, b, c, d, zero
  <2>4. Minimized(w) \in Window  BY <1>0, <2>1, <2>2 DEF Window
  <2>5. Unfolded(w) \in Window  BY <1>0, <2>1, <2>3 DEF Window
  <2> QED  BY <2>4, <2>5
<1>2. /\ Minimized(w).minimized /\ Minimized(w).row = w.content
      /\ Minimized(w).content = w.content
      /\ w.content = w.height => Minimized(w).height = 0
      /\ Minimized(w).stored = w.stored /\ Minimized(w).wiring = w.wiring
  BY DEF Minimized, Window
<1>3. /\ ~Unfolded(w).minimized /\ Unfolded(w).height = w.height + w.row
      /\ Unfolded(w).content = w.content
      /\ Unfolded(w).stored = w.stored /\ Unfolded(w).wiring = w.wiring
  BY DEF Unfolded, Window
<1> QED  BY <1>1, <1>2, <1>3

\* computeBounds sets the size that fits, and moves a centered window only.
LEMMA ComputedEffect ==
    ASSUME NEW w \in Window
    PROVE  LET v == ComputeBounds(w) IN
           /\ v \in Window
           /\ v.minimized = w.minimized /\ v.stored = w.stored /\ v.wiring = w.wiring
           /\ v.centered = w.centered /\ v.row = w.row
           /\ ~w.centered => At(v) = At(w)
           /\ ~w.minimized /\ w.height \in Allowed => v.height = w.height
           /\ ~w.wiring => v.content = v.height
           /\ ~w.minimized /\ w.height \in Allowed /\ w.wiring => v.content = w.content
<1> DEFINE h == IF w.height = 0 THEN Fitted ELSE w.height
           u == SetSize(w, h)
<1>1. h \in Int /\ (w.height \in Allowed => h = w.height)
  BY Numbers DEF Window, Allowed
<1>2. ComputeBounds(w) = IF w.centered THEN Center(u) ELSE u  BY DEF ComputeBounds
<1>3. w.wiring => u.content = w.content  BY DEF SetSize, Window
<1> HIDE DEF h
<1>4. /\ u \in Window /\ u.top = w.top /\ u.wire = w.wire /\ u.stored = w.stored
      /\ u.minimized = w.minimized /\ u.wiring = w.wiring /\ u.centered = w.centered
      /\ u.row = w.row
      /\ ~w.minimized /\ w.height \in Allowed => u.height = w.height
      /\ ~w.wiring => u.content = u.height
  BY <1>1, SetSizeEffect
<1> HIDE DEF u
<1>5. CASE w.centered
  <2>1. (Page - (u.height + Border)) \div 2 \in Int  BY <1>4, Numbers DEF Window
  <2>2. LET v == Center(u) IN
        /\ v \in Window /\ v.height = u.height /\ v.content = u.content /\ v.row = u.row
        /\ v.minimized = u.minimized /\ v.stored = u.stored /\ v.wiring = u.wiring
        /\ v.centered = u.centered
    BY <1>4, <2>1, Located DEF Center
  <2> QED  BY <1>2, <1>3, <1>4, <1>5, <2>2
<1>6. CASE ~w.centered
  BY <1>2, <1>3, <1>4, <1>6 DEF At
<1> QED  BY <1>5, <1>6
-------------------------------------------------------------------------------
(* The steps. *)

LEMMA ShowStep == ASSUME FrameInv, ShowFrame PROVE FrameInv'
<1>1. /\ f \in Window /\ f' = ComputeBounds(f) /\ drag' = drag /\ cookie' = cookie
      /\ hist' = [hist EXCEPT !.odd = @ \/ f.minimized,
                              !.jumped = @ \/ (f.centered /\ drag.kind # "none")]
  BY DEF ShowFrame, FrameInv, Typed
<1>2. /\ f' \in Window
      /\ f'.minimized = f.minimized /\ f'.stored = f.stored /\ f'.wiring = f.wiring
      /\ f'.centered = f.centered /\ f'.row = f.row
      /\ ~f.centered => At(f') = At(f)
      /\ ~f.minimized /\ f.height \in Allowed => f'.height = f.height
      /\ ~f.wiring => f'.content = f'.height
      /\ ~f.minimized /\ f.height \in Allowed /\ f.wiring => f'.content = f.content
  BY <1>1, ComputedEffect
<1>3. /\ hist' \in Past /\ hist'.was = hist.was
      /\ hist'.tall = hist.tall /\ hist'.lost = hist.lost
      /\ (hist'.odd <=> hist.odd \/ f.minimized)
      /\ drag.kind = "move" /\ ~hist'.jumped => ~hist.jumped /\ ~f.centered
  BY <1>1 DEF FrameInv, Typed, Window, Past
<1>4. Typed'  BY <1>1, <1>2, <1>3 DEF FrameInv, Typed
<1>5. Wired' /\ Held'  BY <1>1, <1>2, <1>3 DEF FrameInv, Wired, Held
<1>6. ASSUME ~hist'.odd PROVE Sized' /\ Remembered'
  <2>1. ~hist.odd /\ ~f.minimized /\ Sized /\ Remembered  BY <1>3, <1>6 DEF FrameInv
  <2>2. Sized'  BY <1>1, <1>2, <2>1 DEF Sized
  <2>3. Remembered'  BY <1>1, <1>2, <1>3, <2>1 DEF Remembered, IsMaximized
  <2> QED  BY <2>2, <2>3
<1> QED  BY <1>4, <1>5, <1>6 DEF FrameInv

\* A drag begins with the point of the bar that the mouse is on.
LEMMA StartStep ==
    ASSUME FrameInv, NEW p \in 0..Page, StartMove(p) \/ StartResize(p)
    PROVE  FrameInv'
<1>1. /\ f \in Window /\ Round(p) \in Int /\ drag.kind = "none"
  BY Numbers, RoundInt DEF FrameInv, Typed, StartMove, StartResize
<1>2. /\ f' = [f EXCEPT !.wiring = f.wired, !.wire = IF f.wired THEN f.top ELSE 0]
      /\ UNCHANGED <<cookie, hist>>
  BY DEF StartMove, StartResize
<1>3. /\ f' \in Window /\ At(f') = f.top /\ (f'.wiring <=> f.wired)
      /\ f'.height = f.height /\ f'.content = f.content /\ f'.row = f.row
      /\ f'.minimized = f.minimized /\ f'.stored = f.stored /\ f'.centered = f.centered
  <2> DEFINE r == IF f.wired THEN f.top ELSE 0
  <2>1. r \in Int /\ (f.wired => r = f.top) /\ f' = [f EXCEPT !.wiring = f.wired, !.wire = r]
    BY <1>1, <1>2 DEF Window
  <2> HIDE DEF r
  <2>2. /\ f' \in Window /\ f'.top = f.top /\ f'.wire = r /\ f'.wiring = f.wired
        /\ f'.height = f.height /\ f'.content = f.content /\ f'.row = f.row
        /\ f'.minimized = f.minimized /\ f'.stored = f.stored /\ f'.centered = f.centered
    BY <1>1, <2>1 DEF Window
  <2> QED  BY <2>1, <2>2 DEF At
<1>4. ~f.wiring  BY <1>1 DEF FrameInv, Wired
<1>5. CASE StartMove(p)
  <2>1. /\ drag' = [kind |-> "move", pointer |-> Round(p), org |-> 0, grip |-> Round(p) - f.top]
    BY <1>5 DEF StartMove
  <2>2. Typed' /\ Wired' /\ Held'
    <3>1. f.top \in Int  BY <1>1 DEF Window
    <3>2. Typed'  BY <1>1, <1>2, <1>3, <2>1, <3>1 DEF FrameInv, Typed
    <3>3. Wired'  BY <2>1 DEF Wired
    <3>4. Held'  BY <1>1, <1>3, <2>1, <3>1 DEF Held
    <3> QED  BY <3>2, <3>3, <3>4
  <2>3. ~hist.odd => Sized' /\ Remembered'
    BY <1>2, <1>3, <1>4, <2>1 DEF FrameInv, Sized, Remembered, IsMaximized
  <2> QED  BY <1>2, <2>2, <2>3 DEF FrameInv
<1>6. CASE StartResize(p)
  <2>1. /\ drag' = [kind |-> "resize", pointer |-> Round(p), org |-> f.height, grip |-> 0]
        /\ ~f.minimized
    BY <1>6 DEF StartResize
  <2>2. Typed' /\ Wired' /\ Held'
    <3>1. f.height \in Int  BY <1>1 DEF Window
    <3>2. Typed'  BY <1>1, <1>2, <1>3, <2>1, <3>1 DEF FrameInv, Typed
    <3>3. Wired' /\ Held'  BY <1>3, <2>1 DEF Wired, Held
    <3> QED  BY <3>2, <3>3
  <2>3. ~hist.odd => Sized' /\ Remembered'
    BY <1>2, <1>3, <1>4, <2>1 DEF FrameInv, Sized, Remembered, IsMaximized
  <2> QED  BY <1>2, <2>2, <2>3 DEF FrameInv
<1> QED  BY <1>5, <1>6

\* Where the constraint holds the window back the pointer is held back as well.
LEMMA MoveStep ==
    ASSUME FrameInv, NEW p \in 0..Page, Move(p)
    PROVE  /\ FrameInv'
           /\ ~hist.jumped => At(f') = TopConstraint(f, Round(p) - drag.grip)
<1> DEFINE top == At(f) + (Round(p) - drag.pointer)
           new == TopConstraint(f, top)
           u == PutAt(f, new)
<1>1. /\ drag.kind = "move" /\ f' = [u EXCEPT !.stored = NoPlace]
      /\ drag' = [drag EXCEPT !.pointer = Round(p) + (new - top)]
      /\ UNCHANGED <<cookie, hist>>
  BY DEF Move
<1>2. /\ f \in Window /\ Round(p) \in Int /\ At(f) \in Int
      /\ drag.pointer \in Int /\ drag.grip \in Int
  BY RoundInt, Numbers DEF FrameInv, Typed, At, Window
<1>3. top \in Int /\ (Held /\ ~hist.jumped => top = Round(p) - drag.grip)
  BY <1>1, <1>2 DEF Held
<1> HIDE DEF top
<1>4. new \in Int  BY <1>2, <1>3, TopConstraintInt
<1>5. ~hist.jumped => new = TopConstraint(f, Round(p) - drag.grip)
  BY <1>3 DEF FrameInv
<1> HIDE DEF new
<1>6. /\ u \in Window /\ At(u) = new
      /\ u.height = f.height /\ u.content = f.content /\ u.row = f.row
      /\ u.minimized = f.minimized /\ u.wiring = f.wiring /\ u.centered = f.centered
  BY <1>2, <1>4, Moved
<1> HIDE DEF u
<1>7. NoPlace \in Place  BY DEF NoPlace, Place
<1>8. /\ f' \in Window /\ At(f') = new /\ f'.stored = NoPlace
      /\ f'.height = f.height /\ f'.content = f.content /\ f'.row = f.row
      /\ f'.minimized = f.minimized /\ f'.wiring = f.wiring /\ f'.centered = f.centered
  BY <1>1, <1>6, <1>7 DEF Window, At
<1>9. /\ drag' \in [kind : {"none", "move", "resize"}, pointer : Int, org : Int, grip : Int]
      /\ drag'.kind = "move" /\ drag'.pointer = Round(p) + (new - top)
      /\ drag'.grip = drag.grip
  <2>1. Round(p) + (new - top) \in Int  BY <1>2, <1>3, <1>4
  <2> QED  BY <1>1, <2>1 DEF FrameInv, Typed
<1>10. Typed'  BY <1>1, <1>8, <1>9 DEF FrameInv, Typed
<1>11. Wired'  BY <1>9 DEF Wired
<1>12. Held'
  <2>1. ASSUME ~hist.jumped PROVE new = Round(p) + (new - top) - drag.grip
    <3>1. top = Round(p) - drag.grip  BY <1>3, <2>1 DEF FrameInv
    <3> QED  BY <1>2, <1>3, <1>4, <3>1
  <2>2. ~hist.jumped => new = drag'.pointer - drag'.grip
    <3>1. drag'.pointer - drag'.grip = Round(p) + (new - top) - drag.grip
      BY <1>2, <1>3, <1>4, <1>9
    <3> QED  BY <2>1, <3>1
  <2> QED  BY <1>1, <1>8, <2>2 DEF Held
<1>13. ~hist.odd => Sized' /\ Remembered'
  BY <1>1, <1>8, <1>9 DEF FrameInv, Sized, Remembered, IsMaximized
<1> QED  BY <1>1, <1>5, <1>8, <1>10, <1>11, <1>12, <1>13 DEF FrameInv

LEMMA ResizeStep == ASSUME FrameInv, NEW p \in 0..Page, Resize(p) PROVE FrameInv'
<1> DEFINE h == HeightConstraint(f, drag.org + (Round(p) - drag.pointer))
           u == SetSize(f, h)
<1>1. /\ drag.kind = "resize" /\ f' = [u EXCEPT !.stored = NoPlace]
      /\ UNCHANGED <<drag, cookie, hist>> /\ f \in Window /\ ~f.minimized
  BY DEF Resize, FrameInv, Typed, Wired
<1>2. h \in Int
  <2>1. drag.org + (Round(p) - drag.pointer) \in Int
    BY RoundInt, Numbers DEF FrameInv, Typed
  <2> QED  BY <1>1, <2>1, Numbers DEF HeightConstraint, Window
<1> HIDE DEF h
<1>3. /\ u \in Window /\ ~u.minimized /\ u.wiring = f.wiring
      /\ u.height \in Allowed /\ (~f.wiring => u.content = u.height)
  BY <1>1, <1>2, SetSizeEffect
<1> HIDE DEF u
<1>4. NoPlace \in Place  BY DEF NoPlace, Place
<1>5. /\ f' \in Window /\ f'.stored = NoPlace /\ ~f'.minimized /\ f'.wiring = f.wiring
      /\ f'.height \in Allowed /\ (~f.wiring => f'.content = f'.height)
  BY <1>1, <1>3, <1>4 DEF Window
<1>6. Typed' /\ Wired' /\ Held'
  BY <1>1, <1>5 DEF FrameInv, Typed, Wired, Held
<1>7. ~hist.odd => Sized' /\ Remembered'
  BY <1>1, <1>5 DEF FrameInv, Sized, Remembered, IsMaximized
<1> QED  BY <1>1, <1>6, <1>7 DEF FrameInv

\* What is saved of a window is what it will be put back to.
LEMMA SavedEffect ==
    ASSUME NEW w \in Window
    PROVE  /\ Saved(w) \in [top : Int, height : Int, mini : BOOLEAN, maxi : BOOLEAN]
           /\ Saved(w).mini = w.minimized /\ (Saved(w).maxi <=> IsMaximized(w))
           /\ IsMaximized(w) => [top |-> Saved(w).top, height |-> Saved(w).height] = w.stored
<1> DEFINE place == IF IsMaximized(w) THEN w.stored ELSE [top |-> w.top, height |-> w.height]
<1>1. place \in Place /\ (IsMaximized(w) => place = w.stored)
  BY DEF Window, Place
<1>2. Saved(w) = [top |-> place.top, height |-> place.height,
                  mini |-> w.minimized, maxi |-> IsMaximized(w)]
  BY DEF Saved
<1>3. IsMaximized(w) \in BOOLEAN  BY DEF IsMaximized
<1> HIDE DEF place
<1>4. [top |-> place.top, height |-> place.height] = place  BY <1>1 DEF Place
<1>5. /\ Saved(w) \in [top : Int, height : Int, mini : BOOLEAN, maxi : BOOLEAN]
      /\ Saved(w).mini = w.minimized /\ (Saved(w).maxi <=> IsMaximized(w))
      /\ Saved(w).top = place.top /\ Saved(w).height = place.height
  BY <1>1, <1>2, <1>3 DEF Window, Place
<1> QED  BY <1>1, <1>4, <1>5

LEMMA EndDragStep == ASSUME FrameInv, EndFrameDrag PROVE FrameInv'
<1> DEFINE w == [f EXCEPT !.top = At(f), !.wiring = FALSE, !.wire = 0]
           v == IF f.wiring /\ drag.kind = "resize" THEN SetSize(w, w.height) ELSE w
<1>1. /\ f' = v /\ cookie' = Saved(f') /\ drag' = NoDrag /\ drag.kind # "none"
      /\ hist' = [hist EXCEPT !.was = IF IsMaximized(f) THEN @ ELSE NoPlace, !.jumped = FALSE]
      /\ f \in Window
  BY DEF EndFrameDrag, FrameInv, Typed
<1>2. /\ w \in Window /\ ~w.wiring /\ w.height = f.height /\ w.content = f.content
      /\ w.row = f.row /\ w.minimized = f.minimized /\ w.stored = f.stored
      /\ w.height \in Int
  <2> DEFINE zero == 0  top == At(f)
  <2>1. top \in Int /\ zero \in Int /\ w = [f EXCEPT !.top = top, !.wiring = FALSE, !.wire = zero]
    BY <1>1 DEF At, Window
  <2> HIDE DEF zero, top, w
  <2> QED  BY <1>1, <2>1 DEF Window
<1> HIDE DEF w
<1>3. /\ f' \in Window /\ ~f'.wiring /\ f'.minimized = f.minimized
      /\ f'.stored = f.stored /\ f'.row = f.row
  BY <1>1, <1>2, SetSizeEffect
<1>4. /\ cookie' \in [top : Int, height : Int, mini : BOOLEAN, maxi : BOOLEAN]
      /\ cookie'.maxi <=> IsMaximized(f')
      /\ IsMaximized(f') => [top |-> cookie'.top, height |-> cookie'.height] = f'.stored
  BY <1>1, <1>3, SavedEffect
<1>5. /\ hist' \in Past /\ hist'.odd = hist.odd
      /\ hist'.tall = hist.tall /\ hist'.lost = hist.lost
      /\ IsMaximized(f) => hist'.was = hist.was
  <2>1. NoPlace \in Place  BY DEF NoPlace, Place
  <2> QED  BY <1>1, <2>1 DEF FrameInv, Typed, Past
<1>6. /\ drag' \in [kind : {"none", "move", "resize"}, pointer : Int, org : Int, grip : Int]
      /\ drag'.kind = "none"
  BY <1>1 DEF NoDrag
<1>7. Typed' /\ Wired' /\ Held'
  BY <1>3, <1>4, <1>5, <1>6 DEF FrameInv, Typed, Wired, Held
<1>8. ASSUME ~hist'.odd PROVE Sized' /\ Remembered'
  <2>1. Sized /\ Remembered  BY <1>5, <1>8 DEF FrameInv
  <2>2. Sized'
    <3>1. CASE f.wiring /\ drag.kind = "resize"
      <4>1. ~f.minimized /\ f.height \in Allowed
        BY <2>1, <3>1 DEF FrameInv, Wired, Sized
      <4>2. f'.height \in Allowed /\ f'.content = f'.height
        BY <1>1, <1>2, <3>1, <4>1, SetSizeEffect
      <4> QED  BY <1>3, <4>1, <4>2 DEF Sized
    <3>2. CASE ~(f.wiring /\ drag.kind = "resize")
      <4>1. f'.height = f.height /\ f'.content = f.content  BY <1>1, <1>2, <3>2
      <4> QED  BY <1>3, <1>5, <2>1, <3>2, <4>1 DEF Sized
    <3> QED  BY <3>1, <3>2
  <2>3. Remembered'
    <3>1. IsMaximized(f') <=> IsMaximized(f)  BY <1>3 DEF IsMaximized
    <3>2. ASSUME IsMaximized(f) PROVE f'.stored = hist'.was /\ f'.stored.height \in Allowed
      BY <1>3, <1>5, <2>1, <3>2 DEF Remembered
    <3>3. ASSUME IsMaximized(f) PROVE cookie'.height = f'.stored.height
      <4>1. [top |-> cookie'.top, height |-> cookie'.height].height = f'.stored.height
        BY <1>4, <3>1, <3>3
      <4> QED  BY <4>1
    <3> QED  BY <1>4, <3>1, <3>2, <3>3 DEF Remembered
  <2> QED  BY <2>2, <2>3
<1> QED  BY <1>7, <1>8 DEF FrameInv

\* A window that is unfolded has the height and the content it had.
LEMMA MinimizeStep ==
    ASSUME FrameInv, Minimize
    PROVE  /\ FrameInv'
           /\ ~hist'.odd /\ f.minimized => /\ f'.content = f'.height
                                           /\ ~hist.lost => f'.height = hist.tall
<1>1. /\ drag.kind = "none" /\ f \in Window /\ ~f.wiring
      /\ f' = IF f.minimized THEN Unfolded(f) ELSE Minimized(f)
      /\ cookie' = Saved(f') /\ drag' = drag
      /\ hist' = [hist EXCEPT !.tall = IF f.minimized THEN 0 ELSE f.height, !.lost = FALSE]
  BY DEF Minimize, FrameInv, Typed, Wired
<1>2. /\ f' \in Window /\ f'.stored = f.stored /\ ~f'.wiring
      /\ (f'.minimized <=> ~f.minimized) /\ f'.content = f.content
  BY <1>1, MinimizedEffect
<1>3. /\ f.minimized => f'.height = f.height + f.row
      /\ ~f.minimized => f'.row = f.content /\ (f.content = f.height => f'.height = 0)
  BY <1>1, MinimizedEffect
<1>4. /\ cookie' \in [top : Int, height : Int, mini : BOOLEAN, maxi : BOOLEAN]
      /\ cookie'.maxi <=> IsMaximized(f')
      /\ IsMaximized(f') => [top |-> cookie'.top, height |-> cookie'.height] = f'.stored
  BY <1>1, <1>2, SavedEffect
<1>5. /\ hist' \in Past /\ hist'.odd = hist.odd
      /\ hist'.was = hist.was /\ (~f.minimized => hist'.tall = f.height)
  <2> DEFINE t == IF f.minimized THEN 0 ELSE f.height
  <2>1. t \in Int /\ (~f.minimized => t = f.height)  BY <1>1 DEF Window
  <2> HIDE DEF t
  <2>2. hist' = [hist EXCEPT !.tall = t, !.lost = FALSE]  BY <1>1 DEF t
  <2> QED  BY <2>1, <2>2 DEF FrameInv, Typed, Past
<1>6. Typed' /\ Wired' /\ Held'
  BY <1>1, <1>2, <1>4, <1>5 DEF FrameInv, Typed, Wired, Held
<1>7. ASSUME ~hist'.odd PROVE Sized' /\ Remembered'
  <2>1. Sized /\ Remembered  BY <1>5, <1>7 DEF FrameInv
  <2>2. Sized'
    <3>1. CASE f.minimized
      <4>1. f.height = 0 /\ f.row = f.content /\ f.row \in Allowed /\ f.row \in Int
        BY <1>1, <2>1, <3>1 DEF Sized, Window
      <4>2. f'.height = f.row  BY <1>3, <3>1, <4>1
      <4> QED  BY <1>2, <3>1, <4>1, <4>2 DEF Sized
    <3>2. CASE ~f.minimized
      <4>1. f.height \in Allowed /\ f.content = f.height
        BY <1>1, <2>1, <3>2 DEF Sized
      <4> QED  BY <1>2, <1>3, <1>5, <3>2, <4>1 DEF Sized
    <3> QED  BY <3>1, <3>2
  <2>3. Remembered'
    <3>1. IsMaximized(f') <=> IsMaximized(f)  BY <1>2 DEF IsMaximized
    <3>2. ASSUME IsMaximized(f) PROVE f'.stored = hist'.was /\ f'.stored.height \in Allowed
      BY <1>2, <1>5, <2>1, <3>2 DEF Remembered
    <3>3. ASSUME IsMaximized(f) PROVE cookie'.height = f'.stored.height
      <4>1. [top |-> cookie'.top, height |-> cookie'.height].height = f'.stored.height
        BY <1>4, <3>1, <3>3
      <4> QED  BY <4>1
    <3> QED  BY <1>4, <3>1, <3>2, <3>3 DEF Remembered
  <2> QED  BY <2>2, <2>3
<1>8. ASSUME ~hist'.odd, f.minimized
      PROVE  f'.content = f'.height /\ (~hist.lost => f'.height = hist.tall)
  <2>1. /\ f.height = 0 /\ f.row = f.content /\ f.row \in Int
        /\ ~hist.lost => f.content = hist.tall
    BY <1>1, <1>5, <1>8 DEF FrameInv, Sized, Window
  <2> QED  BY <1>2, <1>3, <1>8, <2>1
<1> QED  BY <1>6, <1>7, <1>8 DEF FrameInv

\* A window that is restored is where it was maximized.
LEMMA MaximizeStep ==
    ASSUME FrameInv, Maximize
    PROVE  /\ FrameInv'
           /\ ~hist'.odd /\ IsMaximized(f) => [top |-> f'.top, height |-> f'.height] = hist.was
<1>1. /\ drag.kind = "none" /\ f \in Window /\ ~f.wiring /\ ~f.minimized
      /\ f' = IF IsMaximized(f) THEN Restored(f) ELSE Maximized(f)
      /\ cookie' = Saved(f') /\ drag' = drag
      /\ hist' = [hist EXCEPT !.was = IF IsMaximized(f) THEN NoPlace
                                      ELSE [top |-> f.top, height |-> f.height]]
  BY DEF Maximize, FrameInv, Typed, Wired
<1>2. /\ f' \in Window /\ ~f'.minimized /\ ~f'.wiring
      /\ f'.height \in Allowed /\ f'.content = f'.height
      /\ IsMaximized(f) => /\ f'.stored = NoPlace /\ f'.top = f.stored.top
                           /\ f.stored.height \in Allowed => f'.height = f.stored.height
      /\ ~IsMaximized(f) => f'.stored = [top |-> f.top, height |-> f.height]
  BY <1>1, MaximizedEffect, RestoredEffect
<1>3. /\ cookie' \in [top : Int, height : Int, mini : BOOLEAN, maxi : BOOLEAN]
      /\ cookie'.maxi <=> IsMaximized(f')
      /\ IsMaximized(f') => [top |-> cookie'.top, height |-> cookie'.height] = f'.stored
  BY <1>1, <1>2, SavedEffect
<1>4. /\ hist' \in Past /\ hist'.odd = hist.odd
      /\ ~IsMaximized(f) => hist'.was = f'.stored
  <2> DEFINE w == IF IsMaximized(f) THEN NoPlace ELSE [top |-> f.top, height |-> f.height]
  <2>1. w \in Place /\ (~IsMaximized(f) => w = f'.stored)
    BY <1>1, <1>2 DEF Window, Place, NoPlace
  <2> HIDE DEF w
  <2>2. hist' = [hist EXCEPT !.was = w]  BY <1>1 DEF w
  <2> QED  BY <2>1, <2>2 DEF FrameInv, Typed, Past
<1>5. Typed' /\ Wired' /\ Held'
  BY <1>1, <1>2, <1>3, <1>4 DEF FrameInv, Typed, Wired, Held
<1>6. ASSUME ~hist'.odd PROVE Sized' /\ Remembered'
  <2>1. Sized /\ Remembered  BY <1>4, <1>6 DEF FrameInv
  <2>2. Sized'  BY <1>2 DEF Sized
  <2>3. CASE IsMaximized(f)
    <3>1. ~IsMaximized(f')  BY <1>2, <2>3 DEF IsMaximized
    <3> QED  BY <1>3, <2>2, <3>1 DEF Remembered
  <2>4. CASE ~IsMaximized(f)
    <3>1. f.height \in Allowed  BY <1>1, <2>1 DEF Sized
    <3>2. f'.stored.height \in Allowed /\ f'.stored = hist'.was
      BY <1>2, <1>4, <2>4, <3>1
    <3>3. ASSUME IsMaximized(f') PROVE cookie'.height = f'.stored.height
      <4>1. [top |-> cookie'.top, height |-> cookie'.height].height = f'.stored.height
        BY <1>3, <3>3
      <4> QED  BY <4>1
    <3>4. Remembered'  BY <1>3, <3>2, <3>3 DEF Remembered
    <3> QED  BY <2>2, <3>4
  <2> QED  BY <2>3, <2>4
<1>7. ASSUME ~hist'.odd, IsMaximized(f)
      PROVE  [top |-> f'.top, height |-> f'.height] = hist.was
  <2>1. f.stored = hist.was /\ f.stored.height \in Allowed
    BY <1>4, <1>7 DEF FrameInv, Remembered
  <2>2. [top |-> f.stored.top, height |-> f.stored.height] = f.stored
    BY <1>1 DEF Window, Place
  <2> QED  BY <1>2, <1>7, <2>1, <2>2
<1> QED  BY <1>5, <1>6, <1>7 DEF FrameInv

LEMMA SetConstraintStep ==
    ASSUME FrameInv, NEW bound \in BOOLEAN, SetConstraint(bound) PROVE FrameInv'
<1> DEFINE w == [f EXCEPT !.bound = bound]
<1>1. /\ drag.kind = "none" /\ f \in Window /\ f' = SetLocation(w, f.top)
      /\ UNCHANGED <<drag, cookie, hist>> /\ f.top \in Int
  BY DEF SetConstraint, FrameInv, Typed, Window
<1>2. /\ w \in Window /\ w.height = f.height /\ w.content = f.content /\ w.row = f.row
      /\ w.minimized = f.minimized /\ w.stored = f.stored /\ w.wiring = f.wiring
  BY <1>1 DEF Window
<1> HIDE DEF w
<1>3. /\ f' \in Window /\ f'.height = f.height /\ f'.content = f.content /\ f'.row = f.row
      /\ f'.minimized = f.minimized /\ f'.stored = f.stored /\ f'.wiring = f.wiring
  BY <1>1, <1>2, Located
<1>4. Typed' /\ Wired' /\ Held'
  BY <1>1, <1>3 DEF FrameInv, Typed, Wired, Held
<1>5. ~hist.odd => Sized' /\ Remembered'
  BY <1>1, <1>3 DEF FrameInv, Sized, Remembered, IsMaximized
<1> QED  BY <1>1, <1>4, <1>5 DEF FrameInv

\* What was saved is what the window is made of again.
LEMMA ReloadStep == ASSUME FrameInv, Reload PROVE FrameInv'
<1> DEFINE w == [f EXCEPT !.minimized = FALSE, !.row = 0, !.stored = NoPlace, !.bound = FALSE,
                          !.wiring = FALSE, !.wire = 0]
           u == SetSize(w, cookie.height)
           v == [u EXCEPT !.top = cookie.top]
           none == 0
           was == IF cookie.maxi /\ ~cookie.mini THEN hist.was ELSE NoPlace
<1>1. /\ f \in Window /\ cookie \in [top : Int, height : Int, mini : BOOLEAN, maxi : BOOLEAN]
      /\ NoPlace \in Place /\ hist.was \in Place
  BY DEF FrameInv, Typed, NoPlace, Place, Past
<1>2. w \in Window /\ ~w.minimized /\ ~w.wiring /\ w.stored = NoPlace
  <2> DEFINE zero == 0
  <2>1. zero \in Int /\ w = [f EXCEPT !.minimized = FALSE, !.row = zero, !.stored = NoPlace,
                                      !.bound = FALSE, !.wiring = FALSE, !.wire = zero]
    OBVIOUS
  <2> HIDE DEF zero, w
  <2> QED  BY <1>1, <2>1 DEF Window
<1> HIDE DEF w
<1>3. /\ u \in Window /\ ~u.minimized /\ ~u.wiring /\ u.stored = NoPlace
      /\ u.height \in Allowed /\ u.content = u.height
      /\ cookie.height \in Allowed => u.height = cookie.height
  <2>1. cookie.height \in Int  BY <1>1
  <2> QED  BY <1>2, <2>1, SetSizeEffect
<1> HIDE DEF u
<1>4. /\ v \in Window /\ ~v.minimized /\ ~v.wiring /\ v.stored = NoPlace
      /\ v.height \in Allowed /\ v.content = v.height /\ v.top = cookie.top
      /\ cookie.height \in Allowed => v.height = cookie.height
  BY <1>1, <1>3 DEF Window
<1>5. none \in Int  OBVIOUS
<1>6. was \in Place /\ (cookie.maxi /\ ~cookie.mini => was = hist.was)  BY <1>1
<1>7. /\ f' = CASE cookie.mini                 -> Minimized(v)
                [] ~cookie.mini /\ cookie.maxi -> Maximized(v)
                [] ~cookie.mini /\ ~cookie.maxi -> v
      /\ cookie' = IF cookie.mini \/ cookie.maxi THEN Saved(f') ELSE cookie
      /\ hist' = [hist EXCEPT !.was = was, !.tall = none, !.lost = cookie.mini, !.jumped = FALSE]
      /\ drag' = NoDrag
  BY DEF Reload, w, u
<1> HIDE DEF v, none, was
<1>8. /\ f' \in Window /\ ~f'.wiring
      /\ cookie.mini => /\ f'.minimized /\ f'.stored = NoPlace /\ f'.row = v.content
                        /\ f'.content = v.content /\ f'.height = 0
      /\ ~cookie.mini => /\ ~f'.minimized /\ f'.height \in Allowed /\ f'.content = f'.height
      /\ ~cookie.mini /\ cookie.maxi => f'.stored = [top |-> v.top, height |-> v.height]
      /\ ~cookie.mini /\ ~cookie.maxi => f'.stored = NoPlace
  <2>1. CASE cookie.mini  BY <1>4, <1>7, <2>1, MinimizedEffect
  <2>2. CASE ~cookie.mini /\ cookie.maxi  BY <1>4, <1>7, <2>2, MaximizedEffect
  <2>3. CASE ~cookie.mini /\ ~cookie.maxi  BY <1>4, <1>7, <2>3
  <2> QED  BY <2>1, <2>2, <2>3
<1>9. /\ cookie' \in [top : Int, height : Int, mini : BOOLEAN, maxi : BOOLEAN]
      /\ cookie'.maxi <=> IsMaximized(f')
      /\ IsMaximized(f') => [top |-> cookie'.top, height |-> cookie'.height] = f'.stored
  <2>1. CASE cookie.mini \/ cookie.maxi  BY <1>7, <1>8, <2>1, SavedEffect
  <2>2. CASE ~cookie.mini /\ ~cookie.maxi  BY <1>1, <1>7, <1>8, <2>2 DEF IsMaximized
  <2> QED  BY <2>1, <2>2
<1>10. /\ drag' \in [kind : {"none", "move", "resize"}, pointer : Int, org : Int, grip : Int]
       /\ drag'.kind = "none"
  BY <1>7 DEF NoDrag
<1>11. /\ hist' \in Past /\ hist'.odd = hist.odd /\ hist'.was = was
       /\ hist'.lost = cookie.mini
  BY <1>1, <1>5, <1>6, <1>7 DEF FrameInv, Typed, Past
<1>12. Typed' /\ Wired' /\ Held'
  BY <1>8, <1>9, <1>10, <1>11 DEF FrameInv, Typed, Wired, Held
<1>13. ASSUME ~hist'.odd PROVE Sized' /\ Remembered'
  <2>1. Sized /\ Remembered  BY <1>11, <1>13 DEF FrameInv
  <2>2. Sized'  BY <1>4, <1>8, <1>10, <1>11 DEF Sized
  <2>3. CASE cookie.mini \/ ~cookie.maxi
    <3>1. ~IsMaximized(f')  BY <1>1, <1>8, <2>3 DEF IsMaximized
    <3> QED  BY <1>9, <2>2, <3>1 DEF Remembered
  <2>4. CASE ~cookie.mini /\ cookie.maxi
    <3>1. /\ cookie.height \in Allowed
          /\ [top |-> cookie.top, height |-> cookie.height] = hist.was
      BY <2>1, <2>4 DEF Remembered
    <3>2. f'.stored = hist.was /\ hist'.was = hist.was /\ f'.stored.height \in Allowed
      BY <1>4, <1>6, <1>8, <1>11, <2>4, <3>1
    <3>3. ASSUME IsMaximized(f') PROVE cookie'.height = f'.stored.height
      <4>1. [top |-> cookie'.top, height |-> cookie'.height].height = f'.stored.height
        BY <1>9, <3>3
      <4> QED  BY <4>1
    <3>4. Remembered'  BY <1>9, <3>2, <3>3 DEF Remembered
    <3> QED  BY <2>2, <3>4
  <2> QED  BY <2>3, <2>4
<1> QED  BY <1>12, <1>13 DEF FrameInv
-------------------------------------------------------------------------------
(* The theorems. *)

LEMMA FrameInitKeeps == FrameInit => FrameInv
<1> SUFFICES ASSUME FrameInit PROVE FrameInv  OBVIOUS
<1>1. PICK wired \in BOOLEAN, centered \in BOOLEAN, top \in {0, PadTop} :
        f = [top |-> top, height |-> Height, elem |-> Height + Border, content |-> Height,
             minimized |-> FALSE, row |-> 0, stored |-> NoPlace, bound |-> FALSE,
             centered |-> centered, wired |-> wired, wiring |-> FALSE, wire |-> 0]
  BY DEF FrameInit
<1>2. NoPlace \in Place /\ 0 \in Int /\ top \in Int /\ Height \in Int /\ Height + Border \in Int
      /\ Height \in Allowed
  BY Numbers DEF NoPlace, Place, Allowed
<1>3. /\ f \in Window /\ ~f.minimized /\ ~f.wiring /\ f.height = f.content
      /\ f.height \in Allowed /\ f.stored = NoPlace
  BY <1>1, <1>2 DEF Window
<1>4. /\ drag = NoDrag /\ cookie = NoCookie
      /\ hist = [was |-> NoPlace, tall |-> 0, lost |-> FALSE, odd |-> FALSE, jumped |-> FALSE]
  BY DEF FrameInit
<1>5. Typed  BY <1>2, <1>3, <1>4 DEF Typed, NoDrag, NoCookie, Past
<1>6. Wired /\ Held /\ Sized /\ Remembered
  BY <1>3, <1>4 DEF Wired, Held, Sized, Remembered, IsMaximized, NoDrag, NoCookie
<1> QED  BY <1>5, <1>6 DEF FrameInv

LEMMA FrameStepKeeps == FrameInv /\ [FrameNext]_frameVars => FrameInv'
<1> SUFFICES ASSUME FrameInv, [FrameNext]_frameVars PROVE FrameInv'  OBVIOUS
<1>1. CASE UNCHANGED frameVars
  BY <1>1 DEF frameVars, FrameInv, Typed, Wired, Held, Sized, Remembered, At, IsMaximized
<1>2. CASE FrameNext
  BY <1>2, ShowStep, StartStep, MoveStep, ResizeStep, EndDragStep, MinimizeStep,
     MaximizeStep, SetConstraintStep, ReloadStep
  DEF FrameNext
<1> QED  BY <1>1, <1>2

\* The inductive invariant: the point of the bar that a drag holds, and the
\* agreement of window, cookie and history on what a window goes back to.
THEOREM FrameInvariance == FrameSpec => []FrameInv
BY FrameInitKeeps, FrameStepKeeps, PTL DEF FrameSpec

\* A window that is dragged follows the point of its bar the mouse took, as
\* far as the constraint lets it, for any page, grid and limits, unless show
\* centered it again under the drag.
THEOREM DragFollowsAlways == FrameSpec => DragFollows
<1>1. FrameInv /\ [FrameNext]_frameVars =>
        [\A p \in 0..Page : Move(p) /\ ~hist.jumped
            => At(f') = TopConstraint(f, Round(p) - drag.grip)]_frameVars
  BY MoveStep
<1> QED  BY <1>1, FrameInvariance, PTL DEF FrameSpec, DragFollows

\* A maximized window is restored to its place, whatever reloads lie between,
\* and a minimized one to the height it had and a content as high, the height
\* unless the page was loaded again meanwhile.
THEOREM RestoresAlways == FrameSpec => Restores
<1>1. FrameInv /\ [FrameNext]_frameVars =>
        [~hist'.odd =>
            /\ Maximize /\ IsMaximized(f) => [top |-> f'.top, height |-> f'.height] = hist.was
            /\ Minimize /\ f.minimized => /\ f'.content = f'.height
                                          /\ ~hist.lost => f'.height = hist.tall]_frameVars
  BY MaximizeStep, MinimizeStep
<1> QED  BY <1>1, FrameInvariance, PTL DEF FrameSpec, Restores
-------------------------------------------------------------------------------
(* Loops. *)

\* Where something holds of a number, it holds of a least one.
LEMMA Least ==
    ASSUME NEW T \in SUBSET Nat, T # {}
    PROVE  \E m \in T : \A n \in T : ~ (n < m)
<1> DEFINE R == OpToRel(<, Nat)
<1>1. IsWellFoundedOn(R, Nat)
  BY NatLessThanWellFounded
<1>2. \A x, y \in Nat : x < y => <<x, y>> \in R
  BY DEF OpToRel
<1> HIDE DEF R
<1>3. \E m \in T : \A n \in T : ~ (<<n, m>> \in R)
  BY <1>1, WFMin
<1> QED BY <1>2, <1>3

\* g is what a loop has after each of its m rounds.
Loop(g, m, base, round) == g = [n \in 0..m |-> IF n = 0 THEN base ELSE round[<<n, g[n - 1]>>]]

\* It is there: the first number of rounds without one would have a predecessor.
LEMMA LoopExists ==
    ASSUME NEW m \in Nat, NEW base, NEW round
    PROVE  \E g : Loop(g, m, base, round)
<1> DEFINE T == {k \in Nat : ~ \E g : Loop(g, k, base, round)}
<1> SUFFICES ASSUME m \in T PROVE FALSE
  OBVIOUS
<1>1. PICK k \in T : \A n \in T : ~ (n < k)
  BY Least
<1>2. k # 0
  <2> DEFINE g == [n \in 0..0 |-> base]
  <2>1. g = [n \in 0..0 |-> IF n = 0 THEN base ELSE round[<<n, g[n - 1]>>]]
    OBVIOUS
  <2>2. Loop(g, 0, base, round)
    BY <2>1 DEF Loop
  <2> QED BY <2>2
<1>3. PICK g : Loop(g, k - 1, base, round)
  <2>1. k - 1 \in Nat /\ k - 1 < k
    BY <1>2
  <2>2. k - 1 \notin T
    BY <1>1, <2>1
  <2> QED BY <2>1, <2>2
<1> DEFINE h == [n \in 0..k |-> IF n = k THEN round[<<k, g[k - 1]>>] ELSE g[n]]
<1>4. /\ \A n \in 0..(k - 1) : h[n] = g[n]
      /\ h[k] = round[<<k, g[k - 1]>>]
  BY <1>2
<1>5. \A n \in 0..(k - 1) : g[n] = IF n = 0 THEN base ELSE round[<<n, g[n - 1]>>]
  BY <1>3 DEF Loop
<1>6. ASSUME NEW n \in 0..k PROVE h[n] = IF n = 0 THEN base ELSE round[<<n, h[n - 1]>>]
  <2>1. CASE n = k
    <3>1. k - 1 \in 0..(k - 1)
      BY <1>2
    <3> QED BY <1>2, <1>4, <2>1, <3>1
  <2>2. CASE n # k
    <3>1. n \in 0..(k - 1) /\ (n # 0 => n - 1 \in 0..(k - 1))
      BY <2>2
    <3> QED BY <1>4, <1>5, <3>1
  <2> QED BY <2>1, <2>2
<1>7. Loop(h, k, base, round)
  BY <1>6 DEF Loop
<1> QED BY <1>7

\* What holds before the first round, and is kept by each, holds after the last.
LEMMA LoopHolds ==
    ASSUME NEW m \in Nat, NEW g, NEW J, g[0] \in J[0],
           \A n \in 1..m : g[n - 1] \in J[n - 1] => g[n] \in J[n]
    PROVE  \A n \in 0..m : g[n] \in J[n]
<1> DEFINE T == {n \in 0..m : g[n] \notin J[n]}
<1> SUFFICES ASSUME T # {} PROVE FALSE
  OBVIOUS
<1>1. T \in SUBSET Nat
  OBVIOUS
<1>2. PICK k \in T : \A n \in T : ~ (n < k)
  BY <1>1, Least
<1>3. k \in 1..m /\ k - 1 \in 0..m /\ k - 1 < k
  OBVIOUS
<1>4. g[k - 1] \in J[k - 1]
  BY <1>2, <1>3
<1> QED BY <1>3, <1>4


(* Lists of windows. *)

LEMMA AppendIs ==
    ASSUME NEW list \in Seq(Win), NEW w \in Win, NEW s, s = Append(list, w)
    PROVE  /\ s \in Seq(Win) /\ s # <<>> /\ Last(s) = w /\ Front(s) = list
           /\ Range(s) = Range(list) \cup {w}
           /\ IsInjective(list) /\ w \notin Range(list) => IsInjective(s)
<1>1. PICK n \in Nat : n = Len(list) /\ DOMAIN list = 1..n
  OBVIOUS
<1>2. /\ s \in Seq(Win) /\ s # <<>> /\ DOMAIN s = 1..(n + 1) /\ s[n + 1] = w /\ Len(s) = n + 1
      /\ \A i \in 1..n : s[i] = list[i]
  BY <1>1
<1>3. Last(s) = w
  BY <1>2 DEF Last
<1>4. Front(s) = list
  BY <1>1, <1>2 DEF Front
<1>5. Range(s) = Range(list) \cup {w}
  <2>1. ASSUME NEW x, x \in Range(s) PROVE x \in Range(list) \cup {w}
    <3>1. PICK i \in 1..(n + 1) : s[i] = x
      BY <1>2, <2>1 DEF Range
    <3> QED BY <1>1, <1>2, <3>1 DEF Range
  <2>2. ASSUME NEW x, x \in Range(list) \cup {w} PROVE x \in Range(s)
    <3>1. CASE x = w
      BY <1>2, <3>1 DEF Range
    <3>2. CASE x \in Range(list)
      <4>1. PICK i \in 1..n : list[i] = x
        BY <1>1, <3>2 DEF Range
      <4>2. i \in 1..(n + 1) /\ s[i] = x
        BY <1>2, <4>1
      <4> QED BY <1>2, <4>2 DEF Range
    <3> QED BY <2>2, <3>1, <3>2
  <2> QED BY <2>1, <2>2
<1>6. ASSUME IsInjective(list), w \notin Range(list) PROVE IsInjective(s)
  <2>1. \A i \in 1..n : s[i] # w
    BY <1>1, <1>2, <1>6 DEF Range
  <2>2. \A i, j \in 1..n : s[i] = s[j] => i = j
    BY <1>1, <1>2, <1>6 DEF IsInjective
  <2> QED BY <1>2, <2>1, <2>2 DEF IsInjective
<1> QED BY <1>2, <1>3, <1>4, <1>5, <1>6

LEMMA FrontIs ==
    ASSUME NEW list \in Seq(Win), list # <<>>, NEW s, s = Front(list), NEW x, x = Last(list)
    PROVE  /\ s \in Seq(Win) /\ x \in Win /\ Range(list) = Range(s) \cup {x}
           /\ IsInjective(list) => IsInjective(s) /\ x \notin Range(s)
           /\ s = <<>> => Len(list) = 1
<1>0. PICK n : n = Len(list) - 1
  OBVIOUS
<1>1. n \in Nat /\ n + 1 = Len(list) /\ DOMAIN list = 1..(n + 1)
  <2>1. Len(list) \in Nat /\ Len(list) # 0 /\ DOMAIN list = 1..Len(list)
    OBVIOUS
  <2> QED BY <1>0, <2>1
<1>2. /\ s \in Seq(Win) /\ DOMAIN s = 1..n /\ Len(s) = n
      /\ \A i \in 1..n : s[i] = list[i]
  BY <1>1 DEF Front
<1>3. x = list[n + 1] /\ x \in Win
  BY <1>1 DEF Last
<1>4. Range(list) = Range(s) \cup {x}
  <2>1. ASSUME NEW y, y \in Range(list) PROVE y \in Range(s) \cup {x}
    <3>1. PICK i \in 1..(n + 1) : list[i] = y
      BY <1>1, <2>1 DEF Range
    <3>2. CASE i = n + 1
      BY <1>3, <3>1, <3>2
    <3>3. CASE i # n + 1
      <4>1. i \in 1..n
        BY <1>1, <3>3
      <4> QED BY <1>2, <3>1, <4>1 DEF Range
    <3> QED BY <3>2, <3>3
  <2>2. ASSUME NEW y, y \in Range(s) PROVE y \in Range(list)
    <3>1. PICK i \in 1..n : s[i] = y
      BY <1>2, <2>2 DEF Range
    <3>2. i \in 1..(n + 1) /\ list[i] = y
      BY <1>2, <3>1
    <3> QED BY <1>1, <3>2 DEF Range
  <2>3. x \in Range(list)
    BY <1>1, <1>3 DEF Range
  <2> QED BY <2>1, <2>2, <2>3
<1>5. ASSUME IsInjective(list) PROVE IsInjective(s) /\ x \notin Range(s)
  <2>1. \A i, j \in 1..(n + 1) : list[i] = list[j] => i = j
    BY <1>1, <1>5 DEF IsInjective
  <2>2. \A i, j \in 1..n : s[i] = s[j] => i = j
    BY <1>2, <2>1
  <2>3. ASSUME x \in Range(s) PROVE FALSE
    <3>1. PICK i \in 1..n : s[i] = x
      BY <1>2, <2>3 DEF Range
    <3> QED BY <1>2, <1>3, <2>1, <3>1
  <2> QED BY <1>2, <2>2, <2>3 DEF IsInjective
<1>6. s = <<>> => Len(list) = 1
  BY <1>1, <1>2
<1> QED BY <1>2, <1>3, <1>4, <1>5, <1>6

LEMMA EmptyIs ==
    ASSUME NEW s, s = <<>>
    PROVE  s \in Seq(Win) /\ Range(s) = {} /\ IsInjective(s) /\ Len(s) = 0
<1>1. s \in Seq(Win) /\ Len(s) = 0 /\ DOMAIN s = {}
  OBVIOUS
<1> QED BY <1>1 DEF Range, IsInjective

LEMMA RejectIs ==
    ASSUME NEW list \in Seq(Win), NEW w, NEW s, s = Reject(list, w)
    PROVE  s \in Seq(Win) /\ \A x : x \in Range(s) <=> x # w /\ x \in Range(list)
<1>0. PICK m \in Nat : m = Len(list) /\ DOMAIN list = 1..m /\ \A n \in 1..m : list[n] \in Win
  OBVIOUS
<1> DEFINE Holds(q, n) == \A x : x \in Range(q) <=> x # w /\ \E k \in 1..n : list[k] = x
           round == [p \in (1..m) \X Seq(Win) |->
                        IF list[p[1]] = w THEN p[2] ELSE Append(p[2], list[p[1]])]
           J == [n \in 0..m |-> {q \in Seq(Win) : Holds(q, n)}]
<1>1. \A n \in 1..m, q \in Seq(Win) :
         round[<<n, q>>] = IF list[n] = w THEN q ELSE Append(q, list[n])
  BY <1>0
<1>2. \A n \in 0..m : \A q : q \in J[n] <=> q \in Seq(Win) /\ Holds(q, n)
  OBVIOUS
<1> HIDE DEF round, J
<1>3. 0 \in 0..m /\ m \in 0..m /\ \A n \in 1..m : n \in 0..m /\ n - 1 \in 0..m /\ n # 0
  BY <1>0
<1>a. PICK nil : nil = <<>>
  OBVIOUS
<1>4. nil \in J[0]
  <2>1. nil \in Seq(Win) /\ Range(nil) = {}
    BY <1>a, EmptyIs
  <2>2. Holds(nil, 0)
    BY <2>1
  <2> QED BY <1>2, <1>3, <2>1, <2>2
<1>5. ASSUME NEW n \in 1..m, NEW q \in J[n - 1] PROVE round[<<n, q>>] \in J[n]
  <2>1. q \in Seq(Win) /\ Holds(q, n - 1)
    BY <1>2, <1>3
  <2>2. \A x : (\E k \in 1..n : list[k] = x) <=> (\E k \in 1..(n - 1) : list[k] = x) \/ x = list[n]
    <3>1. \A k \in 1..n : k \in 1..(n - 1) \/ k = n
      BY <1>0
    <3>2. \A k \in 1..(n - 1) : k \in 1..n
      BY <1>0
    <3>3. n \in 1..n
      BY <1>0
    <3> QED BY <3>1, <3>2, <3>3
  <2>3. CASE list[n] = w
    BY <1>1, <1>2, <1>3, <2>1, <2>2, <2>3
  <2>4. CASE list[n] # w
    <3>1. PICK a : a = Append(q, list[n])
      OBVIOUS
    <3>2. a \in Seq(Win) /\ Range(a) = Range(q) \cup {list[n]}
      BY <1>0, <2>1, <3>1, AppendIs
    <3>3. Holds(a, n)
      BY <2>1, <2>2, <2>4, <3>2
    <3>4. round[<<n, q>>] = a
      BY <1>1, <2>1, <2>4, <3>1
    <3> QED BY <1>2, <1>3, <3>2, <3>3, <3>4
  <2> QED BY <2>3, <2>4
<1> DEFINE After(k) == k = [n \in 0..m |-> IF n = 0 THEN nil ELSE
                               IF list[n] = w THEN k[n - 1] ELSE Append(k[n - 1], list[n])]
<1>6. ASSUME NEW k, \/ Loop(k, m, nil, round) \/ After(k)
      PROVE  \A n \in 0..m : k[n] \in J[n]
  <2>1. k[0] = nil
    <3>1. CASE Loop(k, m, nil, round)
      <4>1. \A n \in 0..m : k[n] = IF n = 0 THEN nil ELSE round[<<n, k[n - 1]>>]
        BY <3>1 DEF Loop
      <4> QED BY <1>3, <4>1, Zenon
    <3>2. CASE After(k)
      BY <1>3, <3>2, Zenon
    <3> QED BY <1>6, <3>1, <3>2
  <2>2. ASSUME NEW n \in 1..m, k[n - 1] \in J[n - 1] PROVE k[n] \in J[n]
    <3>1. k[n] = round[<<n, k[n - 1]>>]
      <4>1. CASE Loop(k, m, nil, round)
        BY <1>3, <4>1 DEF Loop
      <4>2. CASE After(k)
        <5>1. k[n - 1] \in Seq(Win)
          BY <1>2, <1>3, <2>2
        <5>2. k[n] = IF list[n] = w THEN k[n - 1] ELSE Append(k[n - 1], list[n])
          BY <1>3, <4>2
        <5> QED BY <1>1, <5>1, <5>2
      <4> QED BY <1>6, <4>1, <4>2
    <3> QED BY <1>5, <2>2, <3>1
  <2> QED BY <1>0, <1>4, <2>1, <2>2, LoopHolds
<1>7. PICK g : Loop(g, m, nil, round)
  BY <1>0, LoopExists
<1>8. After(g)
  <2>1. \A n \in 1..m : g[n - 1] \in Seq(Win)
    BY <1>2, <1>3, <1>6, <1>7
  <2> QED BY <1>0, <1>1, <1>7, <2>1 DEF Loop
<1>9. PICK k : After(k) /\ Reject(list, w) = k[m]
  BY <1>0, <1>a, <1>8 DEF Reject
<1>10. s \in J[m]
  BY <1>3, <1>6, <1>9
<1>11. s \in Seq(Win) /\ Holds(s, m)
  BY <1>2, <1>3, <1>10
<1>12. \A x : x \in Range(list) <=> \E i \in 1..m : list[i] = x
  BY <1>0 DEF Range
<1> QED BY <1>11, <1>12
-------------------------------------------------------------------------------
(* What holds of the page between any two functions. *)

UI == [windows : Seq(Win), modals : Seq(Win), made : SUBSET Win, visible : SUBSET Win,
       shown : SUBSET Win, modal : SUBSET Win, risen : SUBSET Win, z : [Win -> Nat], overlay : Nat, maxZ : Nat,
       focused : Win \cup {None}, mixed : BOOLEAN]

\* Only windows that were made are listed or shown; chat windows are not modal.
Made(u) ==
    /\ Range(u.windows) \subseteq u.made /\ Range(u.modals) \subseteq u.made
    /\ u.shown \subseteq u.made /\ u.visible \subseteq u.made /\ u.modal \subseteq u.made \ Chat
    /\ u.made \ Dialogs \subseteq Range(u.windows)

\* Everything that was shown has a level of its own, none above maxZIndex.
Levels(u) ==
    /\ u.overlay <= u.maxZ
    /\ \A w \in Win : u.z[w] <= u.maxZ
    /\ \A v, w \in Win : v # w /\ u.z[v] # 0 => u.z[v] # u.z[w]
    /\ \A w \in Win : u.overlay # 0 => u.z[w] # u.overlay
    /\ \A w \in Range(u.modals) \cup u.shown : u.z[w] # 0
    /\ \A w \in Win \ u.made : u.z[w] = 0

Sane(u) == u \in UI /\ Made(u) /\ Levels(u)

\* The last modal window is over the overlay and on the page, if it was not destroyed.
Top(u, w) == u.z[w] > u.overlay /\ (w \in u.shown \/ ~Registered(u, w))

\* One before it is under the overlay or was raised by _recenter, or it is hidden.
Covered(u, w) ==
    /\ keep => (u.z[w] < u.overlay \/ w \in u.risen) /\ (w \in u.shown \/ ~Registered(u, w))
    /\ ~keep => u.z[w] > u.overlay /\ w \notin u.shown

Piled(u) ==
    u.modals # <<>> => /\ Top(u, Last(u.modals))
                       /\ \A w \in Range(Front(u.modals)) : Covered(u, w)

\* The modal windows in the order they were shown.
Stack(u) ==
    /\ IsInjective(u.modals) /\ Range(u.modals) = u.visible \cap u.modal
    /\ u.overlay # 0 <=> u.modals # <<>>
    /\ Piled(u)

Proper(u) == Sane(u) /\ (~u.mixed => Stack(u))
-------------------------------------------------------------------------------
(* Levels. *)

\* What no window is raised with.
Same(u, v) ==
    /\ v.windows = u.windows /\ v.modals = u.modals /\ v.made = u.made
    /\ v.visible = u.visible /\ v.modal = u.modal /\ v.mixed = u.mixed
    /\ v.risen = u.risen

\* w is, if it was not, over everything else; nothing but its level changed.
IsRaised(u, w, v) ==
    /\ Same(u, v) /\ v.shown = u.shown /\ v.overlay = u.overlay
    /\ v.z[w] = v.maxZ /\ u.maxZ <= v.maxZ
    /\ v.z[w] = u.z[w] \/ u.maxZ < v.maxZ
    /\ \A x \in Win : x # w => v.z[x] = u.z[x]

LEMMA Raised ==
    ASSUME NEW u \in UI, NEW w \in Win, NEW v, v = Raise(u, w)
    PROVE  v \in UI /\ IsRaised(u, w, v) /\ v.maxZ = u.maxZ + 1
<1>1. PICK n : n = u.maxZ + 1
  OBVIOUS
<1>2. n \in Nat /\ u.maxZ \in Nat /\ u.maxZ < n
  BY <1>1 DEF UI
<1>3. PICK z : z = [u.z EXCEPT ![w] = n]
  OBVIOUS
<1>4. z \in [Win -> Nat] /\ z[w] = n /\ \A x \in Win : x # w => z[x] = u.z[x]
  BY <1>2, <1>3 DEF UI
<1>5. v = [u EXCEPT !.z = z, !.maxZ = n, !.focused = w]
  BY <1>1, <1>3 DEF Raise, UI
<1>6. /\ v \in UI /\ v.windows = u.windows /\ v.modals = u.modals /\ v.made = u.made
      /\ v.visible = u.visible /\ v.modal = u.modal /\ v.mixed = u.mixed /\ v.risen = u.risen
      /\ v.shown = u.shown /\ v.overlay = u.overlay /\ v.z = z /\ v.maxZ = n
  BY <1>2, <1>4, <1>5 DEF UI
<1> QED BY <1>1, <1>2, <1>4, <1>6 DEF IsRaised, Same

LEMMA RaisedSane ==
    ASSUME NEW u, Sane(u), NEW w \in u.made, NEW v \in UI, IsRaised(u, w, v)
    PROVE  Sane(v)
<1>1. u \in UI /\ w \in Win /\ u.z \in [Win -> Nat] /\ v.z \in [Win -> Nat]
      /\ u.maxZ \in Nat /\ v.maxZ \in Nat /\ u.overlay \in Nat
  BY DEF Sane, UI
<1>2. Made(v)
  BY DEF Sane, Made, IsRaised, Same
<1>3. \A x \in Win : v.z[x] <= v.maxZ
  BY <1>1 DEF Sane, Levels, IsRaised
<1>4. ASSUME NEW x \in Win, NEW y \in Win, x # y, v.z[x] # 0, v.z[x] = v.z[y] PROVE FALSE
  <2>1. v.z[w] = u.z[w] => FALSE
    BY <1>1, <1>4 DEF Sane, Levels, IsRaised
  <2>2. u.maxZ < v.maxZ => FALSE
    BY <1>1, <1>4 DEF Sane, Levels, IsRaised
  <2> QED BY <2>1, <2>2 DEF IsRaised
<1>5. \A x \in Win : v.overlay # 0 => v.z[x] # v.overlay
  BY <1>1 DEF Sane, Levels, IsRaised
<1>6. \A x \in Win : u.z[x] # 0 => v.z[x] # 0
  BY <1>1 DEF Sane, Levels, IsRaised
<1>7. \A x \in Range(v.modals) \cup v.shown : x \in Win /\ v.z[x] # 0
  <2>1. \A x \in Range(u.modals) \cup u.shown : x \in Win /\ u.z[x] # 0
    BY <1>1 DEF Sane, Levels, Made, UI
  <2> QED BY <1>6, <2>1 DEF IsRaised, Same
<1>8. \A x \in Win \ v.made : v.z[x] = 0
  BY DEF Sane, Levels, IsRaised, Same
<1>9. v.overlay <= v.maxZ
  BY <1>1 DEF Sane, Levels, IsRaised
<1>10. Levels(v)
  BY <1>3, <1>4, <1>5, <1>7, <1>8, <1>9 DEF Levels
<1> QED BY <1>2, <1>10 DEF Sane

\* Raising w leaves the pile as it is when w is not one of those kept under the overlay.
Free(u, w) == keep /\ u.modals # <<>> => w \notin Range(Front(u.modals)) \/ w \in u.risen

LEMMA RaisedStack ==
    ASSUME NEW u, Sane(u), Stack(u), NEW w \in u.made, Free(u, w), NEW v \in UI, IsRaised(u, w, v)
    PROVE  Stack(v)
<1>1. u \in UI /\ w \in Win /\ u.z \in [Win -> Nat] /\ v.z \in [Win -> Nat]
      /\ u.maxZ \in Nat /\ v.maxZ \in Nat /\ u.overlay \in Nat /\ u.modals \in Seq(Win)
  BY DEF Sane, UI
<1>2. \A x \in Win : u.z[x] > u.overlay => v.z[x] > v.overlay
  BY <1>1 DEF IsRaised, Sane, Levels
<1>3. \A x \in Win : x # w /\ u.z[x] < u.overlay => v.z[x] < v.overlay
  BY <1>1 DEF IsRaised
<1>4. \A x : Registered(v, x) <=> Registered(u, x)
  BY DEF Registered, IsRaised, Same
<1>5. ASSUME u.modals # <<>>
      PROVE  /\ Top(v, Last(u.modals)) /\ \A x \in Range(Front(u.modals)) : Covered(v, x)
  <2>1. PICK s, t : s = Front(u.modals) /\ t = Last(u.modals)
    OBVIOUS
  <2>2. t \in Win /\ s \in Seq(Win) /\ Range(u.modals) = Range(s) \cup {t}
    BY <1>1, <1>5, <2>1, FrontIs
  <2>3. Range(s) \subseteq Win
    BY <2>2 DEF Range
  <2>4. Top(u, t) /\ \A x \in Range(s) : Covered(u, x)
    BY <1>5, <2>1 DEF Stack, Piled
  <2>5. Top(v, t)
    BY <1>2, <1>4, <2>2, <2>4 DEF Top, IsRaised
  <2>6. \A x \in Range(s) : Covered(v, x)
    <3>1. keep => w \notin Range(s) \/ w \in u.risen
      BY <1>5, <2>1 DEF Free
    <3> QED BY <1>2, <1>3, <1>4, <2>3, <2>4, <3>1 DEF Covered, IsRaised, Same
  <2> QED BY <2>1, <2>5, <2>6
<1>6. v.modals = u.modals /\ v.visible = u.visible /\ v.modal = u.modal /\ v.overlay = u.overlay
  BY DEF IsRaised, Same
<1>7. Piled(v)
  BY <1>5, <1>6 DEF Piled
<1> QED BY <1>6, <1>7 DEF Stack

LEMMA Fronted ==
    ASSUME NEW u, Sane(u), NEW w \in u.made, NEW v, v = ToFront(u, w)
    PROVE  v \in UI /\ IsRaised(u, w, v)
<1>1. u \in UI /\ w \in Win
  BY DEF Sane, UI
<1>2. CASE u.z[w] < u.maxZ
  BY <1>1, <1>2, Raised DEF ToFront
<1>3. CASE ~(u.z[w] < u.maxZ)
  <2>1. v = u /\ u.z[w] = u.maxZ
    BY <1>1, <1>3 DEF ToFront, Sane, Levels, UI
  <2>2. u.maxZ <= u.maxZ
    BY <1>1 DEF UI
  <2> QED BY <1>1, <2>1, <2>2 DEF IsRaised, Same
<1> QED BY <1>2, <1>3

\* A window that is not under the overlay is brought to the front.
LEMMA FrontedProper ==
    ASSUME NEW u, Proper(u), NEW w \in u.made, ~u.mixed => Free(u, w), NEW v, v = ToFront(u, w)
    PROVE  Proper(v) /\ IsRaised(u, w, v)
<1>1. v \in UI /\ IsRaised(u, w, v)
  BY Fronted DEF Proper
<1>2. Sane(v)
  BY <1>1, RaisedSane DEF Proper
<1>3. ~v.mixed => Stack(v)
  BY <1>1, RaisedStack DEF Proper, IsRaised, Same
<1> QED BY <1>1, <1>2, <1>3 DEF Proper
-------------------------------------------------------------------------------
(* Windows that are made and shown. *)

LEMMA Constructed ==
    ASSUME NEW u, Proper(u), NEW w \in Win, w \notin u.made, NEW v, v = Construct(u, w)
    PROVE  /\ Proper(v) /\ v.made = u.made \cup {w} /\ v.modal = u.modal /\ v.mixed = u.mixed
           /\ w \in Range(v.windows) /\ v.z = u.z /\ v.maxZ = u.maxZ /\ v.risen = u.risen
<1>1. u \in UI /\ u.windows \in Seq(Win)
  BY DEF Proper, Sane, UI
<1>2. PICK s, M : s = Append(u.windows, w) /\ M = u.made \cup {w}
  OBVIOUS
<1>3. s \in Seq(Win) /\ Range(s) = Range(u.windows) \cup {w} /\ M \in SUBSET Win
  BY <1>1, <1>2, AppendIs DEF UI
<1>4. v = [u EXCEPT !.windows = s, !.made = M]
  BY <1>1, <1>2 DEF Construct, UI
<1>5. /\ v \in UI /\ v.windows = s /\ v.modals = u.modals /\ v.made = u.made \cup {w}
      /\ v.visible = u.visible /\ v.modal = u.modal /\ v.mixed = u.mixed /\ v.risen = u.risen
      /\ v.shown = u.shown /\ v.overlay = u.overlay /\ v.z = u.z /\ v.maxZ = u.maxZ
  BY <1>1, <1>2, <1>3, <1>4 DEF UI
<1>6. Made(v)
  BY <1>3, <1>5 DEF Proper, Sane, Made
<1>7. Levels(v)
  BY <1>5 DEF Proper, Sane, Levels
<1>8. \A x \in u.made : Registered(v, x) <=> Registered(u, x)
  BY <1>3, <1>5 DEF Registered
<1>9. ASSUME ~u.mixed PROVE Stack(v)
  <2>1. Stack(u)
    BY <1>9 DEF Proper
  <2>2. Piled(v)
    <3>1. CASE u.modals = <<>>
      BY <1>5, <3>1 DEF Piled
    <3>2. CASE u.modals # <<>>
      <4>1. PICK q, t : q = Front(u.modals) /\ t = Last(u.modals)
        OBVIOUS
      <4>2. Range(u.modals) = Range(q) \cup {t}
        BY <1>1, <3>2, <4>1, FrontIs DEF UI
      <4>3. t \in u.made /\ Range(q) \subseteq u.made
        BY <4>2 DEF Proper, Sane, Made
      <4>4. Top(u, t) /\ \A x \in Range(q) : Covered(u, x)
        BY <2>1, <3>2, <4>1 DEF Stack, Piled
      <4>5. Top(v, t) /\ \A x \in Range(q) : Covered(v, x)
        BY <1>5, <1>8, <4>3, <4>4 DEF Top, Covered
      <4> QED BY <1>5, <4>1, <4>5 DEF Piled
    <3> QED BY <3>1, <3>2
  <2> QED BY <1>5, <2>1, <2>2 DEF Stack
<1> QED BY <1>3, <1>5, <1>6, <1>7, <1>9 DEF Proper, Sane

\* A window that is not modal is said to be visible.
LEMMA Visible ==
    ASSUME NEW u, Proper(u), NEW w \in u.made \ u.modal,
           NEW v, v = [u EXCEPT !.visible = @ \cup {w}]
    PROVE  /\ Proper(v) /\ v.windows = u.windows /\ v.made = u.made /\ v.modal = u.modal
           /\ v.mixed = u.mixed /\ v.shown = u.shown /\ v.z = u.z /\ v.maxZ = u.maxZ
           /\ v.modals = u.modals /\ v.overlay = u.overlay
<1>1. u \in UI
  BY DEF Proper, Sane
<1>2. PICK S : S = u.visible \cup {w}
  OBVIOUS
<1>3. S \in SUBSET Win
  BY <1>1, <1>2 DEF UI
<1>4. v = [u EXCEPT !.visible = S]
  BY <1>2
<1>5. /\ v \in UI /\ v.windows = u.windows /\ v.made = u.made /\ v.modal = u.modal
      /\ v.mixed = u.mixed /\ v.shown = u.shown /\ v.z = u.z /\ v.maxZ = u.maxZ
      /\ v.modals = u.modals /\ v.overlay = u.overlay /\ v.visible = u.visible \cup {w}
      /\ v.risen = u.risen
  BY <1>1, <1>2, <1>3, <1>4 DEF UI
<1>6. Made(v) /\ Levels(v)
  BY <1>5 DEF Proper, Sane, Made, Levels
<1>7. ASSUME ~u.mixed PROVE Stack(v)
  BY <1>5, <1>7 DEF Proper, Stack, Piled, Top, Covered, Registered
<1> QED BY <1>5, <1>6, <1>7 DEF Proper, Sane

IsDisplayed(u, w, v) ==
    /\ v.windows = u.windows /\ v.made = u.made /\ v.modal = u.modal
    /\ v.mixed = u.mixed /\ v.shown = u.shown \cup {w} /\ v.z = u.z /\ v.maxZ = u.maxZ

\* The element of a window that has a level and is no open modal one is shown.
LEMMA Displayed ==
    ASSUME NEW u, Proper(u), NEW w \in u.made, u.z[w] # 0, ~u.mixed => w \notin Range(u.modals),
           NEW v, v = [u EXCEPT !.shown = @ \cup {w}]
    PROVE  Proper(v) /\ IsDisplayed(u, w, v)
<1>1. u \in UI /\ u.modals \in Seq(Win)
  BY DEF Proper, Sane, UI
<1>2. PICK S : S = u.shown \cup {w}
  OBVIOUS
<1>3. S \in SUBSET Win
  BY <1>1, <1>2 DEF UI
<1>4. v = [u EXCEPT !.shown = S]
  BY <1>2
<1>5. /\ v \in UI /\ v.windows = u.windows /\ v.made = u.made /\ v.modal = u.modal
      /\ v.mixed = u.mixed /\ v.shown = u.shown \cup {w} /\ v.z = u.z /\ v.maxZ = u.maxZ
      /\ v.modals = u.modals /\ v.overlay = u.overlay /\ v.visible = u.visible
      /\ v.risen = u.risen
  BY <1>1, <1>2, <1>3, <1>4 DEF UI
<1>6. Made(v) /\ Levels(v)
  BY <1>5 DEF Proper, Sane, Made, Levels
<1>7. ASSUME ~u.mixed PROVE Stack(v)
  <2>1. Piled(v)
    <3>1. CASE u.modals = <<>>
      BY <1>5, <3>1 DEF Piled
    <3>2. CASE u.modals # <<>>
      <4>1. PICK q, t : q = Front(u.modals) /\ t = Last(u.modals)
        OBVIOUS
      <4>2. Range(u.modals) = Range(q) \cup {t}
        BY <1>1, <3>2, <4>1, FrontIs
      <4>3. Top(u, t) /\ \A x \in Range(q) : Covered(u, x)
        BY <1>7, <3>2, <4>1 DEF Proper, Stack, Piled
      <4>4. w # t /\ w \notin Range(q)
        BY <1>7, <4>2
      <4>5. Top(v, t) /\ \A x \in Range(q) : Covered(v, x)
        BY <1>5, <4>3, <4>4 DEF Top, Covered, Registered
      <4> QED BY <1>5, <4>1, <4>5 DEF Piled
    <3> QED BY <3>1, <3>2
  <2> QED BY <1>5, <1>7, <2>1 DEF Proper, Stack
<1> QED BY <1>5, <1>6, <1>7 DEF Proper, Sane, IsDisplayed

\* A window without a level is given the highest.
NewHighest(u, w, v) == u.z[w] = 0 => v.z[w] = v.maxZ

\* A chat window is on the page, at a level of its own.
LEMMA PlainShown ==
    ASSUME NEW u, Proper(u), NEW w \in Chat, w \in u.made, NEW v, v = Show(u, w, FALSE)
    PROVE  /\ Proper(v) /\ v.made = u.made /\ v.modal = u.modal /\ w \in v.shown
           /\ v.mixed = u.mixed /\ (~v.mixed => w \notin Range(v.modals))
           /\ NewHighest(u, w, v)
<1>1. w \in u.made \ u.modal /\ w \in Range(u.windows) /\ w \notin Dialogs
  BY KindsAssumption DEF Proper, Sane, Made
<1>2. PICK a : a = [u EXCEPT !.visible = @ \cup {w}]
  OBVIOUS
<1>3. /\ Proper(a) /\ a.windows = u.windows /\ a.made = u.made /\ a.modal = u.modal
      /\ a.mixed = u.mixed /\ a.shown = u.shown /\ a.z = u.z /\ a.maxZ = u.maxZ
  BY <1>1, <1>2, Visible
<1>4. PICK b : b = IF a.z[w] = 0 THEN Raise(a, w) ELSE a
  OBVIOUS
<1>5. ~a.mixed => w \notin Range(a.modals)
  BY <1>1, <1>3 DEF Proper, Stack
<1>6. a \in UI /\ w \in Win /\ w \in a.made /\ a.modals \in Seq(Win)
  BY <1>1, <1>3 DEF Proper, Sane, UI
<1>7. ~a.mixed => Free(a, w)
  <2>1. a.modals # <<>> => Range(Front(a.modals)) \subseteq Range(a.modals)
    BY <1>6, FrontIs
  <2> QED BY <1>5, <2>1 DEF Free
<1>8. /\ Proper(b) /\ Same(a, b) /\ b.z[w] # 0 /\ (u.z[w] = 0 => b.z[w] = b.maxZ)
  <2>1. CASE a.z[w] = 0
    <3>1. b = Raise(a, w)
      BY <1>4, <2>1
    <3>2. b \in UI /\ IsRaised(a, w, b) /\ b.maxZ = a.maxZ + 1
      BY <1>6, <3>1, Raised
    <3>3. Sane(b)
      BY <1>3, <1>6, <3>2, RaisedSane DEF Proper
    <3>4. ~b.mixed => Stack(b)
      BY <1>3, <1>6, <1>7, <3>2, RaisedStack DEF Proper, IsRaised, Same
    <3>5. b.z[w] = b.maxZ /\ b.maxZ # 0
      BY <1>6, <3>2 DEF IsRaised, UI
    <3> QED BY <3>2, <3>3, <3>4, <3>5 DEF Proper, IsRaised
  <2>2. CASE a.z[w] # 0
    BY <1>3, <1>4, <2>2 DEF Same
  <2> QED BY <2>1, <2>2
<1>9. v = [b EXCEPT !.shown = @ \cup {w}]
  BY <1>1, <1>2, <1>4 DEF Show, Registered
<1>10. w \in b.made /\ (~b.mixed => w \notin Range(b.modals))
  BY <1>5, <1>6, <1>8 DEF Same
<1>11. Proper(v) /\ IsDisplayed(b, w, v)
  BY <1>8, <1>9, <1>10, Displayed
<1>12. ~v.mixed => w \notin Range(v.modals)
  BY <1>1, <1>3, <1>8, <1>11 DEF Proper, Stack, Same, IsDisplayed
<1> QED BY <1>3, <1>8, <1>11, <1>12 DEF Same, IsDisplayed, NewHighest
-------------------------------------------------------------------------------
(* Modal windows. *)

\* What show of a modal window leaves: over the overlay, or instead of the last one.
IsShown(u, w, v) ==
    /\ v \in UI /\ v.windows = u.windows /\ v.made = u.made
    /\ v.visible = u.visible \cup {w} /\ v.modal = u.modal \cup {w}
    /\ v.modals = Append(u.modals, w)
    /\ v.mixed <=> u.mixed \/ w \in Range(u.modals)
    /\ \A x \in Win : x # w => v.z[x] = u.z[x]
    /\ v.z[w] = v.maxZ /\ u.maxZ < v.maxZ /\ v.overlay < v.maxZ
    /\ IF u.modals = <<>> \/ keep
       THEN v.overlay = u.maxZ + 1 /\ v.shown \ {w} = u.shown \ {w}
       ELSE v.overlay = u.overlay /\ v.shown \ {w} = u.shown \ {Last(u.modals), w}
    /\ IF Registered(u, w) THEN w \in v.shown ELSE v.shown \subseteq u.shown

LEMMA ModalShown ==
    ASSUME NEW u, Sane(u), NEW w \in u.made, NEW v, v = Show(u, w, TRUE)
    PROVE  IsShown(u, w, v)
<1>1. u \in UI /\ w \in Win /\ u.modals \in Seq(Win) /\ u.maxZ \in Nat /\ u.overlay \in Nat
  BY DEF Sane, UI
<1>2. PICK over : over = (u.modals = <<>> \/ keep)
  OBVIOUS
<1>3. PICK V, M, L, X, o, n, S, R :
         /\ V = u.visible \cup {w} /\ M = u.modal \cup {w} /\ L = Append(u.modals, w)
         /\ X = (u.mixed \/ w \in Range(u.modals))
         /\ o = (IF over THEN u.maxZ + 1 ELSE u.overlay)
         /\ n = (IF over THEN u.maxZ + 1 ELSE u.maxZ)
         /\ S = (IF over THEN u.shown ELSE u.shown \ {Last(u.modals)})
         /\ R = (IF over THEN {} ELSE u.risen)
  OBVIOUS
<1>4. /\ V \in SUBSET Win /\ M \in SUBSET Win /\ R \in SUBSET Win /\ L \in Seq(Win) /\ X \in BOOLEAN
      /\ o \in Nat /\ n \in Nat /\ S \in SUBSET Win /\ o <= n /\ u.maxZ <= n
  <2>1. L \in Seq(Win)
    BY <1>1, <1>3, AppendIs
  <2>2. X \in BOOLEAN
    BY <1>3
  <2>3. V \in SUBSET Win /\ M \in SUBSET Win /\ S \in SUBSET Win /\ R \in SUBSET Win
    BY <1>1, <1>3 DEF UI
  <2>4. o \in Nat /\ n \in Nat /\ o <= n /\ u.maxZ <= n
    BY <1>1, <1>3 DEF Sane, Levels
  <2> QED BY <2>1, <2>2, <2>3, <2>4
<1>5. PICK b : b = [u EXCEPT !.visible = V, !.overlay = o, !.maxZ = n, !.risen = R, !.shown = S,
                              !.modals = L, !.mixed = X, !.modal = M]
  OBVIOUS
<1>6. /\ b \in UI /\ b.windows = u.windows /\ b.made = u.made /\ b.visible = V /\ b.overlay = o
      /\ b.maxZ = n /\ b.shown = S /\ b.modals = L /\ b.mixed = X /\ b.modal = M /\ b.z = u.z
  BY <1>1, <1>4, <1>5 DEF UI
<1>7. PICK a : a = [u EXCEPT !.visible = @ \cup {w}]
  OBVIOUS
<1>8. [AddModalWindow(a, w) EXCEPT !.modal = @ \cup {w}] = b
  <2>1. a = [u EXCEPT !.visible = V] /\ a.modals = u.modals /\ a.mixed = u.mixed
        /\ a.maxZ = u.maxZ /\ a.shown = u.shown /\ a.risen = u.risen
    BY <1>1, <1>3, <1>7 DEF UI
  <2>2. PICK d : d = [u EXCEPT !.visible = V, !.overlay = o, !.maxZ = n, !.risen = R, !.shown = S]
    OBVIOUS
  <2>3. /\ d.modals = u.modals /\ d.mixed = u.mixed /\ d.modal = u.modal
        /\ (IF over THEN DisableScreen(a) ELSE [a EXCEPT !.shown = S]) = d
    <3>1. d.modals = u.modals /\ d.mixed = u.mixed /\ d.modal = u.modal
      BY <1>1, <2>2 DEF UI
    <3>2. CASE over
      <4>1. o = u.maxZ + 1 /\ n = u.maxZ + 1 /\ S = u.shown /\ R = {}
        BY <1>3, <3>2
      <4>2. DisableScreen(a) = d
        BY <1>1, <2>1, <2>2, <4>1 DEF DisableScreen, UI
      <4> QED BY <3>1, <3>2, <4>2
    <3>3. CASE ~over
      <4>1. o = u.overlay /\ n = u.maxZ /\ R = u.risen
        BY <1>3, <3>3
      <4>2. [a EXCEPT !.shown = S] = d
        BY <1>1, <2>1, <2>2, <4>1 DEF UI
      <4> QED BY <3>1, <3>3, <4>2
    <3> QED BY <3>2, <3>3
  <2>4. AddModalWindow(a, w) = [d EXCEPT !.modals = L, !.mixed = X]
    <3>1. CASE over
      <4>1. DisableScreen(a) = d
        BY <2>3, <3>1
      <4> QED BY <1>2, <1>3, <2>1, <2>3, <3>1, <4>1 DEF AddModalWindow
    <3>2. CASE ~over
      <4>1. [a EXCEPT !.shown = @ \ {Last(a.modals)}] = [a EXCEPT !.shown = S]
        BY <1>3, <2>1, <3>2
      <4>2. [a EXCEPT !.shown = @ \ {Last(a.modals)}] = d
        BY <2>3, <3>2, <4>1
      <4> QED BY <1>2, <1>3, <2>1, <2>3, <3>2, <4>2 DEF AddModalWindow
    <3> QED BY <3>1, <3>2
  <2>5. PICK e : e = [d EXCEPT !.modals = L, !.mixed = X]
    OBVIOUS
  <2>6. e.modal = u.modal
    BY <2>2, <2>3, <2>5
  <2>7. [e EXCEPT !.modal = @ \cup {w}] = [e EXCEPT !.modal = M]
    BY <1>3, <2>6
  <2>8. [e EXCEPT !.modal = M] = b
    BY <1>1, <1>5, <2>2, <2>5 DEF UI
  <2> QED BY <2>4, <2>5, <2>7, <2>8
<1>9. PICK c : c = Raise(b, w)
  OBVIOUS
<1>10. c \in UI /\ IsRaised(b, w, c) /\ c.maxZ = b.maxZ + 1
  BY <1>1, <1>6, <1>9, Raised
<1>11. v = IF Registered(u, w) THEN [c EXCEPT !.shown = @ \cup {w}] ELSE c
  BY <1>7, <1>8, <1>9 DEF Show
<1>12. PICK T : T = IF Registered(u, w) THEN c.shown \cup {w} ELSE c.shown
  OBVIOUS
<1>13. T \in SUBSET Win
  BY <1>1, <1>10, <1>12 DEF UI
<1>14. v = [c EXCEPT !.shown = T]
  <2>1. CASE Registered(u, w)
    BY <1>11, <1>12, <2>1
  <2>2. CASE ~Registered(u, w)
    BY <1>10, <1>11, <1>12, <2>2 DEF UI
  <2> QED BY <2>1, <2>2
<1>15. /\ v \in UI /\ v.windows = c.windows /\ v.made = c.made /\ v.visible = c.visible
       /\ v.overlay = c.overlay /\ v.maxZ = c.maxZ /\ v.shown = T /\ v.modals = c.modals
       /\ v.mixed = c.mixed /\ v.modal = c.modal /\ v.z = c.z
  BY <1>10, <1>13, <1>14 DEF UI
<1>16. /\ v.windows = u.windows /\ v.made = u.made /\ v.visible = V /\ v.modal = M
       /\ v.modals = L /\ v.mixed = X /\ v.overlay = o /\ v.maxZ = n + 1 /\ v.z[w] = n + 1
       /\ \A x \in Win : x # w => v.z[x] = u.z[x]
  BY <1>1, <1>6, <1>10, <1>15 DEF IsRaised, Same
<1>17. c.shown = S
  BY <1>6, <1>10 DEF IsRaised
<1>18. u.maxZ < v.maxZ /\ v.overlay < v.maxZ
  <2>1. u.maxZ \in Nat /\ n \in Nat /\ o \in Nat /\ o <= n /\ u.maxZ <= n
    BY <1>1, <1>4
  <2>2. v.overlay = o /\ v.maxZ = n + 1
    BY <1>16
  <2>3. u.maxZ < n + 1 /\ o < n + 1
    BY <2>1
  <2> QED BY <2>2, <2>3, Zenon
<1>19. IF u.modals = <<>> \/ keep
       THEN v.overlay = u.maxZ + 1 /\ v.shown \ {w} = u.shown \ {w}
       ELSE v.overlay = u.overlay /\ v.shown \ {w} = u.shown \ {Last(u.modals), w}
  BY <1>2, <1>3, <1>12, <1>15, <1>16, <1>17
<1>20. IF Registered(u, w) THEN w \in v.shown ELSE v.shown \subseteq u.shown
  BY <1>3, <1>12, <1>15, <1>17
<1> QED BY <1>3, <1>15, <1>16, <1>18, <1>19, <1>20 DEF IsShown

LEMMA ShownSane ==
    ASSUME NEW u, Sane(u), NEW w \in u.made \ Chat, NEW v, IsShown(u, w, v)
    PROVE  Sane(v)
<1>1. /\ u \in UI /\ v \in UI /\ w \in Win /\ u.z \in [Win -> Nat] /\ v.z \in [Win -> Nat]
      /\ u.maxZ \in Nat /\ v.maxZ \in Nat /\ u.overlay \in Nat /\ v.overlay \in Nat
      /\ u.modals \in Seq(Win)
  BY DEF Sane, UI, IsShown
<1>2. Range(v.modals) = Range(u.modals) \cup {w}
  <2>1. v.modals = Append(u.modals, w)
    BY DEF IsShown
  <2> QED BY <1>1, <2>1, AppendIs
<1>3. v.shown \subseteq u.shown \cup {w}
  BY DEF IsShown
<1>4. Made(v)
  BY <1>2, <1>3 DEF Sane, Made, IsShown
<1>5. \A x \in Win : v.z[x] <= v.maxZ /\ (x # w => v.z[x] = u.z[x] /\ v.z[x] < v.z[w])
  BY <1>1 DEF Sane, Levels, IsShown
<1>6. v.overlay <= v.maxZ
  BY <1>1 DEF IsShown
<1>7. \A x, y \in Win : x # y /\ v.z[x] # 0 => v.z[x] # v.z[y]
  BY <1>1, <1>5 DEF Sane, Levels
<1>8. \A x \in Win : v.overlay # 0 => v.z[x] # v.overlay
  <2>1. v.z[w] # v.overlay
    BY <1>1 DEF IsShown
  <2>2. ASSUME NEW x \in Win, x # w, v.overlay # 0, v.z[x] = v.overlay PROVE FALSE
    <3>1. u.z[x] = v.overlay /\ u.z[x] <= u.maxZ /\ (u.overlay # 0 => u.z[x] # u.overlay)
      BY <1>5, <2>2 DEF Sane, Levels
    <3>2. v.overlay = u.maxZ + 1 \/ v.overlay = u.overlay
      BY DEF IsShown
    <3> QED BY <1>1, <2>2, <3>1, <3>2
  <2> QED BY <2>1, <2>2
<1>9. v.z[w] # 0
  BY <1>1 DEF IsShown
<1>10. \A x \in Range(u.modals) \cup u.shown : x \in Win /\ u.z[x] # 0
  BY <1>1 DEF Sane, Levels, Made, UI
<1>11. \A x \in Range(v.modals) \cup v.shown : v.z[x] # 0
  BY <1>2, <1>3, <1>5, <1>9, <1>10
<1>12. \A x \in Win \ v.made : v.z[x] = 0
  <2>1. v.made = u.made
    BY DEF IsShown
  <2> QED BY <1>5, <2>1 DEF Sane, Levels
<1>13. Levels(v)
  BY <1>5, <1>6, <1>7, <1>8, <1>11, <1>12 DEF Levels
<1> QED BY <1>1, <1>4, <1>13 DEF Sane

LEMMA ShownStack ==
    ASSUME NEW u, Sane(u), Stack(u), NEW w \in u.made, NEW v, IsShown(u, w, v), ~v.mixed
    PROVE  Stack(v)
<1>1. /\ u \in UI /\ v \in UI /\ w \in Win /\ u.z \in [Win -> Nat] /\ v.z \in [Win -> Nat]
      /\ u.maxZ \in Nat /\ v.maxZ \in Nat /\ u.overlay \in Nat /\ v.overlay \in Nat
      /\ u.modals \in Seq(Win)
  BY DEF Sane, UI, IsShown
<1>2. w \notin Range(u.modals)
  BY DEF IsShown
<1>3. PICK l : l = v.modals
  OBVIOUS
<1>4. l = Append(u.modals, w)
  BY <1>3 DEF IsShown
<1>5. /\ l # <<>> /\ Last(l) = w /\ Front(l) = u.modals /\ Range(l) = Range(u.modals) \cup {w}
      /\ IsInjective(u.modals) => IsInjective(l)
  BY <1>1, <1>2, <1>4, AppendIs
<1>6. Range(l) = v.visible \cap v.modal
  BY <1>5 DEF Stack, IsShown
<1>7. v.overlay # 0
  BY <1>1 DEF Stack, IsShown
<1>8. Top(v, w)
  BY <1>1 DEF Top, IsShown, Registered
<1>9. ASSUME NEW x, x \in Range(u.modals) PROVE Covered(v, x)
  <2>1. x \in Win /\ x # w
    BY <1>1, <1>2, <1>9 DEF Range
  <2>2. u.modals # <<>>
    BY <1>9, EmptyIs
  <2>3. PICK q, t : q = Front(u.modals) /\ t = Last(u.modals)
    OBVIOUS
  <2>4. x = t \/ x \in Range(q)
    BY <1>1, <1>9, <2>2, <2>3, FrontIs
  <2>5. Top(u, t) /\ \A y \in Range(q) : Covered(u, y)
    BY <2>2, <2>3 DEF Stack, Piled
  <2>6. v.z[x] = u.z[x] /\ u.z[x] <= u.maxZ /\ (Registered(v, x) <=> Registered(u, x))
    BY <2>1 DEF IsShown, Sane, Levels, Registered
  <2>7. CASE keep
    <3>1. v.overlay = u.maxZ + 1 /\ v.shown \ {w} = u.shown \ {w}
      BY <2>7 DEF IsShown
    <3>2. x \in u.shown \/ ~Registered(u, x)
      BY <2>4, <2>5, <2>7 DEF Top, Covered
    <3>3. v.z[x] < v.overlay
      BY <1>1, <2>1, <2>6, <3>1
    <3> QED BY <2>1, <2>6, <2>7, <3>1, <3>2, <3>3 DEF Covered
  <2>8. CASE ~keep
    <3>1. v.overlay = u.overlay /\ v.shown \ {w} = u.shown \ {t, w}
      BY <2>2, <2>3, <2>8 DEF IsShown
    <3>2. u.z[x] > u.overlay /\ (x # t => x \notin u.shown)
      BY <2>4, <2>5, <2>8 DEF Top, Covered
    <3> QED BY <2>1, <2>6, <2>8, <3>1, <3>2 DEF Covered
  <2> QED BY <2>7, <2>8
<1>10. Piled(v)
  BY <1>3, <1>5, <1>8, <1>9 DEF Piled
<1> QED BY <1>3, <1>5, <1>6, <1>7, <1>10 DEF Stack

LEMMA ShownProper ==
    ASSUME NEW u, Proper(u), NEW w \in u.made \ Chat, NEW v, v = Show(u, w, TRUE)
    PROVE  Proper(v) /\ v.made = u.made /\ v.modal = u.modal \cup {w}
<1>1. IsShown(u, w, v)
  BY ModalShown DEF Proper
<1>2. Sane(v)
  BY <1>1, ShownSane DEF Proper
<1>3. ASSUME ~v.mixed PROVE Stack(v)
  <2>1. ~u.mixed
    BY <1>1, <1>3 DEF IsShown
  <2> QED BY <1>1, <1>3, <2>1, ShownStack DEF Proper
<1> QED BY <1>1, <1>2, <1>3 DEF Proper, IsShown
-------------------------------------------------------------------------------
(* Windows that are hidden and closed. *)

\* The element of w leaves the page, and of a dialog its entry in windows too.
IsCleared(u, w, v) ==
    /\ v \in UI /\ v.modals = u.modals /\ v.made = u.made /\ v.visible = u.visible
    /\ v.modal = u.modal /\ v.mixed = u.mixed /\ v.z = u.z /\ v.overlay = u.overlay
    /\ v.maxZ = u.maxZ /\ v.shown = u.shown \ {w}
    /\ \A x \in Win : x # w \/ x \notin Dialogs => (Registered(v, x) <=> Registered(u, x))
    /\ Range(v.windows) \subseteq Range(u.windows)
    /\ \A x : x # w => (x \in v.risen <=> x \in u.risen)

LEMMA Cleared ==
    ASSUME NEW u \in UI, NEW w \in Win,
           NEW v, v = IF w \in Dialogs THEN Destroy(u, w) ELSE [u EXCEPT !.shown = @ \ {w}]
    PROVE  IsCleared(u, w, v)
<1>1. u.windows \in Seq(Win)
  BY DEF UI
<1>2. PICK S : S = u.shown \ {w}
  OBVIOUS
<1>3. S \in SUBSET Win
  BY <1>2 DEF UI
<1>4. CASE w \in Dialogs
  <2>1. PICK l : l = Reject(u.windows, w)
    OBVIOUS
  <2>2. l \in Seq(Win) /\ \A x : x \in Range(l) <=> x # w /\ x \in Range(u.windows)
    BY <1>1, <2>1, RejectIs
  <2>3. PICK R : R = u.risen \ {w}
    OBVIOUS
  <2>4. v = [u EXCEPT !.windows = l, !.shown = S, !.risen = R] /\ R \in SUBSET Win
    BY <1>2, <1>4, <2>1, <2>3 DEF Destroy, UI
  <2>5. /\ v \in UI /\ v.modals = u.modals /\ v.made = u.made /\ v.visible = u.visible
        /\ v.modal = u.modal /\ v.mixed = u.mixed /\ v.z = u.z /\ v.overlay = u.overlay
        /\ v.maxZ = u.maxZ /\ v.shown = S /\ v.windows = l /\ v.risen = R
    BY <1>3, <2>2, <2>4 DEF UI
  <2> QED BY <1>2, <1>4, <2>2, <2>3, <2>5 DEF IsCleared, Registered
<1>5. CASE w \notin Dialogs
  <2>1. v = [u EXCEPT !.shown = S]
    BY <1>2, <1>5
  <2>2. /\ v \in UI /\ v.modals = u.modals /\ v.made = u.made /\ v.visible = u.visible
        /\ v.modal = u.modal /\ v.mixed = u.mixed /\ v.z = u.z /\ v.overlay = u.overlay
        /\ v.maxZ = u.maxZ /\ v.shown = S /\ v.windows = u.windows /\ v.risen = u.risen
    BY <1>3, <2>1 DEF UI
  <2> QED BY <1>2, <2>2 DEF IsCleared, Registered
<1> QED BY <1>4, <1>5

LEMMA ClearedProper ==
    ASSUME NEW u, Proper(u), NEW w \in Win, ~u.mixed => w \notin Range(u.modals),
           NEW v, IsCleared(u, w, v)
    PROVE  Proper(v)
<1>1. u \in UI /\ v \in UI /\ u.modals \in Seq(Win)
  BY DEF Proper, Sane, UI, IsCleared
<1>2. v.made \ Dialogs \subseteq Range(v.windows)
  BY <1>1 DEF Proper, Sane, Made, IsCleared, Registered, UI
<1>3. Made(v)
  BY <1>2 DEF Proper, Sane, Made, IsCleared
<1>4. Levels(v)
  BY DEF Proper, Sane, Levels, IsCleared
<1>5. ASSUME ~u.mixed PROVE Stack(v)
  <2>1. Piled(v)
    <3>1. CASE u.modals = <<>>
      BY <3>1 DEF Piled, IsCleared
    <3>2. CASE u.modals # <<>>
      <4>1. PICK q, t : q = Front(u.modals) /\ t = Last(u.modals)
        OBVIOUS
      <4>2. Range(u.modals) = Range(q) \cup {t} /\ t \in Win /\ q \in Seq(Win)
        BY <1>1, <3>2, <4>1, FrontIs
      <4>3. Top(u, t) /\ \A x \in Range(q) : Covered(u, x)
        BY <1>5, <3>2, <4>1 DEF Proper, Stack, Piled
      <4>4. w # t /\ \A x \in Range(q) : x \in Win /\ x # w
        BY <1>5, <4>2 DEF Range
      <4>5. Top(v, t) /\ \A x \in Range(q) : Covered(v, x)
        BY <4>2, <4>3, <4>4 DEF Top, Covered, IsCleared
      <4> QED BY <4>1, <4>5 DEF Piled, IsCleared
    <3> QED BY <3>1, <3>2
  <2> QED BY <1>5, <2>1 DEF Proper, Stack, IsCleared
<1> QED BY <1>1, <1>3, <1>4, <1>5 DEF Proper, Sane, IsCleared

\* Only the overlay is gone.
IsEnabled(u, v) ==
    /\ v.windows = u.windows /\ v.modals = u.modals /\ v.made = u.made /\ v.visible = u.visible
    /\ v.modal = u.modal /\ v.mixed = u.mixed /\ v.shown = u.shown /\ v.z = u.z
    /\ v.maxZ = u.maxZ /\ v.overlay = 0

LEMMA Enabled ==
    ASSUME NEW u, Sane(u), NEW v, v = EnableScreen(u)
    PROVE  Sane(v) /\ IsEnabled(u, v)
<1>1. u \in UI
  BY DEF Sane
<1>2. v \in UI /\ IsEnabled(u, v)
  BY <1>1 DEF EnableScreen, IsEnabled, UI
<1>3. Made(v)
  BY <1>2 DEF Sane, Made, IsEnabled
<1>4. 0 <= v.maxZ
  BY <1>2 DEF UI
<1>5. Levels(v)
  BY <1>2, <1>4 DEF Sane, Levels, IsEnabled
<1> QED BY <1>2, <1>3, <1>5 DEF Sane

\* Only windows were said to be invisible, or taken off the list of modal ones.
IsShortened(u, q, m, V, v) ==
    /\ v.windows = u.windows /\ v.made = u.made /\ v.modal = u.modal /\ v.shown = u.shown
    /\ v.z = u.z /\ v.maxZ = u.maxZ /\ v.overlay = u.overlay
    /\ v.modals = q /\ v.mixed = m /\ v.visible = V /\ v.risen = u.risen

LEMMA Shortened ==
    ASSUME NEW u, Sane(u), NEW q \in Seq(Win), Range(q) \subseteq Range(u.modals),
           NEW m \in BOOLEAN, NEW V, V \subseteq u.visible,
           NEW v, v = [u EXCEPT !.visible = V, !.modals = q, !.mixed = m]
    PROVE  Sane(v) /\ IsShortened(u, q, m, V, v)
<1>1. u \in UI /\ V \in SUBSET Win
  BY DEF Sane, UI
<1>2. v \in UI /\ IsShortened(u, q, m, V, v)
  BY <1>1 DEF IsShortened, UI
<1>3. Made(v)
  BY <1>2 DEF Sane, Made, IsShortened
<1>4. Levels(v)
  BY <1>2 DEF Sane, Levels, IsShortened
<1> QED BY <1>2, <1>3, <1>4 DEF Sane

\* What has to hold of the list when w leaves it: it need not be a stack when
\* the first or only modal window is taken, as closeAllModalWindows does.
Listed(u) == IsInjective(u.modals) /\ Range(u.modals) = u.visible \cap u.modal

Leaving(u, w) ==
    ~u.mixed => /\ Listed(u)
                /\ Stack(u) \/ (Last(u.modals) = w => Front(u.modals) = <<>>)

IsRemoved(u, w, v) ==
    /\ v.windows = u.windows /\ v.made = u.made /\ v.modal = u.modal
    /\ v.visible = u.visible \ {w}
    /\ ~v.mixed => w \notin Range(v.modals)

\* An overlay that is left, or the window before w, is what the list then asks for.
LEMMA Removed ==
    ASSUME NEW u, Sane(u), NEW w \in u.modal, Leaving(u, w),
           NEW v, v = RemoveModalWindow([u EXCEPT !.visible = @ \ {w}], w)
    PROVE  Proper(v) /\ IsRemoved(u, w, v)
<1>1. u \in UI /\ w \in Win /\ u.modals \in Seq(Win)
  BY DEF Sane, UI
<1>2. PICK V, a : V = u.visible \ {w} /\ a = [u EXCEPT !.visible = @ \ {w}]
  OBVIOUS
<1>3. a = [u EXCEPT !.visible = V] /\ a.modals = u.modals /\ a.mixed = u.mixed
  BY <1>1, <1>2 DEF UI
<1>4. v = RemoveModalWindow(a, w) /\ V \subseteq u.visible
  BY <1>2
<1>5. CASE u.modals = <<>>
  <2>1. PICK q : q = u.modals
    OBVIOUS
  <2>2. PICK b : b = [u EXCEPT !.visible = V, !.modals = q, !.mixed = TRUE]
    OBVIOUS
  <2>3. q \in Seq(Win) /\ Range(q) \subseteq Range(u.modals)
    BY <1>1, <2>1
  <2>4. TRUE \in BOOLEAN
    OBVIOUS
  <2>5. Sane(b) /\ IsShortened(u, q, TRUE, V, b)
    BY <1>4, <2>2, <2>3, <2>4, Shortened
  <2>6. b = [a EXCEPT !.mixed = TRUE]
    BY <1>1, <1>3, <2>1, <2>2 DEF UI
  <2>7. v = EnableScreen(b)
    BY <1>3, <1>4, <1>5, <2>6 DEF RemoveModalWindow
  <2>8. Sane(v) /\ IsEnabled(b, v)
    BY <2>5, <2>7, Enabled
  <2> QED BY <1>2, <2>5, <2>8 DEF IsEnabled, IsShortened, IsRemoved, Proper
<1>6. CASE u.modals # <<>>
  <2>1. PICK q, t, m : q = Front(u.modals) /\ t = Last(u.modals) /\ m = (u.mixed \/ t # w)
    OBVIOUS
  <2>2. /\ q \in Seq(Win) /\ t \in Win /\ Range(u.modals) = Range(q) \cup {t}
        /\ IsInjective(u.modals) => IsInjective(q) /\ t \notin Range(q)
    BY <1>1, <1>6, <2>1, FrontIs
  <2>3. m \in BOOLEAN
    BY <2>1
  <2>4. PICK b : b = [u EXCEPT !.visible = V, !.modals = q, !.mixed = m]
    OBVIOUS
  <2>5. Sane(b) /\ IsShortened(u, q, m, V, b)
    BY <1>4, <2>2, <2>3, <2>4, Shortened
  <2>6. b = [a EXCEPT !.modals = Front(@), !.mixed = @ \/ Last(a.modals) # w]
    BY <1>1, <1>3, <2>1, <2>4 DEF UI
  <2>7. v = CASE q = <<>> -> EnableScreen(b)
              [] q # <<>> /\ keep -> ToFront(b, Last(q))
              [] q # <<>> /\ ~keep -> [b EXCEPT !.shown = @ \cup {Last(q)}]
    <3>1. b.modals = q
      BY <2>5 DEF IsShortened
    <3>2. a.modals # <<>>
      BY <1>3, <1>6
    <3> QED BY <1>4, <2>6, <3>1, <3>2 DEF RemoveModalWindow
  <2>8. ASSUME ~m
        PROVE  /\ w = t /\ IsInjective(q) /\ w \notin Range(q) /\ Range(q) = V \cap u.modal
               /\ q # <<>> => Stack(u)
    <3>1. ~u.mixed /\ t = w
      BY <2>1, <2>8
    <3>2. Listed(u) /\ (q # <<>> => Stack(u))
      BY <2>1, <3>1 DEF Leaving
    <3> QED BY <1>2, <2>2, <3>1, <3>2 DEF Listed
  <2>9. CASE q = <<>>
    <3>1. v = EnableScreen(b)
      BY <2>7, <2>9
    <3>2. Sane(v) /\ IsEnabled(b, v)
      BY <2>5, <3>1, Enabled
    <3>3. ASSUME ~v.mixed PROVE Stack(v) /\ w \notin Range(v.modals)
      <4>1. ~m /\ v.modals = q
        BY <2>5, <3>2, <3>3 DEF IsEnabled, IsShortened
      <4> QED BY <2>5, <2>8, <2>9, <3>2, <4>1 DEF Stack, Piled, IsEnabled, IsShortened
    <3> QED BY <1>2, <2>5, <3>2, <3>3 DEF IsEnabled, IsShortened, IsRemoved, Proper
  <2>10. CASE q # <<>>
    <3>1. PICK p, x : p = Front(q) /\ x = Last(q)
      OBVIOUS
    <3>2. /\ p \in Seq(Win) /\ x \in Win /\ Range(q) = Range(p) \cup {x}
          /\ IsInjective(q) => x \notin Range(p)
      BY <2>2, <2>10, <3>1, FrontIs
    <3>3. x \in b.made /\ b.z[x] # 0
      BY <2>5, <3>2 DEF Sane, Made, Levels, IsShortened
    <3>4. ASSUME ~m PROVE \A y \in Range(q) : Covered(b, y)
      <4>1. Stack(u) /\ u.modals # <<>>
        BY <1>6, <2>8, <2>10, <3>4
      <4>2. \A y \in Range(q) : Covered(u, y)
        BY <2>1, <4>1 DEF Stack, Piled
      <4> QED BY <2>5, <4>2 DEF Covered, Registered, IsShortened
    <3>5. ASSUME ~m PROVE u.overlay # 0
      BY <1>6, <2>8, <2>10, <3>5 DEF Stack
    <3>6. CASE keep
      <4>1. v = ToFront(b, x)
        BY <2>7, <2>10, <3>1, <3>6
      <4>2. v \in UI /\ IsRaised(b, x, v)
        BY <2>5, <3>3, <4>1, Fronted
      <4>3. Sane(v)
        BY <2>5, <3>3, <4>2, RaisedSane
      <4>4. ASSUME ~v.mixed PROVE Stack(v) /\ w \notin Range(v.modals)
        <5>1. ~m /\ v.modals = q /\ v.overlay = u.overlay /\ v.visible = V /\ v.modal = u.modal
              /\ v.windows = b.windows /\ v.shown = b.shown
          BY <2>5, <4>2, <4>4 DEF IsRaised, Same, IsShortened
        <5>2. \A y \in Range(q) : Covered(b, y)
          BY <3>4, <5>1
        <5>3. Top(v, x)
          <6>1. x \in b.shown \/ ~Registered(b, x)
            BY <3>2, <3>6, <5>2 DEF Covered
          <6>2. v.z[x] = v.maxZ /\ v.overlay = b.overlay
            BY <4>2 DEF IsRaised
          <6>3. v.overlay <= v.maxZ /\ v.z[x] # v.overlay
            <7>1. v.z \in [Win -> Nat] /\ v.overlay \in Nat /\ b.z \in [Win -> Nat]
              BY <2>5, <4>2 DEF Sane, UI
            <7>2. v.overlay # 0
              BY <3>5, <5>1
            <7> QED BY <3>2, <4>3, <7>2 DEF Sane, Levels
          <6>4. v.z[x] > v.overlay
            <7>1. v.maxZ \in Nat /\ v.overlay \in Nat
              BY <4>2 DEF UI
            <7> QED BY <6>2, <6>3, <7>1
          <6> QED BY <5>1, <6>1, <6>4 DEF Top, Registered
        <5>4. ASSUME NEW y, y \in Range(p) PROVE Covered(v, y)
          <6>1. y # x /\ Covered(b, y)
            BY <2>8, <3>2, <5>1, <5>2, <5>4
          <6>2. y \in Win
            BY <2>5, <3>2, <5>4 DEF Sane, Made, UI, IsShortened
          <6> QED BY <3>6, <4>2, <5>1, <6>1, <6>2 DEF Covered, Registered, IsRaised, Same
        <5>5. Piled(v)
          BY <3>1, <5>1, <5>3, <5>4 DEF Piled
        <5> QED BY <2>8, <2>10, <3>5, <5>1, <5>5 DEF Stack
      <4> QED BY <1>2, <2>5, <4>2, <4>3, <4>4 DEF IsRaised, Same, IsShortened, IsRemoved, Proper
    <3>7. CASE ~keep
      <4>1. PICK S : S = b.shown \cup {x}
        OBVIOUS
      <4>2. b \in UI /\ S \in SUBSET Win
        BY <2>5, <3>2, <4>1 DEF Sane, UI
      <4>3. v = [b EXCEPT !.shown = S]
        BY <2>7, <2>10, <3>1, <3>7, <4>1
      <4>4. /\ v \in UI /\ v.windows = b.windows /\ v.made = b.made /\ v.modal = b.modal
            /\ v.mixed = b.mixed /\ v.shown = S /\ v.z = b.z /\ v.maxZ = b.maxZ
            /\ v.modals = b.modals /\ v.overlay = b.overlay /\ v.visible = b.visible
            /\ v.risen = b.risen
        BY <4>2, <4>3 DEF UI
      <4>5. Sane(v)
        <5>1. Made(v)
          BY <2>5, <3>3, <4>1, <4>4 DEF Sane, Made
        <5>2. Levels(b) /\ \A y \in Range(v.modals) \cup v.shown : v.z[y] # 0
          BY <2>5, <3>3, <4>1, <4>4 DEF Sane, Levels
        <5>3. Levels(v)
          <6>1. v.overlay <= v.maxZ /\ \A y \in Win : v.z[y] <= v.maxZ
            BY <4>4, <5>2 DEF Levels
          <6>2. \A x1, y \in Win : x1 # y /\ v.z[x1] # 0 => v.z[x1] # v.z[y]
            BY <4>4, <5>2 DEF Levels
          <6>3. \A y \in Win : v.overlay # 0 => v.z[y] # v.overlay
            BY <4>4, <5>2 DEF Levels
          <6>4. \A y \in Win \ v.made : v.z[y] = 0
            BY <4>4, <5>2 DEF Levels
          <6> QED BY <5>2, <6>1, <6>2, <6>3, <6>4 DEF Levels
        <5> QED BY <4>4, <5>1, <5>3 DEF Sane
      <4>6. ASSUME ~v.mixed PROVE Stack(v) /\ w \notin Range(v.modals)
        <5>1. ~m /\ v.modals = q /\ v.overlay = u.overlay /\ v.visible = V /\ v.modal = u.modal
          BY <2>5, <4>4, <4>6 DEF IsShortened
        <5>2. \A y \in Range(q) : Covered(b, y)
          BY <3>4, <5>1
        <5>3. Top(v, x)
          BY <3>2, <3>7, <4>1, <4>4, <5>2 DEF Top, Covered
        <5>4. ASSUME NEW y, y \in Range(p) PROVE Covered(v, y)
          <6>1. y # x /\ Covered(b, y)
            BY <2>8, <3>2, <5>1, <5>2, <5>4
          <6> QED BY <3>7, <4>1, <4>4, <6>1 DEF Covered
        <5>5. Piled(v)
          BY <3>1, <5>1, <5>3, <5>4 DEF Piled
        <5> QED BY <2>8, <2>10, <3>5, <5>1, <5>5 DEF Stack
      <4> QED BY <1>2, <2>5, <4>4, <4>5, <4>6 DEF IsShortened, IsRemoved, Proper
    <3> QED BY <3>6, <3>7
  <2> QED BY <2>9, <2>10
<1> QED BY <1>5, <1>6

\* A window leaves for good, or until it is shown again.
Follows(u, v) == Proper(v) /\ v.made = u.made /\ v.modal = u.modal

LEMMA Hidden ==
    ASSUME NEW u, Sane(u), NEW w \in u.made, IF w \in u.modal THEN Leaving(u, w) ELSE Proper(u),
           NEW v, v = Hide(u, w)
    PROVE  Follows(u, v)
<1>1. u \in UI /\ w \in Win /\ u.modals \in Seq(Win)
  BY DEF Sane, UI
<1>2. PICK a, x : /\ a = [u EXCEPT !.visible = @ \ {w}]
                  /\ x = IF w \in u.modal THEN RemoveModalWindow(a, w) ELSE a
  OBVIOUS
<1>3. v = IF w \in Dialogs THEN Destroy(x, w) ELSE [x EXCEPT !.shown = @ \ {w}]
  BY <1>2 DEF Hide
<1>4. Proper(x) /\ IsRemoved(u, w, x)
  <2>1. CASE w \in u.modal
    BY <1>2, <2>1, Removed
  <2>2. CASE w \notin u.modal
    <3>1. PICK q, m, V : q = u.modals /\ m = u.mixed /\ V = u.visible \ {w}
      OBVIOUS
    <3>2. q \in Seq(Win) /\ Range(q) \subseteq Range(u.modals) /\ m \in BOOLEAN /\ V \subseteq u.visible
      BY <1>1, <3>1 DEF UI
    <3>3. x = [u EXCEPT !.visible = V, !.modals = q, !.mixed = m]
      BY <1>1, <1>2, <2>2, <3>1 DEF UI
    <3>4. Sane(x) /\ IsShortened(u, q, m, V, x)
      BY <3>2, <3>3, Shortened
    <3>5. ASSUME ~u.mixed PROVE Stack(x) /\ w \notin Range(x.modals)
      <4>1. Stack(u)
        BY <2>2, <3>5 DEF Proper
      <4> QED BY <2>2, <3>1, <3>4, <4>1 DEF Stack, Piled, Top, Covered, Registered, IsShortened
    <3> QED BY <3>1, <3>4, <3>5 DEF Proper, IsRemoved, IsShortened
  <2> QED BY <2>1, <2>2
<1>5. IsCleared(x, w, v)
  BY <1>1, <1>3, <1>4, Cleared DEF Proper, Sane
<1>6. Proper(v)
  BY <1>1, <1>4, <1>5, ClearedProper DEF IsRemoved
<1> QED BY <1>4, <1>5, <1>6 DEF Follows, IsRemoved, IsCleared

\* Which window has the focus is all that changes.
IsRefocused(u, v) ==
    Same(u, v) /\ v.shown = u.shown /\ v.z = u.z /\ v.overlay = u.overlay /\ v.maxZ = u.maxZ

LEMMA Refocused ==
    ASSUME NEW u, Sane(u), NEW v, v = UpdateFocusedWindow(u)
    PROVE  Sane(v) /\ IsRefocused(u, v)
<1>1. u \in UI
  BY DEF Sane
<1>2. PICK focus : focus = IF Len(u.windows) >= 2 THEN u.windows[Len(u.windows) - 1] ELSE None
  OBVIOUS
<1>3. focus \in Win \cup {None}
  <2>1. PICK l, m : l = u.windows /\ m = Len(l)
    OBVIOUS
  <2>2. l \in Seq(Win) /\ m \in Nat
    BY <1>1, <2>1 DEF UI
  <2>3. ASSUME m >= 2 PROVE l[m - 1] \in Win
    <3>1. m - 1 \in 1..m
      BY <2>2, <2>3
    <3> QED BY <2>1, <2>2, <3>1
  <2> QED BY <1>2, <2>1, <2>3
<1>4. v = [u EXCEPT !.focused = focus]
  BY <1>2 DEF UpdateFocusedWindow
<1>5. v \in UI /\ IsRefocused(u, v)
  BY <1>1, <1>3, <1>4 DEF UI, IsRefocused, Same
<1>6. Made(v)
  BY <1>5 DEF Sane, Made, IsRefocused, Same
<1>7. Levels(v)
  BY <1>5 DEF Sane, Levels, IsRefocused, Same
<1> QED BY <1>5, <1>6, <1>7 DEF Sane

LEMMA Closed ==
    ASSUME NEW u, Sane(u), NEW w \in Win,
           Proper(u) \/ (w \in u.visible \cap u.modal /\ Leaving(u, w)),
           NEW v, v = Close(u, w)
    PROVE  Follows(u, v)
<1>1. CASE w \notin u.visible
  BY <1>1 DEF Close, Follows
<1>2. CASE w \in u.visible
  <2>1. PICK x : x = UpdateFocusedWindow(u)
    OBVIOUS
  <2>2. Sane(x) /\ IsRefocused(u, x)
    BY <2>1, Refocused
  <2>3. v = Hide(x, w)
    BY <1>2, <2>1 DEF Close
  <2>4. Stack(u) => Stack(x)
    BY <2>2 DEF Stack, Piled, Top, Covered, Registered, IsRefocused, Same
  <2>5. Proper(u) => Proper(x)
    BY <2>2, <2>4 DEF Proper, IsRefocused, Same
  <2>6. Leaving(u, w) => Leaving(x, w)
    BY <2>2, <2>4 DEF Leaving, Listed, IsRefocused, Same
  <2>7. Proper(x) => Leaving(x, w)
    BY DEF Proper, Leaving, Stack, Listed
  <2>8. w \in x.made /\ IF w \in x.modal THEN Leaving(x, w) ELSE Proper(x)
    <3>1. w \in x.made
      BY <1>2, <2>2 DEF Sane, Made, IsRefocused, Same
    <3> QED BY <2>2, <2>5, <2>6, <2>7, <3>1 DEF IsRefocused, Same
  <2>9. Follows(x, v)
    BY <2>2, <2>3, <2>8, Hidden
  <2> QED BY <2>2, <2>9 DEF Follows, IsRefocused, Same
<1> QED BY <1>1, <1>2

LEMMA ClosedById ==
    ASSUME NEW u, Proper(u), NEW w \in Win, NEW v, v = CloseById(u, w)
    PROVE  Follows(u, v)
<1>1. CASE Registered(u, w)
  BY <1>1, Closed DEF CloseById, Proper
<1>2. CASE ~Registered(u, w)
  BY <1>2 DEF CloseById, Follows
<1> QED BY <1>1, <1>2

LEMMA EachClosed ==
    ASSUME NEW u, Proper(u), NEW list \in Seq(Win), NEW v, v = CloseEach(u, list)
    PROVE  Follows(u, v)
<1>0. PICK m \in Nat : m = Len(list) /\ \A n \in 1..m : list[n] \in Win
  OBVIOUS
<1> DEFINE round == [p \in (1..m) \X UI |-> CloseById(p[2], list[p[1]])]
           J == [n \in 0..m |-> {x \in UI : Follows(u, x)}]
<1>1. \A n \in 1..m, x \in UI : round[<<n, x>>] = CloseById(x, list[n])
  OBVIOUS
<1>2. \A n \in 0..m : \A x : x \in J[n] <=> Follows(u, x)
  BY DEF Follows, Proper, Sane
<1> HIDE DEF round, J
<1>3. 0 \in 0..m /\ m \in 0..m /\ \A n \in 1..m : n \in 0..m /\ n - 1 \in 0..m /\ n # 0
  BY <1>0
<1>4. u \in J[0]
  BY <1>2, <1>3 DEF Follows
<1>5. \A n \in 0..m : \A x \in J[n] : x \in UI
  BY <1>2 DEF Follows, Proper, Sane
<1>6. ASSUME NEW n \in 1..m, NEW x \in J[n - 1] PROVE round[<<n, x>>] \in J[n]
  <2>1. Follows(u, x) /\ x \in UI /\ list[n] \in Win
    BY <1>0, <1>2, <1>3, <1>5
  <2>2. PICK y : y = CloseById(x, list[n])
    OBVIOUS
  <2>3. Follows(x, y)
    BY <2>1, <2>2, ClosedById DEF Follows
  <2>4. Follows(u, y)
    BY <2>1, <2>3 DEF Follows
  <2> QED BY <1>1, <1>2, <1>3, <2>1, <2>2, <2>4
<1> DEFINE After(k) == k = [n \in 0..m |-> IF n = 0 THEN u ELSE CloseById(k[n - 1], list[n])]
<1>7. ASSUME NEW k, \/ Loop(k, m, u, round) \/ After(k)
      PROVE  \A n \in 0..m : k[n] \in J[n]
  <2>1. k[0] = u
    <3>1. CASE Loop(k, m, u, round)
      <4>1. \A n \in 0..m : k[n] = IF n = 0 THEN u ELSE round[<<n, k[n - 1]>>]
        BY <3>1 DEF Loop
      <4> QED BY <1>3, <4>1, Zenon
    <3>2. CASE After(k)
      BY <1>3, <3>2, Zenon
    <3> QED BY <1>7, <3>1, <3>2
  <2>2. ASSUME NEW n \in 1..m, k[n - 1] \in J[n - 1] PROVE k[n] \in J[n]
    <3>1. k[n - 1] \in UI
      BY <1>3, <1>5, <2>2
    <3>2. k[n] = round[<<n, k[n - 1]>>]
      <4>1. CASE Loop(k, m, u, round)
        BY <1>3, <4>1 DEF Loop
      <4>2. CASE After(k)
        BY <1>1, <1>3, <3>1, <4>2
      <4> QED BY <1>7, <4>1, <4>2
    <3> QED BY <1>6, <2>2, <3>2
  <2> QED BY <1>0, <1>4, <2>1, <2>2, LoopHolds
<1>8. PICK g : Loop(g, m, u, round)
  BY <1>0, LoopExists
<1>9. After(g)
  <2>1. \A n \in 1..m : g[n - 1] \in UI
    BY <1>3, <1>5, <1>7, <1>8
  <2>2. g = [n \in 0..m |-> IF n = 0 THEN u ELSE round[<<n, g[n - 1]>>]]
    BY <1>8 DEF Loop
  <2>3. ASSUME NEW n \in 0..m
        PROVE  (IF n = 0 THEN u ELSE round[<<n, g[n - 1]>>])
                   = (IF n = 0 THEN u ELSE CloseById(g[n - 1], list[n]))
    <3>1. n = 0 \/ n \in 1..m
      BY <1>0
    <3> QED BY <1>1, <2>1, <3>1
  <2> QED BY <2>2, <2>3
<1>10. PICK k : After(k) /\ v = k[m]
  BY <1>0, <1>9 DEF CloseEach
<1> QED BY <1>2, <1>3, <1>7, <1>10

\* The list is a stack, and the overlay is taken first: of one modal window
\* nothing is left, of several one is taken that is not the last.
LEMMA ModalsClosed ==
    ASSUME NEW o, Proper(o), ~o.mixed, o.modals # <<>>,
           NEW v, v = CloseModals(EnableScreen(o), Len(o.modals))
    PROVE  Follows(o, v)
<1>0. PICK m \in Nat : m = Len(o.modals) /\ m # 0
  BY DEF Proper, Sane, UI
<1>u. PICK u : u = EnableScreen(o)
  OBVIOUS
<1>e. Sane(u) /\ IsEnabled(o, u) /\ u \in UI /\ v = CloseModals(u, m)
  BY <1>0, <1>u, Enabled DEF Proper, Sane
<1> DEFINE Step(n, x) == IF n <= Len(x.modals) THEN Close(x, x.modals[n]) ELSE x
           round == [p \in (1..m) \X UI |-> Step(p[1], p[2])]
           J == [n \in 0..m |-> {x \in UI : IF n = 0 THEN x = u ELSE Follows(o, x)}]
<1>1. \A n \in 1..m, x \in UI : round[<<n, x>>] = Step(n, x)
  OBVIOUS
<1>2. \A n \in 0..m : \A x : x \in J[n] <=> x \in UI /\ IF n = 0 THEN x = u ELSE Follows(o, x)
  OBVIOUS
<1> HIDE DEF round, J, Step
<1>3. 0 \in 0..m /\ m \in 0..m /\ \A n \in 1..m : n \in 0..m /\ n - 1 \in 0..m /\ n # 0
  BY <1>0
<1>4. u \in J[0]
  BY <1>2, <1>3, <1>e
<1>5. \A n \in 0..m : \A x \in J[n] : x \in UI
  BY <1>2
<1>6. ASSUME NEW n \in 1..m, NEW x \in J[n - 1] PROVE round[<<n, x>>] \in J[n]
  <2>1. x \in UI
    BY <1>3, <1>5
  <2>2. PICK y : y = Step(n, x)
    OBVIOUS
  <2>3. Follows(o, y)
    <3>1. CASE n = 1
      <4>1. x = u
        BY <1>2, <1>3, <3>1
      <4>2. 1 <= Len(u.modals)
        BY <1>0, <1>e DEF IsEnabled
      <4>3. PICK w : w = u.modals[1]
        OBVIOUS
      <4>4. y = Close(u, w)
        BY <2>2, <3>1, <4>1, <4>2, <4>3 DEF Step
      <4>5. PICK l : l = u.modals
        OBVIOUS
      <4>6. l \in Seq(Win) /\ l # <<>> /\ l = o.modals /\ Len(l) = m /\ w = l[1] /\ 1 \in 1..m
            /\ DOMAIN l = 1..m
        BY <1>0, <1>e, <4>3, <4>5 DEF IsEnabled, UI
      <4>7. w \in Win /\ w \in Range(l)
        BY <4>6 DEF Range
      <4>8. IsInjective(l) /\ Range(l) = u.visible \cap u.modal
        BY <1>e, <4>6 DEF Proper, Stack, IsEnabled
      <4>9. Last(l) = w => Front(l) = <<>>
        <5>1. SUFFICES ASSUME Last(l) = w PROVE m = 1
          <6>1. m = 1 => Front(l) = <<>>
            BY <4>6 DEF Front
          <6> QED BY <6>1
        <5>2. l[m] = l[1] /\ m \in 1..m
          BY <1>0, <4>6, <5>1 DEF Last
        <5> QED BY <4>6, <4>8, <5>2 DEF IsInjective
      <4>10. Leaving(u, w)
        BY <4>5, <4>8, <4>9 DEF Leaving, Listed
      <4>11. w \in u.visible \cap u.modal
        BY <4>7, <4>8
      <4>12. Follows(u, y)
        BY <1>e, <4>4, <4>7, <4>10, <4>11, Closed
      <4> QED BY <1>e, <4>12 DEF Follows, IsEnabled
    <3>2. CASE n # 1
      <4>1. n - 1 # 0 /\ n \in Nat
        BY <1>0, <3>2
      <4>2. Follows(o, x)
        BY <1>2, <1>3, <4>1
      <4>3. CASE n <= Len(x.modals)
        <5>1. PICK l, k : l = x.modals /\ k = Len(l)
          OBVIOUS
        <5>2. l \in Seq(Win) /\ k \in Nat
          BY <2>1, <5>1 DEF UI
        <5>3. n \in 1..k
          BY <1>0, <4>3, <5>1, <5>2
        <5>4. PICK w : w = l[n]
          OBVIOUS
        <5>5. w \in Win
          BY <5>1, <5>2, <5>3, <5>4
        <5>6. y = Close(x, w)
          BY <2>2, <4>3, <5>1, <5>4 DEF Step
        <5>7. Follows(x, y)
          BY <4>2, <5>5, <5>6, Closed DEF Follows, Proper
        <5> QED BY <4>2, <5>7 DEF Follows
      <4>4. CASE ~(n <= Len(x.modals))
        BY <2>2, <4>2, <4>4 DEF Step
      <4> QED BY <4>3, <4>4
    <3> QED BY <3>1, <3>2
  <2>4. y \in UI
    BY <2>3 DEF Follows, Proper, Sane
  <2> QED BY <1>1, <1>2, <1>3, <2>1, <2>2, <2>3, <2>4
<1> DEFINE After(k) == k = [n \in 0..m |-> IF n = 0 THEN u ELSE Step(n, k[n - 1])]
<1>7. ASSUME NEW k, \/ Loop(k, m, u, round) \/ After(k)
      PROVE  \A n \in 0..m : k[n] \in J[n]
  <2>1. k[0] = u
    <3>1. CASE Loop(k, m, u, round)
      <4>1. \A n \in 0..m : k[n] = IF n = 0 THEN u ELSE round[<<n, k[n - 1]>>]
        BY <3>1 DEF Loop
      <4> QED BY <1>3, <4>1, Zenon
    <3>2. CASE After(k)
      BY <1>3, <3>2, Zenon
    <3> QED BY <1>7, <3>1, <3>2
  <2>2. ASSUME NEW n \in 1..m, k[n - 1] \in J[n - 1] PROVE k[n] \in J[n]
    <3>1. k[n - 1] \in UI
      BY <1>3, <1>5, <2>2
    <3>2. k[n] = round[<<n, k[n - 1]>>]
      <4>1. CASE Loop(k, m, u, round)
        BY <1>3, <4>1 DEF Loop
      <4>2. CASE After(k)
        BY <1>1, <1>3, <3>1, <4>2
      <4> QED BY <1>7, <4>1, <4>2
    <3> QED BY <1>6, <2>2, <3>2
  <2> QED BY <1>0, <1>4, <2>1, <2>2, LoopHolds
<1>8. PICK g : Loop(g, m, u, round)
  BY <1>0, LoopExists
<1>9. After(g)
  <2>1. \A n \in 1..m : g[n - 1] \in UI
    BY <1>3, <1>5, <1>7, <1>8
  <2>2. g = [n \in 0..m |-> IF n = 0 THEN u ELSE round[<<n, g[n - 1]>>]]
    BY <1>8 DEF Loop
  <2>3. ASSUME NEW n \in 0..m
        PROVE  (IF n = 0 THEN u ELSE round[<<n, g[n - 1]>>])
                   = (IF n = 0 THEN u ELSE Step(n, g[n - 1]))
    <3>1. n = 0 \/ n \in 1..m
      BY <1>0
    <3> QED BY <1>1, <2>1, <3>1
  <2> QED BY <2>2, <2>3
<1>10. PICK k : After(k) /\ v = k[m]
  BY <1>0, <1>9, <1>e DEF CloseModals, Step
<1> QED BY <1>0, <1>2, <1>3, <1>7, <1>10
-------------------------------------------------------------------------------
(* The page. *)

\* With what is pending: a window waits for its time to show or its contents
\* only once it was made, and is modal only once it was known how to show it.
Pending(u) == retries \subseteq u.made \ Chat /\ asking \subseteq u.made \cap Panel

DesktopInv == Proper(ui) /\ ui.modal \subseteq ready /\ Pending(ui)

LEMMA Settled ==
    ASSUME keep' = keep, NEW u, u = ui', Proper(u), u.modal \subseteq ready',
           retries' \subseteq u.made \ Chat, asking' \subseteq u.made \cap Panel
    PROVE  DesktopInv'
<1>1. Sane(ui)' /\ (~u.mixed => Stack(ui)')
  BY DEF Proper, Sane, UI, Made, Levels, Stack, Piled, Top, Covered, Registered
<1> QED BY <1>1 DEF DesktopInv, Pending, Proper

\* The page goes on from u with the same requests pending.
LEMMA SettledLike ==
    ASSUME DesktopInv, NEW u, u = ui', Proper(u), ui.made \subseteq u.made, u.modal = ui.modal,
           UNCHANGED <<keep, ready, retries, asking>>
    PROVE  DesktopInv'
<1>1. /\ u.modal \subseteq ready' /\ retries' \subseteq u.made \ Chat
      /\ asking' \subseteq u.made \cap Panel /\ keep' = keep
  BY DEF DesktopInv, Pending
<1> QED BY <1>1, Settled

LEMMA InitKeeps == Init => DesktopInv
<1> SUFFICES ASSUME Init PROVE DesktopInv
  OBVIOUS
<1>1. PICK z, nil : z = [w \in Win |-> 0] /\ nil = <<>>
  OBVIOUS
<1>2. /\ z \in [Win -> Nat] /\ \A w \in Win : z[w] = 0
      /\ nil \in Seq(Win) /\ Range(nil) = {} /\ IsInjective(nil)
  BY <1>1, EmptyIs
<1>3. PICK u : u = ui
  OBVIOUS
<1>4. u = [windows |-> nil, modals |-> nil, made |-> {}, visible |-> {}, shown |-> {},
           modal |-> {}, z |-> z, overlay |-> 0, maxZ |-> 0, focused |-> None, risen |-> {},
           mixed |-> FALSE]
  BY <1>1, <1>3 DEF Init
<1>5. /\ u.windows = nil /\ u.modals = nil /\ u.made = {} /\ u.visible = {} /\ u.shown = {}
      /\ u.modal = {} /\ u.z = z /\ u.overlay = 0 /\ u.maxZ = 0
  BY <1>4
<1>6. u \in UI
  BY <1>2, <1>4 DEF UI
<1>7. Made(u) /\ Levels(u)
  BY <1>2, <1>5 DEF Made, Levels
<1>8. Stack(u)
  BY <1>1, <1>2, <1>5 DEF Stack, Piled
<1>9. Proper(u)
  BY <1>6, <1>7, <1>8 DEF Proper, Sane
<1> QED BY <1>3, <1>5, <1>9 DEF DesktopInv, Pending, Init

\* What is highest is over the overlay and over all that is shown.
LEMMA Highest ==
    ASSUME NEW u, Sane(u), NEW w \in u.shown, u.z[w] = u.maxZ
    PROVE  OnTop(u, w)
<1>1. /\ u.z \in [Win -> Nat] /\ u.overlay \in Nat /\ u.maxZ \in Nat /\ w \in Win
      /\ u.shown \subseteq Win
  BY DEF Sane, UI
<1>2. u.z[w] # 0 /\ u.overlay <= u.maxZ /\ u.z[w] # u.overlay
  BY <1>1 DEF Sane, Levels
<1>3. \A x \in u.shown \ {w} : u.z[x] <= u.maxZ /\ u.z[x] # u.z[w]
  BY <1>1, <1>2 DEF Sane, Levels
<1> QED BY <1>1, <1>2, <1>3 DEF OnTop

LEMMA OpenWindowKeeps ==
    ASSUME DesktopInv, NEW w \in Win, OpenWindow(w)
    PROVE  DesktopInv' /\ OnTop(ui', w)
<1>1. PICK u, v : u = ui /\ v = ui'
  OBVIOUS
<1>2. Proper(u) /\ w \in Chat /\ UNCHANGED <<keep, ready, retries, asking>>
  BY <1>1 DEF DesktopInv, OpenWindow
<1>3. Proper(v) /\ u.made \subseteq v.made /\ v.modal = u.modal /\ w \in v.shown /\ v.z[w] = v.maxZ
  <2>1. CASE w \in u.made
    <3>1. PICK x : x = Show(u, w, FALSE)
      OBVIOUS
    <3>2. /\ Proper(x) /\ x.made = u.made /\ x.modal = u.modal /\ w \in x.shown
          /\ ~x.mixed => w \notin Range(x.modals)
      BY <1>2, <2>1, <3>1, PlainShown
    <3>3. v = ToFront(x, w)
      BY <1>1, <2>1, <3>1 DEF OpenWindow
    <3>4. ASSUME ~x.mixed PROVE Free(x, w)
      <4>1. PICK l, q : l = x.modals /\ q = Front(l)
        OBVIOUS
      <4>2. l \in Seq(Win)
        BY <3>2, <4>1 DEF Proper, Sane, UI
      <4>3. l # <<>> => Range(q) \subseteq Range(l)
        BY <4>1, <4>2, FrontIs
      <4> QED BY <3>2, <3>4, <4>1, <4>3 DEF Free
    <3>5. Proper(v) /\ IsRaised(x, w, v)
      BY <2>1, <3>2, <3>3, <3>4, FrontedProper
    <3> QED BY <3>2, <3>5 DEF IsRaised, Same
  <2>2. CASE w \notin u.made
    <3>1. PICK x : x = Construct(u, w)
      OBVIOUS
    <3>2. Proper(x) /\ x.made = u.made \cup {w} /\ x.modal = u.modal /\ x.z = u.z
      BY <1>2, <2>2, <3>1, Constructed
    <3>3. x.z[w] = 0
      BY <1>2, <2>2, <3>2 DEF Proper, Sane, Levels
    <3>4. v = Show(x, w, FALSE)
      BY <1>1, <2>2, <3>1 DEF OpenWindow
    <3>5. w \in Chat /\ w \in x.made
      BY <1>2, <3>2
    <3>6. Proper(v) /\ v.made = x.made /\ v.modal = x.modal /\ w \in v.shown
      BY <3>2, <3>4, <3>5, PlainShown
    <3>7. NewHighest(x, w, v)
      BY <3>2, <3>4, <3>5, PlainShown
    <3> QED BY <3>2, <3>3, <3>6, <3>7 DEF NewHighest
  <2> QED BY <2>1, <2>2
<1>4. OnTop(v, w)
  BY <1>3, Highest DEF Proper
<1>5. DesktopInv'
  BY <1>1, <1>2, <1>3, SettledLike
<1> QED BY <1>1, <1>4, <1>5

LEMMA OpenDialogKeeps ==
    ASSUME DesktopInv, NEW w \in Win, OpenDialog(w)
    PROVE  DesktopInv'
<1>1. PICK u, x, v : u = ui /\ v = ui' /\ x = Construct(u, w)
  OBVIOUS
<1>2. Proper(u) /\ w \in Dialogs \ u.made /\ v = [x EXCEPT !.visible = @ \cup {w}]
  BY <1>1 DEF DesktopInv, OpenDialog
<1>3. Proper(x) /\ x.made = u.made \cup {w} /\ x.modal = u.modal
  BY <1>1, <1>2, Constructed
<1>4. w \in x.made \ x.modal
  BY <1>2, <1>3 DEF Proper, Sane, Made
<1>5. Proper(v) /\ v.made = x.made /\ v.modal = x.modal
  BY <1>2, <1>3, <1>4, Visible
<1>6. /\ v.modal \subseteq ready' /\ retries' \subseteq v.made \ Chat
      /\ asking' \subseteq v.made \cap Panel /\ keep' = keep
  BY <1>1, <1>2, <1>3, <1>5, KindsAssumption DEF DesktopInv, Pending, OpenDialog
<1> QED BY <1>1, <1>5, <1>6, Settled

LEMMA SetAjaxContentKeeps ==
    ASSUME DesktopInv, NEW w \in Win, SetAjaxContent(w)
    PROVE  DesktopInv'
<1>1. PICK u, v : u = ui /\ v = ui'
  OBVIOUS
<1>2. Proper(u) /\ w \in Panel /\ v = IF w \in u.made THEN u ELSE Construct(u, w)
  BY <1>1 DEF DesktopInv, SetAjaxContent
<1>3. Proper(v) /\ v.made = u.made \cup {w} /\ v.modal = u.modal
  <2>1. CASE w \in u.made
    BY <1>2, <2>1
  <2>2. CASE w \notin u.made
    BY <1>2, <2>2, Constructed
  <2> QED BY <2>1, <2>2
<1>4. /\ v.modal \subseteq ready' /\ retries' \subseteq v.made \ Chat
      /\ asking' \subseteq v.made \cap Panel /\ keep' = keep
  BY <1>1, <1>2, <1>3 DEF DesktopInv, Pending, SetAjaxContent
<1> QED BY <1>1, <1>3, <1>4, Settled

\* The two ways a window that waits is shown.
LEMMA ShownWhenReady ==
    ASSUME DesktopInv, NEW w \in ui.made \ Chat,
           NEW v, v = IF w \in ready THEN Show(ui, w, TRUE) ELSE [ui EXCEPT !.visible = @ \cup {w}]
    PROVE  Proper(v) /\ v.made = ui.made /\ v.modal \subseteq ready
<1>1. PICK u, a, b : u = ui /\ a = Show(u, w, TRUE) /\ b = [u EXCEPT !.visible = @ \cup {w}]
  OBVIOUS
<1>2. Proper(u) /\ u.modal \subseteq ready /\ w \in u.made \ Chat
  BY <1>1 DEF DesktopInv
<1>3. CASE w \in ready
  <2>1. Proper(a) /\ a.made = u.made /\ a.modal = u.modal \cup {w}
    BY <1>1, <1>2, ShownProper
  <2>2. v = a
    BY <1>1, <1>3
  <2> QED BY <1>1, <1>2, <1>3, <2>1, <2>2
<1>4. CASE w \notin ready
  <2>1. w \in u.made \ u.modal
    BY <1>2, <1>4
  <2>2. Proper(b) /\ b.made = u.made /\ b.modal = u.modal
    BY <1>1, <1>2, <2>1, Visible
  <2>3. v = b
    BY <1>1, <1>4
  <2> QED BY <1>1, <1>2, <2>2, <2>3
<1> QED BY <1>3, <1>4

LEMMA ShowAgainKeeps ==
    ASSUME DesktopInv, NEW w \in Win, ShowAgain(w)
    PROVE  DesktopInv'
<1>1. PICK v : v = ui'
  OBVIOUS
<1>2. /\ w \in ui.made \ Chat
      /\ v = IF w \in ready THEN Show(ui, w, TRUE) ELSE [ui EXCEPT !.visible = @ \cup {w}]
  BY <1>1 DEF DesktopInv, Pending, ShowAgain
<1>3. Proper(v) /\ v.made = ui.made /\ v.modal \subseteq ready
  BY <1>2, ShownWhenReady
<1>4. /\ v.modal \subseteq ready' /\ retries' \subseteq v.made \ Chat
      /\ asking' \subseteq v.made \cap Panel /\ keep' = keep
  BY <1>3 DEF DesktopInv, Pending, ShowAgain
<1> QED BY <1>1, <1>3, <1>4, Settled

LEMMA AjaxContentComesKeeps ==
    ASSUME DesktopInv, NEW w \in Win, AjaxContentComes(w)
    PROVE  DesktopInv'
<1>1. PICK v : v = ui'
  OBVIOUS
<1>2. /\ w \in ui.made \ Chat
      /\ v = IF w \in ready THEN Show(ui, w, TRUE) ELSE [ui EXCEPT !.visible = @ \cup {w}]
  BY <1>1, KindsAssumption DEF DesktopInv, Pending, AjaxContentComes
<1>3. Proper(v) /\ v.made = ui.made /\ v.modal \subseteq ready
  BY <1>2, ShownWhenReady
<1>4. /\ v.modal \subseteq ready' /\ retries' \subseteq v.made \ Chat
      /\ asking' \subseteq v.made \cap Panel /\ keep' = keep
  BY <1>2, <1>3 DEF DesktopInv, Pending, AjaxContentComes
<1> QED BY <1>1, <1>3, <1>4, Settled

LEMMA CloseKeeps ==
    ASSUME DesktopInv, NEW w \in Win, CloseInfo(w) \/ CloseButton(w)
    PROVE  DesktopInv'
<1>1. PICK u, v : u = ui /\ v = ui'
  OBVIOUS
<1>2. Proper(u) /\ v = CloseById(u, w) /\ UNCHANGED <<keep, ready, retries, asking>>
  BY <1>1 DEF DesktopInv, CloseInfo, CloseButton
<1>3. Follows(u, v)
  BY <1>2, ClosedById
<1> QED BY <1>1, <1>2, <1>3, SettledLike DEF Follows

LEMMA CloseAllKeeps ==
    ASSUME DesktopInv, CloseAll
    PROVE  DesktopInv'
<1>1. PICK u, v : u = ui /\ v = ui'
  OBVIOUS
<1>2. Proper(u) /\ v = CloseEach(u, u.windows) /\ UNCHANGED <<keep, ready, retries, asking>>
  BY <1>1 DEF DesktopInv, CloseAll
<1>3. PICK l : l = u.windows
  OBVIOUS
<1>4. l \in Seq(Win) /\ v = CloseEach(u, l)
  BY <1>2, <1>3 DEF Proper, Sane, UI
<1>5. Follows(u, v)
  BY <1>2, <1>4, EachClosed
<1> QED BY <1>1, <1>2, <1>5, SettledLike DEF Follows

LEMMA CloseAllModalWindowsKeeps ==
    ASSUME DesktopInv, ~ui.mixed, CloseAllModalWindows
    PROVE  DesktopInv'
<1>1. PICK u, v : u = ui /\ v = ui'
  OBVIOUS
<1>2. /\ Proper(u) /\ ~u.mixed /\ u.modals # <<>>
      /\ v = CloseModals(EnableScreen(u), Len(u.modals))
      /\ UNCHANGED <<keep, ready, retries, asking>>
  BY <1>1 DEF DesktopInv, CloseAllModalWindows
<1>3. Follows(u, v)
  BY <1>2, ModalsClosed
<1> QED BY <1>1, <1>2, <1>3, SettledLike DEF Follows
-------------------------------------------------------------------------------
(* The user. *)

\* What is over the overlay is not one of the windows kept under it.
LEMMA OverFree ==
    ASSUME NEW u, Proper(u), NEW w, Over(u, w)
    PROVE  w \in u.made /\ w \in Win /\ (~u.mixed => Free(u, w))
<1>1. w \in u.made /\ w \in Win
  BY DEF Proper, Sane, Made, UI, Over
<1>2. ASSUME ~u.mixed, keep, u.modals # <<>>, w \in Range(Front(u.modals)), w \notin u.risen
      PROVE  FALSE
  <2>1. u.z[w] < u.overlay
    BY <1>2 DEF Proper, Stack, Piled, Covered
  <2>2. u.z[w] > u.overlay /\ u.z[w] \in Nat /\ u.overlay \in Nat
    BY <1>1 DEF Over, Proper, Sane, UI
  <2> QED BY <2>1, <2>2
<1> QED BY <1>1, <1>2 DEF Free

LEMMA OverFronted ==
    ASSUME NEW u, Proper(u), NEW w, Over(u, w), NEW v, v = ToFront(u, w)
    PROVE  Follows(u, v)
<1>1. w \in u.made /\ (~u.mixed => Free(u, w))
  BY OverFree
<1>2. Proper(v) /\ IsRaised(u, w, v)
  BY <1>1, FrontedProper
<1> QED BY <1>2 DEF Follows, IsRaised, Same

LEMMA MouseDownKeeps ==
    ASSUME DesktopInv, NEW w \in Win, MouseDown(w)
    PROVE  DesktopInv'
<1>1. PICK u, v : u = ui /\ v = ui'
  OBVIOUS
<1>2. /\ Proper(u) /\ Over(u, w) /\ v = ToFront(u, w)
      /\ UNCHANGED <<keep, ready, retries, asking>>
  BY <1>1 DEF DesktopInv, MouseDown, Reachable
<1>3. Follows(u, v)
  BY <1>2, OverFronted
<1> QED BY <1>1, <1>2, <1>3, SettledLike DEF Follows

LEMMA InitDragKeeps ==
    ASSUME DesktopInv, NEW w \in Win, InitDrag(w)
    PROVE  DesktopInv'
<1>1. PICK u, x, v : u = ui /\ v = ui' /\ x = ToFront(u, w)
  OBVIOUS
<1>2. /\ Proper(u) /\ Over(u, w) /\ v = [x EXCEPT !.maxZ = @ + 1]
      /\ UNCHANGED <<keep, ready, retries, asking>>
  BY <1>1 DEF DesktopInv, InitDrag, Reachable
<1>3. Follows(u, x)
  BY <1>1, <1>2, OverFronted
<1>4. x \in UI
  BY <1>3 DEF Follows, Proper, Sane
<1>5. PICK n : n = x.maxZ + 1
  OBVIOUS
<1>6. n \in Nat /\ x.maxZ < n /\ x.maxZ \in Nat
  BY <1>4, <1>5 DEF UI
<1>7. v = [x EXCEPT !.maxZ = n]
  BY <1>2, <1>5
<1>8. /\ v \in UI /\ v.windows = x.windows /\ v.made = x.made /\ v.modal = x.modal
      /\ v.mixed = x.mixed /\ v.shown = x.shown /\ v.z = x.z /\ v.maxZ = n /\ v.risen = x.risen
      /\ v.modals = x.modals /\ v.overlay = x.overlay /\ v.visible = x.visible
  BY <1>4, <1>6, <1>7 DEF UI
<1>9. Made(v)
  BY <1>3, <1>8 DEF Follows, Proper, Sane, Made
<1>10. Levels(v)
  <2>1. Levels(x) /\ x.overlay \in Nat /\ x.z \in [Win -> Nat]
    BY <1>3 DEF Follows, Proper, Sane, UI
  <2>2. v.overlay <= v.maxZ /\ \A y \in Win : v.z[y] <= v.maxZ
    BY <1>6, <1>8, <2>1 DEF Levels
  <2> QED BY <1>8, <2>1, <2>2 DEF Levels
<1>11. ~v.mixed => Stack(v)
  BY <1>3, <1>8 DEF Follows, Proper, Stack, Piled, Top, Covered, Registered
<1>12. Proper(v)
  BY <1>8, <1>9, <1>10, <1>11 DEF Proper, Sane
<1> QED BY <1>1, <1>2, <1>3, <1>8, <1>12, SettledLike DEF Follows

LEMMA DialogButtonKeeps ==
    ASSUME DesktopInv, NEW w \in Win, DialogButton(w)
    PROVE  DesktopInv'
<1>1. PICK u, x, v : u = ui /\ v = ui' /\ x = ToFront(u, w)
  OBVIOUS
<1>2. /\ Proper(u) /\ Over(u, w) /\ v = IF x.focused = None THEN x ELSE Close(x, x.focused)
      /\ UNCHANGED <<keep, ready, retries, asking>>
  BY <1>1 DEF DesktopInv, DialogButton, Reachable
<1>3. Follows(u, x)
  BY <1>1, <1>2, OverFronted
<1>4. Follows(x, v)
  <2>1. CASE x.focused = None
    BY <1>2, <1>3, <2>1 DEF Follows
  <2>2. CASE x.focused # None
    <3>1. Proper(x) /\ Sane(x) /\ x.focused \in Win
      BY <1>3, <2>2 DEF Follows, Proper, Sane, UI
    <3> QED BY <1>2, <2>2, <3>1, Closed
  <2> QED BY <2>1, <2>2
<1> QED BY <1>1, <1>2, <1>3, <1>4, SettledLike DEF Follows
-------------------------------------------------------------------------------
(* The page is resized. *)

\* Dialogs under the overlay are free to be raised once they are noted.
LEMMA Noted ==
    ASSUME NEW u, Proper(u), NEW v,
           v = [u EXCEPT !.risen = @ \cup (Centered(u) \cap Range(u.modals))]
    PROVE  Follows(u, v) /\ \A w \in Dialogs \cap Range(u.windows) : ~v.mixed => Free(v, w)
<1>1. u \in UI /\ u.modals \in Seq(Win)
  BY DEF Proper, Sane, UI
<1>2. PICK R : R = u.risen \cup (Centered(u) \cap Range(u.modals))
  OBVIOUS
<1>3. R \in SUBSET Win
  BY <1>1, <1>2 DEF UI, Centered, Win
<1>4. v = [u EXCEPT !.risen = R]
  BY <1>2
<1>5. /\ v \in UI /\ v.windows = u.windows /\ v.made = u.made /\ v.modal = u.modal
      /\ v.mixed = u.mixed /\ v.shown = u.shown /\ v.z = u.z /\ v.maxZ = u.maxZ
      /\ v.modals = u.modals /\ v.overlay = u.overlay /\ v.visible = u.visible /\ v.risen = R
  BY <1>1, <1>3, <1>4 DEF UI
<1>6. Made(v) /\ Levels(v)
  BY <1>5 DEF Proper, Sane, Made, Levels
<1>7. ASSUME ~u.mixed PROVE Stack(v)
  BY <1>2, <1>5, <1>7 DEF Proper, Stack, Piled, Top, Covered, Registered
<1>8. ASSUME NEW w \in Dialogs \cap Range(u.windows) PROVE Free(v, w)
  <2>1. PICK l, q : l = u.modals /\ q = Front(l)
    OBVIOUS
  <2>2. l # <<>> => Range(q) \subseteq Range(l)
    BY <1>1, <2>1, FrontIs
  <2> QED BY <1>2, <1>5, <1>8, <2>1, <2>2 DEF Free, Centered
<1> QED BY <1>5, <1>6, <1>7, <1>8 DEF Proper, Sane, Follows

\* What stays while the windows are raised one after the other.
Rising(u, v) ==
    /\ Follows(u, v) /\ v.windows = u.windows /\ v.modals = u.modals /\ v.risen = u.risen
    /\ v.mixed = u.mixed

LEMMA EachRaised ==
    ASSUME NEW u, Proper(u), NEW list \in Seq(Win), Range(list) \subseteq u.made,
           \A w \in Dialogs \cap Range(list) : ~u.mixed => Free(u, w),
           NEW v, v = RaiseEach(u, list)
    PROVE  Rising(u, v)
<1>0. PICK m \in Nat : m = Len(list) /\ \A n \in 1..m : list[n] \in Win /\ list[n] \in Range(list)
  BY DEF Range
<1> DEFINE Step(n, x) == IF list[n] \in Dialogs THEN ToFront(x, list[n]) ELSE x
           round == [p \in (1..m) \X UI |-> Step(p[1], p[2])]
           J == [n \in 0..m |-> {x \in UI : Rising(u, x)}]
<1>1. \A n \in 1..m, x \in UI : round[<<n, x>>] = Step(n, x)
  OBVIOUS
<1>2. \A n \in 0..m : \A x : x \in J[n] <=> x \in UI /\ Rising(u, x)
  OBVIOUS
<1>s. \A n \in 1..m : \A x :
         Step(n, x) = IF list[n] \in Dialogs THEN ToFront(x, list[n]) ELSE x
  OBVIOUS
<1> HIDE DEF round, J, Step
<1>3. 0 \in 0..m /\ m \in 0..m /\ \A n \in 1..m : n \in 0..m /\ n - 1 \in 0..m /\ n # 0
  BY <1>0
<1>4. u \in J[0]
  BY <1>2, <1>3 DEF Rising, Follows, Proper, Sane
<1>5. \A n \in 0..m : \A x \in J[n] : x \in UI
  BY <1>2
<1>6. ASSUME NEW n \in 1..m, NEW x \in J[n - 1] PROVE round[<<n, x>>] \in J[n]
  <2>1. Rising(u, x) /\ x \in UI /\ list[n] \in Win /\ list[n] \in Range(list)
    BY <1>0, <1>2, <1>3, <1>5
  <2>2. PICK y, w : y = Step(n, x) /\ w = list[n]
    OBVIOUS
  <2>3. Rising(u, y)
    <3>1. CASE w \in Dialogs
      <4>1. y = ToFront(x, w)
        BY <1>s, <2>2, <3>1
      <4>2. Proper(x) /\ w \in x.made
        BY <2>1, <2>2 DEF Rising, Follows
      <4>3. ~x.mixed => Free(x, w)
        BY <2>1, <2>2, <3>1 DEF Rising, Free
      <4>4. Proper(y) /\ IsRaised(x, w, y)
        BY <4>1, <4>2, <4>3, FrontedProper
      <4> QED BY <2>1, <4>4 DEF Rising, Follows, IsRaised, Same
    <3>2. CASE w \notin Dialogs
      BY <1>s, <2>1, <2>2, <3>2
    <3> QED BY <3>1, <3>2
  <2>4. y \in UI
    BY <2>3 DEF Rising, Follows, Proper, Sane
  <2> QED BY <1>1, <1>2, <1>3, <2>1, <2>2, <2>3, <2>4
<1> DEFINE After(k) == k = [n \in 0..m |-> IF n = 0 THEN u ELSE Step(n, k[n - 1])]
<1>7. ASSUME NEW k, \/ Loop(k, m, u, round) \/ After(k)
      PROVE  \A n \in 0..m : k[n] \in J[n]
  <2>1. k[0] = u
    <3>1. CASE Loop(k, m, u, round)
      <4>1. \A n \in 0..m : k[n] = IF n = 0 THEN u ELSE round[<<n, k[n - 1]>>]
        BY <3>1 DEF Loop
      <4> QED BY <1>3, <4>1, Zenon
    <3>2. CASE After(k)
      BY <1>3, <3>2, Zenon
    <3> QED BY <1>7, <3>1, <3>2
  <2>2. ASSUME NEW n \in 1..m, k[n - 1] \in J[n - 1] PROVE k[n] \in J[n]
    <3>1. k[n - 1] \in UI
      BY <1>3, <1>5, <2>2
    <3>2. k[n] = round[<<n, k[n - 1]>>]
      <4>1. CASE Loop(k, m, u, round)
        BY <1>3, <4>1 DEF Loop
      <4>2. CASE After(k)
        BY <1>1, <1>3, <3>1, <4>2
      <4> QED BY <1>7, <4>1, <4>2
    <3> QED BY <1>6, <2>2, <3>2
  <2> QED BY <1>0, <1>4, <2>1, <2>2, LoopHolds
<1>8. PICK g : Loop(g, m, u, round)
  BY <1>0, LoopExists
<1>9. After(g)
  <2>1. \A n \in 1..m : g[n - 1] \in UI
    BY <1>3, <1>5, <1>7, <1>8
  <2>2. g = [n \in 0..m |-> IF n = 0 THEN u ELSE round[<<n, g[n - 1]>>]]
    BY <1>8 DEF Loop
  <2>3. ASSUME NEW n \in 0..m
        PROVE  (IF n = 0 THEN u ELSE round[<<n, g[n - 1]>>])
                   = (IF n = 0 THEN u ELSE Step(n, g[n - 1]))
    <3>1. n = 0 \/ n \in 1..m
      BY <1>0
    <3> QED BY <1>1, <2>1, <3>1
  <2> QED BY <2>2, <2>3
<1>10. PICK k : After(k) /\ v = k[m]
  BY <1>0, <1>9 DEF RaiseEach, Step
<1> QED BY <1>2, <1>3, <1>7, <1>10

LEMMA ResizedKeeps ==
    ASSUME DesktopInv, Resized
    PROVE  DesktopInv'
<1>1. PICK u, v : u = ui /\ v = ui'
  OBVIOUS
<1>2. Proper(u) /\ v = Recenter(u) /\ UNCHANGED <<keep, ready, retries, asking>>
  BY <1>1 DEF DesktopInv, Resized
<1>3. PICK x, l : /\ x = [u EXCEPT !.risen = @ \cup (Centered(u) \cap Range(u.modals))]
                 /\ l = u.windows
  OBVIOUS
<1>4. Follows(u, x) /\ \A w \in Dialogs \cap Range(l) : ~x.mixed => Free(x, w)
  BY <1>2, <1>3, Noted
<1>5. v = RaiseEach(x, l) /\ l \in Seq(Win) /\ Range(l) \subseteq x.made
  BY <1>2, <1>3, <1>4 DEF Recenter, Follows, Proper, Sane, Made, UI
<1>6. Rising(x, v)
  BY <1>4, <1>5, EachRaised DEF Follows
<1> QED BY <1>1, <1>2, <1>4, <1>6, SettledLike DEF Rising, Follows
-------------------------------------------------------------------------------
LEMMA StepKeeps == DesktopInv /\ [Next]_vars => DesktopInv'
<1> SUFFICES ASSUME DesktopInv, [Next]_vars PROVE DesktopInv'
  OBVIOUS
<1>1. ASSUME UNCHANGED <<keep, ui, ready, retries, asking>> PROVE DesktopInv'
  <2>1. Proper(ui)
    BY DEF DesktopInv
  <2> QED BY <1>1, <2>1, SettledLike
<1>2. ASSUME NEW w \in Win, Ready(w) PROVE DesktopInv'
  <2>1. PICK u : u = ui'
    OBVIOUS
  <2>2. /\ Proper(u) /\ u.modal \subseteq ready' /\ retries' \subseteq u.made \ Chat
        /\ asking' \subseteq u.made \cap Panel /\ keep' = keep
    BY <1>2, <2>1 DEF DesktopInv, Pending, Ready
  <2> QED BY <2>1, <2>2, Settled
<1>3. CASE Next
  <2>1. CASE \E w \in Win : OpenWindow(w) \/ OpenDialog(w) \/ SetAjaxContent(w) \/ AjaxContentComes(w)
    BY <2>1, OpenWindowKeeps, OpenDialogKeeps, SetAjaxContentKeeps, AjaxContentComesKeeps
  <2>2. CASE \E w \in Win : Ready(w) \/ ShowAgain(w) \/ CloseInfo(w) \/ CloseButton(w)
    BY <1>2, <2>2, ShowAgainKeeps, CloseKeeps
  <2>3. CASE \E w \in Win : MouseDown(w) \/ InitDrag(w) \/ DialogButton(w)
    BY <2>3, MouseDownKeeps, InitDragKeeps, DialogButtonKeeps
  <2>4. CASE EndDrag
    BY <1>1, <2>4 DEF EndDrag
  <2>5. CASE CloseAll \/ CloseAllModalWindows
    BY <1>3, <2>5, CloseAllKeeps, CloseAllModalWindowsKeeps DEF Next
  <2>6. CASE Resized
    BY <2>6, ResizedKeeps
  <2> QED BY <1>3, <2>1, <2>2, <2>3, <2>4, <2>5, <2>6 DEF Next
<1>4. CASE UNCHANGED vars
  BY <1>1, <1>4 DEF vars
<1> QED BY <1>3, <1>4

THEOREM DesktopHolds == Spec => []DesktopInv
BY InitKeeps, StepKeeps, PTL DEF Spec

\* While no modal window is shown twice or leaves out of turn, modalWindows holds
\* each open modal window once, and the overlay is there as long as it has one.
THEOREM StackSound == Spec => []ModalStack
<1>1. DesktopInv => ModalStack
  BY DEF DesktopInv, Proper, Stack, ModalStack
<1> QED BY <1>1, DesktopHolds, PTL

\* The last modal window is over the overlay or was destroyed, and those before
\* it are under the overlay or hidden, or a resized page has raised them.
THEOREM LastIsReachable == Spec => []Dismissable
<1>1. ASSUME DesktopInv PROVE Dismissable
  <2>1. SUFFICES ASSUME ~ui.mixed, ui.modals # <<>>
                 PROVE  /\ Over(ui, Last(ui.modals)) \/ ~Registered(ui, Last(ui.modals))
                        /\ \A w \in Range(Front(ui.modals)) :
                              Over(ui, w) => keep /\ w \in ui.risen
    BY DEF Dismissable
  <2>2. /\ Top(ui, Last(ui.modals)) /\ \A w \in Range(Front(ui.modals)) : Covered(ui, w)
    BY <1>1, <2>1 DEF DesktopInv, Proper, Stack, Piled
  <2>3. ASSUME NEW w \in Range(Front(ui.modals)), Over(ui, w) PROVE keep /\ w \in ui.risen
    <3>1. w \in ui.shown /\ ui.z[w] > ui.overlay
      BY <2>3 DEF Over
    <3>2. ui.z[w] \in Nat /\ ui.overlay \in Nat
      BY <1>1, <3>1 DEF DesktopInv, Proper, Sane, UI
    <3> QED BY <2>2, <3>1, <3>2 DEF Covered
  <2> QED BY <2>2, <2>3 DEF Top, Over
<1> QED BY <1>1, DesktopHolds, PTL

\* What was shown, and the overlay, have levels of their own, whatever is shown
\* or closed in whatever order.
THEOREM LevelsApart == Spec => []Stacked
<1>1. DesktopInv => Stacked
  BY DEF DesktopInv, Proper, Sane, Levels, Stacked
<1> QED BY <1>1, DesktopHolds, PTL

\* A chat window that is opened comes over all that is shown.
THEOREM OpenedOnTop == Spec => ChatOnTop
<1>1. DesktopInv => \A w \in Chat : OpenWindow(w) => OnTop(ui', w)
  BY OpenWindowKeeps DEF Win
<1> QED BY <1>1, DesktopHolds, PTL DEF ChatOnTop
================================================================================
