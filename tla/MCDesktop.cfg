SPECIFICATION Spec
CONSTANTS
    Chat = {c1}
    Dialogs = {d1, d2}
    Panel = {p1}
    None = None
    MaxRaise = 6
INVARIANTS ModalStack Dismissable Stacked
PROPERTIES ChatOnTop
SYMMETRY Symmetry
CHECK_DEADLOCK FALSE
