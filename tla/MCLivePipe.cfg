SPECIFICATION Spec
CONSTANTS
    Win = {m1, m2, a1, l1, l2, i1, f1}
    Modal = {m1, m2, a1, l1, i1}
    Light = {l1, l2}
    Remote = {a1, l2}
    Image = {i1}
    Framed = {f1}
    None = None
    MaxMade = 3
INVARIANTS Layered Dismissable IndicatorGoes
PROPERTIES ModalAlone
SYMMETRY Symmetry
CHECK_DEADLOCK FALSE
