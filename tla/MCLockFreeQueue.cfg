SPECIFICATION Spec
SYMMETRY Symmetry
CONSTANTS
    Enqueuers = {e1, e2}
    Dequeuers = {d1, d2}
    Observers = {o1}
    Size = 2
    MaxOps = 3
    None = None
INVARIANTS SlotExclusive ObserverNeverWraps NothingMissing
PROPERTIES HonestRefusal ImplementsFifo
