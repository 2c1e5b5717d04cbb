\* Four tasks, and a word of the values 0..5 of which 5 is CLOSED.
SPECIFICATION Spec
CONSTANTS
    Tasks = {t1, t2, t3, t4}
    CLOSED = 5
SYMMETRY TaskSymmetry
INVARIANTS TypeOK WordCountsHolders
PROPERTIES ClosedForGood ImplementsGate
