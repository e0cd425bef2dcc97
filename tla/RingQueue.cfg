\* A four-entry queue, the size of the decode queue, of two distinguishable uops.
SPECIFICATION Spec
CONSTANTS
    N = 4
    Value = {u, v}
INVARIANTS
    TypeOK
    PointersInStep
PROPERTIES
    ImplementsFifo
