SPECIFICATION Spec
CONSTANTS
    Objects = {o1, o2}
    Foreign = Foreign
    Empty = Empty
INVARIANTS
    TypeOK
    OwnershipKnown
    LeakReported
