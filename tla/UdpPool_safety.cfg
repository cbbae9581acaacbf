\* Three callers share two sockets with two ids: ids are reused, leaked and
\* run out, answers come late and twice, sockets die between any two steps.
CONSTANTS
    Query = {q1, q2, q3}
    NoQuery = NoQuery
    NumIds = 2
    MaxSock = 2
SPECIFICATION Spec
INVARIANTS TypeOK OwnAnswer SenderKept OnlyCancelledLeaves
PROPERTIES OverwritesOnlyWhenFull ImplementsExchange
SYMMETRY Symmetry
CHECK_DEADLOCK FALSE
