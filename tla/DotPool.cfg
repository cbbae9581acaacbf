\* Four calls share a pool of two: they queue for permits and for the mutex,
\* reuse, drop and make connections, and give up anywhere.
CONSTANTS
    Query = {q1, q2, q3, q4}
    NoQuery = NoQuery
    Capacity = 2
    MaxConn = 4
SPECIFICATION Spec
INVARIANTS OwnAnswer PoolInOrder
PROPERTIES ImplementsExchange
SYMMETRY Symmetry
CHECK_DEADLOCK FALSE
