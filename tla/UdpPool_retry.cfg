\* Two callers and as many sockets as their four attempts can bind, under
\* fairness (no symmetry: a liveness property is checked).
CONSTANTS
    Query = {q1, q2}
    NoQuery = NoQuery
    NumIds = 3
    MaxSock = 4
SPECIFICATION FairSpec
INVARIANTS RetryOnFreshSocket
PROPERTIES QueryReturns
CHECK_DEADLOCK FALSE
