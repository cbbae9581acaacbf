\* Two calls under fairness: the second one reuses the first one's connection.
CONSTANTS
    Query = {q1, q2}
    NoQuery = NoQuery
    Capacity = 2
    MaxConn = 4
SPECIFICATION FairSpec
PROPERTIES AnsweredReturns
CHECK_DEADLOCK FALSE
