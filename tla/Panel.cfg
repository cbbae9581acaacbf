CONSTANTS
    Window = {w1}
    View <- Views
    Start <- Starts
    Login = Login
    None = None
    TTL = 1
    MaxTokens = 2
    MaxCalls = 2
SPECIFICATION FairSpec
INVARIANTS TypeOK
PROPERTIES DeadStaysDead KickedForAReason EndIsNoticed RowsCatchUp
