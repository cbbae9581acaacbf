------------------------------ MODULE UdpPool ------------------------------
(***************************************************************************)
(* The pooled UDP upstream of src/src/dns/upstream/udp.rs.                 *)
(*                                                                         *)
(* Concurrent calls of UdpPool::query share one connected socket and are   *)
(* told apart by the 16-bit DNS message id.  A receive loop per socket     *)
(* hands each answer to the caller whose oneshot sender is registered      *)
(* under the answer's id; a socket that fails is dropped and rebuilt, and  *)
(* the caller that noticed retries once.  The callers' own futures may be  *)
(* dropped at any await point: UpstreamGroup wraps every query in a        *)
(* timeout of its own and select_ok drops the losers.                      *)
(*                                                                         *)
(* A oneshot pair is represented by its owner.  The sender of query q is   *)
(* in pending[s][i] iff pending[s][i] = q; q waits on socket s under id i, *)
(* so q's receiver is closed iff its slot no longer holds q and no reply   *)
(* was delivered.                                                          *)
(***************************************************************************)
EXTENDS Naturals, FiniteSets

CONSTANTS
    Query,    \* calls of UdpPool::query, each with a question of its own
    NoQuery,  \* no sender registered, no reply delivered
    NumIds,   \* how many query ids there are: 2^16 in the code
    MaxSock   \* bound: how many sockets are ever bound

ASSUME QueryAssumption == NoQuery \notin Query
ASSUME NumIdsAssumption == NumIds \in Nat \ {0}
ASSUME MaxSockAssumption == MaxSock \in Nat

VARIABLES
    inner,    \* the pool's current socket, 0 for none
    made,     \* sockets bound so far; socket s is the s-th one
    alive,    \* alive[s]: the receive loop of socket s is running
    issued,   \* issued[s]: how often next_id of socket s was incremented
    pending,  \* pending[s][i]: owner of the sender registered under id i
    wire,     \* requests the upstream has received, which it may answer
    pc,       \* where each query is
    sock,     \* the socket a query took with get_or_create, 0 for none
    qid,      \* the id it selected on that socket
    lost,     \* the socket its first attempt failed on; 0 on attempt 0
    reply     \* the query whose question the reply it received answers

sockVars == <<inner, made, alive>>
callVars == <<sock, qid, lost>>
vars == <<inner, made, alive, issued, pending, wire, pc, sock, qid, lost, reply>>

Sock == 1..MaxSock
Id == 0..(NumIds - 1)

\* Await points of query(): the caller may drop the future here.
Awaiting == {"create", "bind", "send", "wait", "invalidate", "tcp"}
\* query() has returned, or was dropped.
Final == {"ok", "failed", "cancelled"}
PC == Awaiting \cup Final \cup {"select", "broken", "expired"}

TypeOK ==
    /\ inner \in 0..MaxSock
    /\ made \in 0..MaxSock
    /\ alive \in [Sock -> BOOLEAN]
    /\ issued \in [Sock -> Nat]
    /\ pending \in [Sock -> [Id -> Query \cup {NoQuery}]]
    /\ wire \subseteq (Sock \X Id \X Query)
    /\ pc \in [Query -> PC]
    /\ sock \in [Query -> 0..MaxSock]
    /\ qid \in [Query -> Id]
    /\ lost \in [Query -> 0..MaxSock]
    /\ reply \in [Query -> Query \cup {NoQuery}]

Init ==
    /\ inner = 0
    /\ made = 0
    /\ alive = [s \in Sock |-> FALSE]
    /\ issued = [s \in Sock |-> 0]
    /\ pending = [s \in Sock |-> [i \in Id |-> NoQuery]]
    /\ wire = {}
    /\ pc = [q \in Query |-> "create"]
    /\ sock = [q \in Query |-> 0]
    /\ qid = [q \in Query |-> 0]
    /\ lost = [q \in Query |-> 0]
    /\ reply = [q \in Query |-> NoQuery]

---------------------------------------------------------------------------
(* get_or_create *)

\* The read-locked fast path of get_or_create.
ReadInner(q) ==
    /\ pc[q] = "create"
    /\ IF inner # 0
       THEN /\ sock' = [sock EXCEPT ![q] = inner]
            /\ pc' = [pc EXCEPT ![q] = "select"]
       ELSE /\ pc' = [pc EXCEPT ![q] = "bind"]
            /\ UNCHANGED sock
    /\ UNCHANGED <<sockVars, issued, pending, wire, qid, lost, reply>>

\* The write-locked slow path: look again, then bind, connect and start the
\* receive loop.  The write guard is held until it returns.
BindSocket(q) ==
    /\ pc[q] = "bind"
    /\ pc' = [pc EXCEPT ![q] = "select"]
    /\ IF inner # 0
       THEN /\ sock' = [sock EXCEPT ![q] = inner]
            /\ UNCHANGED sockVars
       ELSE /\ made < MaxSock
            /\ made' = made + 1
            /\ inner' = made + 1
            /\ alive' = [alive EXCEPT ![made + 1] = TRUE]
            /\ sock' = [sock EXCEPT ![q] = made + 1]
    /\ UNCHANGED <<issued, pending, wire, qid, lost, reply>>

\* The call is over and its locals are gone, the receiver among them; the
\* pending table is not a local.
Return(q, result) ==
    /\ pc' = [pc EXCEPT ![q] = result]
    /\ sock' = [sock EXCEPT ![q] = 0]
    /\ qid' = [qid EXCEPT ![q] = 0]
    /\ lost' = [lost EXCEPT ![q] = 0]

\* bind() or connect() fails: the error goes to the caller.
BindFails(q) ==
    /\ pc[q] = "bind"
    /\ inner = 0
    /\ Return(q, "failed")
    /\ UNCHANGED <<sockVars, issued, pending, wire, reply>>

---------------------------------------------------------------------------
(* One attempt of query *)

\* Mutant of Candidate: next_id is read but never advanced.
CandidateStuck(s, t) == t % NumIds

\* The id reached by incrementing next_id t times more; next_id is a u16.
Candidate(s, t) == (issued[s] + t) % NumIds

\* Mutant of StopsAt: the id is used without looking whether it is free.
StopsAtFirst(s, t) == t = 0

\* The loop increments t times: past every id in use, up to the first that
\* is not, or up to the last of them all.
StopsAt(s, t) ==
    /\ \A u \in 0..(t - 1) : pending[s][Candidate(s, u)] # NoQuery
    /\ t = NumIds - 1 \/ pending[s][Candidate(s, t)] = NoQuery

\* Mutant of SelectId: the caller keeps an id wider than 16 bits.
SelectIdWide(q) ==
    /\ pc[q] = "select"
    /\ LET s == sock[q] IN
       \E t \in 0..(NumIds - 1) :
          /\ StopsAt(s, t)
          /\ issued' = [issued EXCEPT ![s] = @ + t + 1]
          /\ pending' = [pending EXCEPT ![s][Candidate(s, t)] = q]
          /\ qid' = [qid EXCEPT ![q] = issued[s] + t]
    /\ reply' = [reply EXCEPT ![q] = NoQuery]
    /\ pc' = [pc EXCEPT ![q] = "send"]
    /\ UNCHANGED <<sockVars, wire, sock, lost>>

\* Select an id and register the sender under one lock of pending; insert
\* replaces whatever was registered there.
SelectId(q) ==
    /\ pc[q] = "select"
    /\ LET s == sock[q] IN
       \E t \in 0..(NumIds - 1) :
          /\ StopsAt(s, t)
          /\ issued' = [issued EXCEPT ![s] = @ + t + 1]
          /\ pending' = [pending EXCEPT ![s][Candidate(s, t)] = q]
          /\ qid' = [qid EXCEPT ![q] = Candidate(s, t)]
    /\ reply' = [reply EXCEPT ![q] = NoQuery]
    /\ pc' = [pc EXCEPT ![q] = "send"]
    /\ UNCHANGED <<sockVars, wire, sock, lost>>

\* send() succeeds; the datagram may be lost, wire records it when it is not.
Send(q) ==
    /\ pc[q] = "send"
    /\ pc' = [pc EXCEPT ![q] = "wait"]
    /\ \/ alive[sock[q]] /\ wire' = wire \cup {<<sock[q], qid[q], q>>}
       \/ UNCHANGED wire
    /\ UNCHANGED <<sockVars, issued, pending, callVars, reply>>

SendFails(q) ==
    /\ pc[q] = "send"
    /\ pc' = [pc EXCEPT ![q] = "broken"]
    /\ UNCHANGED <<sockVars, issued, pending, wire, callVars, reply>>

\* The receiver is closed: the sender left the table without an answer.
Closed(q) == reply[q] = NoQuery /\ pending[sock[q]][qid[q]] # q

\* A reply was delivered: return it, re-ask over TCP when it is truncated,
\* or fail when it does not parse.
TakeReply(q) ==
    /\ pc[q] = "wait"
    /\ reply[q] # NoQuery
    /\ \/ /\ \E result \in {"ok", "failed"} : Return(q, result)
       \/ /\ pc' = [pc EXCEPT ![q] = "tcp"]
          /\ UNCHANGED callVars
    /\ UNCHANGED <<sockVars, issued, pending, wire, reply>>

RecvError(q) ==
    /\ pc[q] = "wait"
    /\ Closed(q)
    /\ pc' = [pc EXCEPT ![q] = "broken"]
    /\ UNCHANGED <<sockVars, issued, pending, wire, callVars, reply>>

\* Mutant of Timeout: the wait is not bounded.
TimeoutNever(q) == FALSE

\* The UDP_TIMEOUT of the attempt passes with the receiver still open.
Timeout(q) ==
    /\ pc[q] = "wait"
    /\ reply[q] = NoQuery
    /\ ~Closed(q)
    /\ pc' = [pc EXCEPT ![q] = "expired"]
    /\ UNCHANGED <<sockVars, issued, pending, wire, callVars, reply>>

\* Mutant of Removed: the whole table is cleared.
RemovedAll(q) == [pending EXCEPT ![sock[q]] = [i \in Id |-> NoQuery]]

\* pending.remove(&qid), whoever is registered under it by now.
Removed(q) == [pending EXCEPT ![sock[q]][qid[q]] = NoQuery]

\* After a failed send or a closed receiver: take the entry out, then go on
\* to invalidate the socket.
RemoveBroken(q) ==
    /\ pc[q] = "broken"
    /\ pending' = Removed(q)
    /\ pc' = [pc EXCEPT ![q] = "invalidate"]
    /\ UNCHANGED <<sockVars, issued, wire, callVars, reply>>

\* Mutant of RemoveExpired: the entry of a timed-out query stays.
RemoveExpiredNot(q) ==
    /\ pc[q] = "expired"
    /\ Return(q, "failed")
    /\ UNCHANGED <<sockVars, issued, pending, wire, reply>>

\* After a timeout: take the entry out and return the error.
RemoveExpired(q) ==
    /\ pc[q] = "expired"
    /\ pending' = Removed(q)
    /\ Return(q, "failed")
    /\ UNCHANGED <<sockVars, issued, wire, reply>>

\* Mutant of Invalidate: the socket is dropped after the last attempt only.
InvalidateLate(q) ==
    /\ pc[q] = "invalidate"
    /\ IF lost[q] = 0
       THEN /\ lost' = [lost EXCEPT ![q] = sock[q]]
            /\ pc' = [pc EXCEPT ![q] = "create"]
            /\ UNCHANGED <<inner, sock, qid>>
       ELSE /\ inner' = IF inner = sock[q] THEN 0 ELSE inner
            /\ Return(q, "failed")
    /\ UNCHANGED <<made, alive, issued, pending, wire, reply>>

\* Drop the pool's socket if it is still the one that failed, then retry
\* once.
Invalidate(q) ==
    /\ pc[q] = "invalidate"
    /\ inner' = IF inner = sock[q] THEN 0 ELSE inner
    /\ IF lost[q] = 0
       THEN /\ lost' = [lost EXCEPT ![q] = sock[q]]
            /\ pc' = [pc EXCEPT ![q] = "create"]
            /\ UNCHANGED <<sock, qid>>
       ELSE Return(q, "failed")
    /\ UNCHANGED <<made, alive, issued, pending, wire, reply>>

\* tcp::query on a connection of its own: its answer, or its error.
TcpQuery(q) ==
    /\ pc[q] = "tcp"
    /\ \/ Return(q, "ok") /\ reply' = [reply EXCEPT ![q] = q]
       \/ Return(q, "failed") /\ UNCHANGED reply
    /\ UNCHANGED <<sockVars, issued, pending, wire>>

---------------------------------------------------------------------------
(* The environment: the receive loops, and the callers that give up *)

\* The receive loop routes an answer by its id alone.  An answer may come
\* late, out of order or twice, so a request stays on the wire.
Receive(s, i, asked) ==
    LET owner == pending[s][i]
    IN  /\ alive[s]
        /\ <<s, i, asked>> \in wire
        /\ owner # NoQuery
        /\ pending' = [pending EXCEPT ![s][i] = NoQuery]
        /\ reply' = IF /\ pc[owner] \in {"send", "wait"}
                       /\ sock[owner] = s
                       /\ qid[owner] = i
                    THEN [reply EXCEPT ![owner] = asked]
                    ELSE reply   \* the receiver was dropped
        /\ UNCHANGED <<sockVars, issued, wire, pc, callVars>>

\* recv() fails: every sender is dropped and the loop exits, so no answer on
\* the wire can reach it any more.  The pool keeps the socket until some
\* caller notices.
SocketError(s) ==
    /\ alive[s]
    /\ alive' = [alive EXCEPT ![s] = FALSE]
    /\ pending' = [pending EXCEPT ![s] = [i \in Id |-> NoQuery]]
    /\ wire' = {w \in wire : w[1] # s}
    /\ UNCHANGED <<inner, made, issued, pc, callVars, reply>>

\* The caller drops the future: UPSTREAM_TIMEOUT of query_round_robin and
\* query_fastest, or select_ok returning another server's answer.  Nothing
\* takes the entry out of pending.
Cancel(q) ==
    /\ pc[q] \in Awaiting
    /\ Return(q, "cancelled")
    /\ UNCHANGED <<sockVars, issued, pending, wire, reply>>

---------------------------------------------------------------------------
\* The steps the runtime keeps polling until the call returns.
Step(q) ==
    \/ ReadInner(q) \/ BindSocket(q) \/ BindFails(q)
    \/ SelectId(q) \/ Send(q) \/ SendFails(q)
    \/ TakeReply(q) \/ RecvError(q) \/ Timeout(q)
    \/ RemoveBroken(q) \/ RemoveExpired(q) \/ Invalidate(q)
    \/ TcpQuery(q)

Next ==
    \/ \E q \in Query : Step(q) \/ Cancel(q)
    \/ \E s \in Sock, i \in Id, asked \in Query : Receive(s, i, asked)
    \/ \E s \in Sock : SocketError(s)

Spec == Init /\ [][Next]_vars

\* Woken tasks are polled and timers fire; nothing is assumed of the network.
FairSpec == Spec /\ \A q \in Query : WF_vars(Step(q))

---------------------------------------------------------------------------
(* Properties *)

\* Until the id counter of a socket has gone all the way round, a caller is
\* given only the answer to its own question (udp.rs routes by id alone and
\* never compares questions).
OwnAnswer ==
    \A q \in Query :
        (pc[q] \in {"send", "wait"} /\ reply[q] # NoQuery
            /\ issued[sock[q]] <= NumIds) => reply[q] = q

\* Until the counter has gone round, only the death of the receive loop can
\* close the receiver of a call that waits: no other caller's clean-up takes
\* its entry (the remove(&qid) calls of query).
SenderKept ==
    \A q \in Query :
        (pc[q] \in {"send", "wait"} /\ alive[sock[q]]
            /\ issued[sock[q]] <= NumIds) => ~Closed(q)

\* An entry whose caller is gone was left by a cancelled future: every path
\* of query that returns by itself has removed it.
OnlyCancelledLeaves ==
    \A s \in Sock, i \in Id :
        LET q == pending[s][i] IN
        q # NoQuery =>
            \/ pc[q] = "cancelled"
            \/ /\ pc[q] \in {"send", "wait", "broken", "expired"}
               /\ sock[q] = s /\ qid[q] = i

\* The second attempt never runs on the socket that failed the first: the
\* stale socket is out of the pool before get_or_create is called again.
RetryOnFreshSocket ==
    \A q \in Query :
        (lost[q] # 0 /\ pc[q] \in {"select", "send", "wait"}) => sock[q] > lost[q]

\* udp.rs:190-195: registering a sender replaces another caller's only when
\* not one of the socket's ids is free, however callers, cancellations and
\* answers interleave.
OverwritesOnlyWhenFull ==
    [][\A s \in Sock, i \in Id :
          /\ pending[s][i] # NoQuery
          /\ pending'[s][i] \notin {NoQuery, pending[s][i]}
          => \A j \in Id : pending[s][j] # NoQuery]_vars

\* Every call returns: a lost datagram, a dead receive loop and a replaced
\* sender all end in an answer, an error or the caller giving up.
QueryReturns == \A q \in Query : <>(pc[q] \in Final)

\* What UdpPool promises (udp.rs:182-260): a call ends once, and until the ids of
\* some socket have gone round its answer is its own, however many calls share
\* the socket, retry, time out or are dropped.
Ended == [q \in Query |-> IF pc[q] \in Final THEN pc[q] ELSE "asking"]
Got == [q \in Query |-> IF pc[q] = "ok" THEN reply[q] ELSE NoQuery]
Worn == \E s \in Sock : issued[s] > NumIds
Promise == INSTANCE Exchange WITH fate <- Ended, got <- Got, worn <- Worn
ImplementsExchange == Promise!Spec
=============================================================================
