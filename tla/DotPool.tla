------------------------------ MODULE DotPool ------------------------------
(***************************************************************************)
(* The DNS-over-TLS upstream of src/src/dns/upstream/dot.rs: a semaphore   *)
(* bounds the calls at work, a mutex guards the idle connections, and a    *)
(* connection serves one call at a time.  Answers are not matched to       *)
(* questions: a connection yields the next frame it has.                   *)
(*                                                                         *)
(* The mutex and the semaphore are queues, as tokio serves them: the head  *)
(* of `lock' has the mutex, the first Capacity entries of `permits' have a *)
(* permit.  The guard of                                                   *)
(*     if let Some(mut conn) = pool.idle.lock().await.pop_front() { .. }   *)
(* is a temporary of the condition and lives to the end of the body: a     *)
(* call that took an idle connection keeps the mutex while it uses it, and *)
(* queues behind itself when it puts the connection back.                  *)
(***************************************************************************)
EXTENDS Naturals, FiniteSets, Sequences, SequencesExt

CONSTANTS
    Query,     \* calls of query
    NoQuery,   \* no answer
    Capacity,  \* POOL_CAPACITY: idle connections kept, and calls at work
    MaxConn    \* bound: how many connections are ever made

ASSUME QueryAssumption == NoQuery \notin Query
ASSUME CapacityAssumption == Capacity \in Nat \ {0}
ASSUME MaxConnAssumption == MaxConn \in Nat

VARIABLES
    idle,     \* the idle connections, in the order they were put back
    lock,     \* holder of the mutex and those that wait for it
    permits,  \* holders of a permit and those that wait for one
    made,     \* connections made so far; connection c is the c-th one
    frames,   \* frames[c]: calls whose request is on c and its answer not read
    pc,       \* where each call is
    conn,     \* the connection it uses, 0 for none
    tries,    \* how many connections it has failed to make
    answer    \* the call whose request the answer it read was for

vars == <<idle, lock, permits, made, frames, pc, conn, tries, answer>>

Conn == 1..MaxConn
AtWork == {"pop", "reuse", "connect", "back"}
Final == {"ok", "failed", "cancelled"}
PC == AtWork \cup Final \cup {"start", "permit"}

TypeOK ==
    /\ idle \in Seq(Conn) /\ Len(idle) <= Capacity
    /\ lock \in Seq(Query)
    /\ permits \in Seq(Query)
    /\ made \in 0..MaxConn
    /\ frames \in [Conn -> Seq(Query)]
    /\ pc \in [Query -> PC]
    /\ conn \in [Query -> 0..MaxConn]
    /\ tries \in [Query -> 0..1]
    /\ answer \in [Query -> Query \cup {NoQuery}]

Init ==
    /\ idle = <<>> /\ lock = <<>> /\ permits = <<>>
    /\ made = 0
    /\ frames = [c \in Conn |-> <<>>]
    /\ pc = [q \in Query |-> "start"]
    /\ conn = [q \in Query |-> 0]
    /\ tries = [q \in Query |-> 0]
    /\ answer = [q \in Query |-> NoQuery]

Without(queue, q) == SelectSeq(queue, LAMBDA p : p # q)
HasLock(q) == lock # <<>> /\ Head(lock) = q

HasPermit(q) == \E i \in 1..Len(permits) : i <= Capacity /\ permits[i] = q

\* A permit that is dropped goes to the first call that waits for one.
Freed(queue, q) ==
    IF \E i \in DOMAIN queue : queue[i] = q
    THEN RemoveAt(queue, CHOOSE i \in DOMAIN queue : queue[i] = q) ELSE queue

\* The call is over: its guards, its permit and its connection are dropped.
Return(q, result) ==
    /\ pc' = [pc EXCEPT ![q] = result]
    /\ conn' = [conn EXCEPT ![q] = 0]
    /\ lock' = Without(lock, q)
    /\ permits' = Freed(permits, q)

---------------------------------------------------------------------------
(* query *)

AskPermit(q) ==
    /\ pc[q] = "start"
    /\ permits' = Append(permits, q)
    /\ pc' = [pc EXCEPT ![q] = "permit"]
    /\ UNCHANGED <<idle, lock, made, frames, conn, tries, answer>>

AskIdle(q) ==
    /\ pc[q] = "permit"
    /\ HasPermit(q)
    /\ lock' = Append(lock, q)
    /\ pc' = [pc EXCEPT ![q] = "pop"]
    /\ UNCHANGED <<idle, permits, made, frames, conn, tries, answer>>

\* Mutant of Pop: the connection is looked at and stays in the pool.
PopStays(q) ==
    /\ pc[q] = "pop"
    /\ HasLock(q)
    /\ \/ /\ idle # <<>>
          /\ conn' = [conn EXCEPT ![q] = Head(idle)]
          /\ frames' = [frames EXCEPT ![Head(idle)] = Append(@, q)]
          /\ pc' = [pc EXCEPT ![q] = "reuse"]
          /\ UNCHANGED lock
       \/ /\ idle = <<>>
          /\ lock' = Tail(lock)
          /\ pc' = [pc EXCEPT ![q] = "connect"]
          /\ UNCHANGED <<frames, conn>>
    /\ UNCHANGED <<idle, permits, made, tries, answer>>

\* Take the connection put back first and send the request on it, with the
\* guard still alive; without one, the guard goes and a connection is made.
Pop(q) ==
    /\ pc[q] = "pop"
    /\ HasLock(q)
    /\ \/ /\ idle # <<>>
          /\ conn' = [conn EXCEPT ![q] = Head(idle)]
          /\ idle' = Tail(idle)
          /\ frames' = [frames EXCEPT ![Head(idle)] = Append(@, q)]
          /\ pc' = [pc EXCEPT ![q] = "reuse"]
          /\ UNCHANGED lock
       \/ /\ idle = <<>>
          /\ lock' = Tail(lock)
          /\ pc' = [pc EXCEPT ![q] = "connect"]
          /\ UNCHANGED <<idle, frames, conn>>
    /\ UNCHANGED <<permits, made, tries, answer>>

\* A frame arrives on a reused connection within DOT_REUSE_TIMEOUT; put_back
\* asks for the mutex.
Reused(q) ==
    /\ pc[q] = "reuse"
    /\ answer' = [answer EXCEPT ![q] = Head(frames[conn[q]])]
    /\ frames' = [frames EXCEPT ![conn[q]] = Tail(@)]
    /\ lock' = Append(lock, q)
    /\ pc' = [pc EXCEPT ![q] = "back"]
    /\ UNCHANGED <<idle, permits, made, conn, tries>>

\* Mutant of ReuseFails: the connection is kept for the next call.
ReuseFailsKeeps(q) ==
    /\ pc[q] = "reuse"
    /\ idle' = Append(idle, conn[q])
    /\ conn' = [conn EXCEPT ![q] = 0]
    /\ lock' = Without(lock, q)
    /\ pc' = [pc EXCEPT ![q] = "connect"]
    /\ UNCHANGED <<permits, made, frames, tries, answer>>

\* An error or DOT_REUSE_TIMEOUT: the connection is dropped, and the guard
\* with the end of the body.
ReuseFails(q) ==
    /\ pc[q] = "reuse"
    /\ conn' = [conn EXCEPT ![q] = 0]
    /\ lock' = Without(lock, q)
    /\ pc' = [pc EXCEPT ![q] = "connect"]
    /\ UNCHANGED <<idle, permits, made, frames, tries, answer>>

\* connect_and_exchange on a connection of its own: its answer is the first
\* frame.
Connect(q) ==
    /\ pc[q] = "connect"
    /\ made < MaxConn
    /\ made' = made + 1
    /\ conn' = [conn EXCEPT ![q] = made + 1]
    /\ answer' = [answer EXCEPT ![q] = q]
    /\ lock' = Append(lock, q)
    /\ pc' = [pc EXCEPT ![q] = "back"]
    /\ UNCHANGED <<idle, permits, frames, tries>>

\* Mutant of ConnectFails: the last error is swallowed.
ConnectFailsQuietly(q) ==
    /\ pc[q] = "connect"
    /\ IF tries[q] = 0
       THEN /\ tries' = [tries EXCEPT ![q] = 1]
            /\ UNCHANGED <<lock, permits, pc, conn>>
       ELSE Return(q, "ok") /\ UNCHANGED tries
    /\ UNCHANGED <<idle, made, frames, answer>>

\* connect_and_exchange failed: once more, or the call has failed.
ConnectFails(q) ==
    /\ pc[q] = "connect"
    /\ IF tries[q] = 0
       THEN /\ tries' = [tries EXCEPT ![q] = 1]
            /\ UNCHANGED <<lock, permits, pc, conn>>
       ELSE Return(q, "failed") /\ UNCHANGED tries
    /\ UNCHANGED <<idle, made, frames, answer>>

\* The mutex comes to the request that put_back made, which is the call's
\* only one unless it still has the guard of the condition.  Then the answer
\* is parsed.
PutBack(q) ==
    /\ pc[q] = "back"
    /\ HasLock(q)
    /\ Len(SelectSeq(lock, LAMBDA p : p = q)) = 1
    /\ idle' = IF Len(idle) < Capacity THEN Append(idle, conn[q]) ELSE idle
    /\ \E result \in {"ok", "failed"} : Return(q, result)
    /\ UNCHANGED <<made, frames, tries, answer>>

\* The caller drops the future: UPSTREAM_TIMEOUT, or another server won.
Cancel(q) ==
    /\ pc[q] \notin Final
    /\ Return(q, "cancelled")
    /\ UNCHANGED <<idle, made, frames, tries, answer>>

---------------------------------------------------------------------------
Step(q) ==
    \/ AskPermit(q) \/ AskIdle(q) \/ Pop(q) \/ Reused(q) \/ ReuseFails(q)
    \/ Connect(q) \/ ConnectFails(q) \/ PutBack(q)

Next == \E q \in Query : Step(q) \/ Cancel(q)

Spec == Init /\ [][Next]_vars

\* Woken calls are polled, and exchanges and connects end by their timeouts.
\* Nobody is made to give up.
FairSpec == Spec /\ \A q \in Query : WF_vars(Step(q))

---------------------------------------------------------------------------
(* Properties *)

\* dot.rs:17: no call is given the answer to another call's question: a
\* connection on which an answer may still arrive is never used again, though
\* calls time out and are dropped in the middle of an exchange.
OwnAnswer == \A q \in Query : answer[q] \in {q, NoQuery}

\* dot.rs:15-19: a connection serves one call at a time and is not idle then;
\* at most Capacity connections are idle, and no more calls than that use one or
\* make one, though calls fail and are dropped at any await point.
PoolInOrder ==
    /\ IsInjective(idle)
    /\ \A p, q \in Query : conn[p] # 0 =>
          /\ conn[p] \notin ToSet(idle)
          /\ conn[p] = conn[q] => p = q
    /\ Len(idle) <= Capacity
    /\ Cardinality({q \in Query : pc[q] \in AtWork}) <= Capacity

\* dot.rs:161: a call that has its answer puts its connection back and
\* returns, or its caller gives up: nothing in the pool keeps it waiting.
AnsweredReturns == \A q \in Query : pc[q] = "back" ~> pc[q] \in Final

\* What the pool promises (dot.rs:73-124): a call ends once, and its answer is
\* its own, though connections pass from call to call and answers carry no name.
Ended == [q \in Query |-> IF pc[q] \in Final THEN pc[q] ELSE "asking"]
Got == [q \in Query |-> IF pc[q] = "ok" THEN answer[q] ELSE NoQuery]
Promise == INSTANCE Exchange WITH fate <- Ended, got <- Got, worn <- FALSE
ImplementsExchange == Promise!Spec
=============================================================================
