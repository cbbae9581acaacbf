--------------------------- MODULE DotPoolProofs ---------------------------
(***************************************************************************)
(* Proofs about DotPool, for any set of calls, any capacity and any number *)
(* of connections.                                                         *)
(*                                                                         *)
(* A connection carries no names: that the frame a call reads is the       *)
(* answer to its own request rests on idle connections having no frame to  *)
(* come (IdleClean) and on a call's connection being nobody else's         *)
(* (IdleApart, ConnApart).  Neither depends on who holds the mutex or a    *)
(* permit.  That calls at work stay within the capacity rests on the queue *)
(* of the permits alone (Permitted): a call moves only forward in it.      *)
(***************************************************************************)
EXTENDS DotPool, FiniteSetTheorems, SequenceTheorems, TLAPS

\* The types of what the proofs speak of.
Types ==
    /\ idle \in Seq(Conn)
    /\ made \in 0..MaxConn
    /\ frames \in [Conn -> Seq(Query)]
    /\ pc \in [Query -> PC]
    /\ conn \in [Query -> 0..MaxConn]
    /\ answer \in [Query -> Query \cup {NoQuery}]

\* An idle connection is idle once and in nobody's use.
IdleApart ==
    /\ \A i, j \in 1..Len(idle) : idle[i] = idle[j] => i = j
    /\ \A i \in 1..Len(idle), q \in Query : conn[q] # idle[i]

\* No two calls use one connection.
ConnApart == \A p, q \in Query : conn[p] # 0 /\ conn[p] = conn[q] => p = q

\* Connections are numbered as they are made.
MadeOnes ==
    /\ \A i \in 1..Len(idle) : idle[i] <= made
    /\ \A q \in Query : conn[q] <= made

\* Nothing is to come on a connection that is idle or not yet made.
IdleClean ==
    /\ \A i \in 1..Len(idle) : frames[idle[i]] = <<>>
    /\ \A c \in Conn : c > made => frames[c] = <<>>

\* What is to come on a connection in use, and what its call has read.
InUse ==
    \A q \in Query :
        /\ pc[q] = "reuse" => conn[q] # 0 /\ frames[conn[q]] = <<q>>
        /\ pc[q] = "back" => conn[q] # 0 /\ frames[conn[q]] = <<>> /\ answer[q] = q
        /\ pc[q] \notin {"reuse", "back"} => conn[q] = 0

Inv ==
    /\ Types
    /\ IdleApart /\ ConnApart /\ MadeOnes /\ IdleClean /\ InUse
    /\ OwnAnswer

---------------------------------------------------------------------------
\* The entries of the idle queue are connections, 0 is none.
LEMMA Elements ==
    ASSUME Types
    PROVE  /\ Len(idle) \in Nat /\ \A i \in 1..Len(idle) : idle[i] \in Conn
           /\ \A c \in Conn : c \in Nat /\ c # 0
           /\ \A q \in Query : conn[q] \in Nat /\ (conn[q] # 0 => conn[q] \in Conn)
           /\ made \in Nat
BY MaxConnAssumption DEF Types, Conn

\* DotPool starts with nothing idle and nothing in use.
LEMMA InvInit == Init => Inv
BY QueryAssumption, MaxConnAssumption
   DEF Init, Inv, Types, IdleApart, ConnApart, MadeOnes, IdleClean, InUse,
       OwnAnswer, Conn, PC, AtWork, Final

\* A step that leaves connections, frames and answers alone keeps the invariant,
\* whatever it does to the queues of the mutex and the semaphore.
LEMMA ElsewhereStep ==
    ASSUME Inv, UNCHANGED <<idle, made, frames, conn, answer>>, pc' \in [Query -> PC],
           \A q \in Query : \/ pc'[q] = pc[q]
                            \/ pc[q] \notin {"reuse", "back"} /\ pc'[q] \notin {"reuse", "back"}
    PROVE  Inv'
<1>1. InUse'
  BY DEF Inv, InUse
<1>2. QED
  BY <1>1 DEF Inv, Types, IdleApart, ConnApart, MadeOnes, IdleClean, OwnAnswer

\* A call that lets its connection go, and does not put it back, keeps it.
LEMMA DropStep ==
    ASSUME Inv, UNCHANGED <<idle, made, frames, answer>>, NEW q \in Query,
           NEW at \in PC \ {"reuse", "back"},
           pc' = [pc EXCEPT ![q] = at], conn' = [conn EXCEPT ![q] = 0]
    PROVE  Inv'
<1>1. Types'
  BY MaxConnAssumption DEF Inv, Types
<1>2. IdleApart' /\ ConnApart'
  BY Elements DEF Inv, Types, IdleApart, ConnApart
<1>3. MadeOnes' /\ IdleClean' /\ OwnAnswer'
  BY Elements DEF Inv, Types, MadeOnes, IdleClean, OwnAnswer
<1>4. InUse'
  BY DEF Inv, Types, InUse
<1>5. QED
  BY <1>1, <1>2, <1>3, <1>4 DEF Inv

\* Taking the first idle connection: it is the call's own from now on.
LEMMA PopStep == ASSUME Inv, NEW q \in Query, Pop(q) PROVE Inv'
<1>1. CASE idle = <<>>
  <2>1. /\ UNCHANGED <<idle, made, frames, conn, answer>>
        /\ pc' = [pc EXCEPT ![q] = "connect"] /\ pc[q] = "pop"
    BY <1>1 DEF Pop
  <2>2. QED
    BY <2>1, ElsewhereStep DEF Inv, Types, PC, AtWork
<1>2. CASE idle # <<>>
  <2> DEFINE c == idle[1]
  <2>1. /\ Len(idle) \in Nat \ {0} /\ c \in Conn /\ c # 0 /\ c <= made
        /\ frames[c] = <<>>
        /\ \A p \in Query : conn[p] # c
    BY <1>2, MaxConnAssumption, SMTT(30) DEF Inv, Types, IdleApart, MadeOnes, IdleClean, Conn
  <2>2. /\ pc[q] = "pop"
        /\ conn' = [conn EXCEPT ![q] = c]
        /\ idle' = Tail(idle)
        /\ frames' = [frames EXCEPT ![c] = Append(@, q)]
        /\ pc' = [pc EXCEPT ![q] = "reuse"]
        /\ UNCHANGED <<made, answer>>
    BY <1>2 DEF Pop
  <2>3. /\ Len(idle') = Len(idle) - 1
        /\ \A i \in 1..Len(idle') : i + 1 \in 1..Len(idle) /\ idle'[i] = idle[i + 1]
    BY <1>2, <2>1, <2>2 DEF Inv, Types
  <2>4. \A i \in 1..Len(idle') : idle'[i] # c
    <3>1. 1 \in 1..Len(idle) /\ \A j \in 1..Len(idle) : idle[j] = c => j = 1
      BY <2>1 DEF Inv, IdleApart
    <3>2. \A i \in 1..Len(idle') : i + 1 # 1
      BY <2>1, <2>3
    <3>3. QED
      BY <2>3, <3>1, <3>2
  <2>5. /\ frames'[c] = <<q>>
        /\ \A d \in Conn : d # c => frames'[d] = frames[d]
    BY <2>1, <2>2 DEF Inv, Types
  <2>6. Types'
    <3>1. idle' \in Seq(Conn)
      BY <1>2, <2>2 DEF Inv, Types
    <3>2. frames' \in [Conn -> Seq(Query)]
      BY <2>1, <2>2 DEF Inv, Types
    <3>3. conn' \in [Query -> 0..MaxConn] /\ pc' \in [Query -> PC]
      BY <2>1, <2>2 DEF Inv, Types, PC, AtWork, Conn
    <3>4. QED
      BY <2>2, <3>1, <3>2, <3>3 DEF Inv, Types
  <2>7. IdleApart'
    BY <2>1, <2>2, <2>3, <2>4 DEF Inv, Types, IdleApart
  <2>8. ConnApart' /\ MadeOnes'
    BY <2>1, <2>2, <2>3 DEF Inv, Types, ConnApart, MadeOnes
  <2>9. IdleClean'
    <3>1. \A i \in 1..Len(idle') : idle'[i] \in Conn
      BY <2>6 DEF Types
    <3>2. QED
      BY <2>1, <2>2, <2>3, <2>4, <2>5, <3>1 DEF Inv, Types, IdleClean, Conn
  <2>10. InUse'
    <3>1. \A p \in Query : p # q /\ conn[p] # 0 => conn[p] \in Conn /\ conn[p] # c
      BY <2>1 DEF Inv, Types, Conn
    <3>2. QED
      BY <2>1, <2>2, <2>5, <3>1, SMTT(30) DEF Inv, Types, InUse
  <2>11. OwnAnswer'
    BY <2>2 DEF Inv, OwnAnswer
  <2>12. QED
    BY <2>6, <2>7, <2>8, <2>9, <2>10, <2>11 DEF Inv
<1>3. QED
  BY <1>1, <1>2

\* The frame that a reused connection yields is the answer to the call's request.
LEMMA ReusedStep == ASSUME Inv, NEW q \in Query, Reused(q) PROVE Inv'
<1> DEFINE c == conn[q]
<1>1. c \in Conn /\ frames[c] = <<q>>
  BY DEF Reused, Inv, InUse, Types, Conn
<1>2. /\ answer' = [answer EXCEPT ![q] = q]
      /\ frames' = [frames EXCEPT ![c] = <<>>]
      /\ pc' = [pc EXCEPT ![q] = "back"]
      /\ UNCHANGED <<idle, made, conn>>
  BY <1>1 DEF Reused, Inv, Types
<1>3. Types'
  <2>1. frames' \in [Conn -> Seq(Query)]
    BY <1>1, <1>2 DEF Inv, Types
  <2>2. QED
    BY <1>2, <2>1 DEF Inv, Types, PC, AtWork
<1>4. IdleApart' /\ ConnApart' /\ MadeOnes' /\ OwnAnswer'
  BY <1>2 DEF Inv, Types, IdleApart, ConnApart, MadeOnes, OwnAnswer
<1>5. IdleClean'
  BY <1>1, <1>2 DEF Inv, Types, IdleClean
<1>6. InUse'
  <2>1. \A p \in Query : p # q /\ conn[p] # 0 => conn[p] \in Conn /\ conn[p] # c
    BY <1>1 DEF Inv, Types, ConnApart, Conn
  <2>2. QED
    BY <1>1, <1>2, <2>1 DEF Inv, Types, InUse, Conn
<1>7. QED
  BY <1>3, <1>4, <1>5, <1>6 DEF Inv

\* A new connection has nothing on it but what its call reads.
LEMMA ConnectStep == ASSUME Inv, NEW q \in Query, Connect(q) PROVE Inv'
<1>1. /\ made + 1 \in Conn /\ made \in Nat
      /\ made' = made + 1
      /\ conn' = [conn EXCEPT ![q] = made + 1]
      /\ answer' = [answer EXCEPT ![q] = q]
      /\ pc' = [pc EXCEPT ![q] = "back"]
      /\ UNCHANGED <<idle, frames>>
  BY MaxConnAssumption DEF Connect, Inv, Types, Conn
<1>2. /\ \A i \in 1..Len(idle) : idle[i] \in Conn /\ idle[i] # made + 1
      /\ \A p \in Query : conn[p] \in 0..MaxConn /\ conn[p] # made + 1
  <2>1. \A i \in 1..Len(idle) : idle[i] \in Conn /\ idle[i] # made + 1
    BY <1>1, Elements DEF Inv, MadeOnes
  <2>2. \A p \in Query : conn[p] \in 0..MaxConn /\ conn[p] # made + 1
    BY <1>1, Elements DEF Inv, Types, MadeOnes
  <2>3. QED
    BY <2>1, <2>2
<1>3. Types'
  BY <1>1 DEF Inv, Types, PC, AtWork, Conn
<1>4. IdleApart' /\ ConnApart' /\ OwnAnswer'
  BY <1>1, <1>2 DEF Inv, Types, IdleApart, ConnApart, OwnAnswer
<1>5. MadeOnes' /\ IdleClean'
  <2>1. \A i \in 1..Len(idle) : idle[i] <= made + 1
    BY <1>1, Elements DEF Inv, MadeOnes
  <2>2. \A p \in Query : conn'[p] <= made + 1
    BY <1>1, Elements DEF Inv, Types, MadeOnes
  <2>3. \A d \in Conn : d > made + 1 => d > made
    BY <1>1, Elements DEF Inv
  <2>4. QED
    BY <1>1, <2>1, <2>2, <2>3 DEF Inv, MadeOnes, IdleClean
<1>6. InUse'
  BY <1>1 DEF Inv, Types, InUse, IdleClean, Conn
<1>7. QED
  BY <1>3, <1>4, <1>5, <1>6 DEF Inv

\* put_back returns a connection on which nothing is to come.
LEMMA PutBackStep == ASSUME Inv, NEW q \in Query, PutBack(q) PROVE Inv'
<1> DEFINE c == conn[q]
<1>1. PICK r \in {"ok", "failed"} : Return(q, r)
  BY DEF PutBack
<1>2. /\ pc[q] = "back" /\ c \in Conn /\ c # 0 /\ frames[c] = <<>> /\ c <= made
      /\ pc' = [pc EXCEPT ![q] = r]
      /\ conn' = [conn EXCEPT ![q] = 0]
      /\ UNCHANGED <<made, frames, answer>>
  BY <1>1 DEF PutBack, Return, Inv, Types, InUse, MadeOnes, Conn
<1>3. CASE idle' = idle
  BY <1>2, <1>3, DropStep DEF PC, Final
<1>4. CASE idle' = Append(idle, c)
  <2>1. /\ Len(idle') = Len(idle) + 1 /\ Len(idle) \in Nat
        /\ \A i \in 1..Len(idle) : idle'[i] = idle[i] /\ idle[i] # c
        /\ idle'[Len(idle) + 1] = c
    BY <1>2, <1>4 DEF Inv, Types, IdleApart
  <2>2. \A i \in 1..Len(idle') : \/ i \in 1..Len(idle) /\ idle'[i] = idle[i] /\ idle[i] # c
                                 \/ i = Len(idle) + 1 /\ idle'[i] = c
    BY <2>1
  <2>3. Types'
    <3>1. idle' \in Seq(Conn)
      BY <1>2, <1>4 DEF Inv, Types
    <3>2. conn' \in [Query -> 0..MaxConn] /\ pc' \in [Query -> PC]
      BY <1>2, MaxConnAssumption DEF Inv, Types, PC, Final
    <3>3. QED
      BY <1>2, <3>1, <3>2 DEF Inv, Types
  <2>4. IdleApart'
    <3>1. \A p \in Query : conn'[p] # c
      BY <1>2 DEF Inv, Types, ConnApart
    <3>2. \A i \in 1..Len(idle), p \in Query : conn'[p] # idle[i]
      BY <1>2, Elements DEF Inv, Types, IdleApart
    <3>3. QED
      BY <2>1, <2>2, <3>1, <3>2 DEF Inv, IdleApart
  <2>5. ConnApart' /\ MadeOnes' /\ OwnAnswer'
    <3>1. ConnApart' /\ OwnAnswer'
      BY <1>2 DEF Inv, Types, ConnApart, OwnAnswer
    <3>2. \A i \in 1..Len(idle') : idle'[i] <= made
      BY <1>2, <2>2 DEF Inv, MadeOnes
    <3>3. \A p \in Query : conn'[p] <= made
      BY <1>2 DEF Inv, Types, MadeOnes
    <3>4. QED
      BY <1>2, <3>1, <3>2, <3>3 DEF MadeOnes
  <2>6. IdleClean'
    BY <1>2, <2>2 DEF Inv, IdleClean
  <2>7. InUse'
    BY <1>2 DEF Inv, Types, InUse
  <2>8. QED
    BY <2>3, <2>4, <2>5, <2>6, <2>7 DEF Inv
<1>5. QED
  BY <1>3, <1>4 DEF PutBack

\* Every step of query() and of its callers keeps the invariant.
LEMMA InvStep == Inv /\ [Next]_vars => Inv'
<1> SUFFICES ASSUME Inv, [Next]_vars PROVE Inv'
  OBVIOUS
<1> USE DEF PC, AtWork, Final
<1>1. ASSUME NEW q \in Query, AskPermit(q) \/ AskIdle(q) PROVE Inv'
  <2>1. /\ UNCHANGED <<idle, made, frames, conn, answer>>
        /\ pc' \in [Query -> PC]
        /\ \A p \in Query : \/ pc'[p] = pc[p]
                            \/ pc[p] \notin {"reuse", "back"} /\ pc'[p] \notin {"reuse", "back"}
    BY <1>1 DEF AskPermit, AskIdle, Inv, Types
  <2>2. QED
    BY <2>1, ElsewhereStep
<1>2. ASSUME NEW q \in Query, ConnectFails(q) PROVE Inv'
  <2>1. CASE tries[q] = 0
    BY <1>2, <2>1, ElsewhereStep DEF ConnectFails, Inv, Types
  <2>2. CASE tries[q] # 0
    BY <1>2, <2>2, DropStep DEF ConnectFails, Return
  <2>3. QED
    BY <2>1, <2>2
<1>3. ASSUME NEW q \in Query, ReuseFails(q) PROVE Inv'
  BY <1>3, DropStep DEF ReuseFails
<1>4. ASSUME NEW q \in Query, Cancel(q) PROVE Inv'
  BY <1>4, DropStep DEF Cancel, Return
<1>5. CASE UNCHANGED vars
  BY <1>5, ElsewhereStep DEF vars, Inv, Types
<1>6. QED
  BY <1>1, <1>2, <1>3, <1>4, <1>5, PopStep, ReusedStep, ConnectStep, PutBackStep
     DEF Next, Step

\* Inv holds in every state of the pool, whatever times out or is dropped.
THEOREM Invariance == Spec => []Inv
BY InvInit, InvStep, PTL DEF Spec

\* No call of query() is given the answer to another call's question, for any
\* number of calls and connections (dot.rs:102: a timeout drops the connection).
THEOREM AnswersAreOwn == Spec => []OwnAnswer
<1>1. Inv => OwnAnswer
  BY DEF Inv
<1>2. QED
  BY <1>1, Invariance, PTL

---------------------------------------------------------------------------
(* Bounds *)

\* A call at work has one of the permits, and the idle queue does not overflow.
Permitted ==
    /\ pc \in [Query -> PC] /\ permits \in Seq(Query) /\ idle \in Seq(Conn)
    /\ Len(idle) <= Capacity
    /\ \A q \in Query : pc[q] \in AtWork => HasPermit(q)

\* A permit that is freed moves the other calls forward, if at all.
LEMMA FreedParts ==
    ASSUME NEW s \in Seq(Query), NEW q \in Query
    PROVE  /\ Freed(s, q) \in Seq(Query)
           /\ \A i \in 1..Len(s) : s[i] # q =>
                 \E j \in 1..Len(Freed(s, q)) : j <= i /\ Freed(s, q)[j] = s[i]
<1>1. CASE \E i \in DOMAIN s : s[i] = q
  <2>1. PICK k \in 1..Len(s) : s[k] = q /\ Freed(s, q) = RemoveAt(s, k)
    <3>1. PICK k : k = CHOOSE i \in DOMAIN s : s[i] = q
      OBVIOUS
    <3>2. k \in DOMAIN s /\ s[k] = q
      BY <1>1, <3>1, Zenon
    <3>3. Freed(s, q) = RemoveAt(s, k)
      BY <1>1, <3>1, Zenon DEF Freed
    <3>4. DOMAIN s = 1..Len(s)
      OBVIOUS
    <3>5. QED
      BY <3>2, <3>3, <3>4
  <2>2. PICK head, tail : head = SubSeq(s, 1, k - 1) /\ tail = SubSeq(s, k + 1, Len(s))
    OBVIOUS
  <2>3. Len(s) \in Nat /\ k \in Nat
    OBVIOUS
  <2>4. /\ head \in Seq(Query) /\ Len(head) = k - 1
        /\ \A i \in 1..(k - 1) : head[i] = s[i]
    BY <2>2, <2>3
  <2>5. /\ tail \in Seq(Query) /\ Len(tail) = Len(s) - k
        /\ \A i \in 1..(Len(s) - k) : tail[i] = s[k + i]
    BY <2>2, <2>3
  <2>6. PICK rest : rest = head \o tail
    OBVIOUS
  <2>7. /\ rest \in Seq(Query) /\ Len(rest) = Len(s) - 1
        /\ \A i \in 1..(k - 1) : rest[i] = s[i]
        /\ \A i \in k..(Len(s) - 1) : rest[i] = s[i + 1]
    <3>1. rest \in Seq(Query) /\ Len(rest) = Len(s) - 1
      <4>1. head \in Seq(Query) /\ tail \in Seq(Query)
        BY <2>4, <2>5
      <4>2. rest \in Seq(Query) /\ Len(rest) = Len(head) + Len(tail)
        BY ONLY <2>6, <4>1, ConcatProperties, Zenon
      <4>3. QED
        BY <2>3, <2>4, <2>5, <4>2
    <3>2. ASSUME NEW i \in 1..(k - 1) PROVE rest[i] = s[i]
      BY <2>3, <2>4, <2>5, <2>6
    <3>3. ASSUME NEW i \in k..(Len(s) - 1) PROVE rest[i] = s[i + 1]
      <4>1. i - (k - 1) \in 1..(Len(s) - k) /\ k + (i - (k - 1)) = i + 1
        BY <2>3
      <4>2. rest[i] = tail[i - (k - 1)]
        BY <2>3, <2>4, <2>5, <2>6
      <4>3. QED
        BY <2>5, <4>1, <4>2
    <3>4. QED
      BY <3>1, <3>2, <3>3
  <2>8. Freed(s, q) = rest
    BY <2>1, <2>2, <2>6 DEF RemoveAt
  <2>9. ASSUME NEW i \in 1..Len(s), s[i] # q
        PROVE  \E j \in 1..Len(rest) : j <= i /\ rest[j] = s[i]
    <3>1. CASE i < k
      BY <2>3, <2>7, <3>1
    <3>2. CASE i > k
      <4>1. i - 1 \in k..(Len(s) - 1) /\ i - 1 \in 1..Len(rest) /\ i - 1 <= i
        BY <2>3, <2>7, <3>2
      <4>2. rest[i - 1] = s[i]
        BY <2>3, <2>7, <4>1
      <4>3. QED
        BY <4>1, <4>2
    <3>3. QED
      BY <2>1, <2>3, <2>9, <3>1, <3>2
  <2>10. QED
    BY <2>7, <2>8, <2>9
<1>2. CASE ~\E i \in DOMAIN s : s[i] = q
  BY <1>2 DEF Freed
<1>3. QED
  BY <1>1, <1>2

\* The pool starts with no call at work.
LEMMA PermittedInit == Init => Permitted
BY CapacityAssumption DEF Init, Permitted, PC, AtWork, Final

\* Calls keep their permits until they end.
LEMMA PermittedStep == Inv /\ Permitted /\ [Next]_vars => Permitted'
<1> SUFFICES ASSUME Inv, Permitted, [Next]_vars PROVE Permitted'
  OBVIOUS
<1>1. ASSUME NEW q \in Query, NEW result \in Final, Return(q, result),
             idle' \in Seq(Conn), Len(idle') <= Capacity
      PROVE  Permitted'
  <2>1. permits \in Seq(Query) /\ permits' = Freed(permits, q)
    BY <1>1 DEF Permitted, Return
  <2>2. /\ permits' \in Seq(Query)
        /\ \A i \in 1..Len(permits) : permits[i] # q =>
              \E j \in 1..Len(permits') : j <= i /\ permits'[j] = permits[i]
    BY <2>1, FreedParts
  <2>3. pc' = [pc EXCEPT ![q] = result] /\ pc' \in [Query -> PC]
    BY <1>1 DEF Permitted, Return, PC
  <2>4. ASSUME NEW p \in Query, pc'[p] \in AtWork PROVE HasPermit(p)'
    <3>1. p # q /\ pc[p] \in AtWork
      BY <2>3, <2>4 DEF Permitted, AtWork, Final
    <3>2. PICK i \in 1..Len(permits) : i <= Capacity /\ permits[i] = p
      BY <3>1 DEF Permitted, HasPermit
    <3>3. PICK j \in 1..Len(permits') : j <= i /\ permits'[j] = p
      BY <2>2, <3>1, <3>2
    <3>4. Len(permits') \in Nat /\ Len(permits) \in Nat
      BY <2>1, <2>2
    <3>5. j <= Capacity
      BY <3>2, <3>3, <3>4, CapacityAssumption
    <3>6. QED
      BY <3>3, <3>5 DEF HasPermit
  <2>5. QED
    BY <1>1, <2>2, <2>3, <2>4 DEF Permitted
<1>2. ASSUME NEW q \in Query, AskPermit(q) PROVE Permitted'
  <2>1. /\ permits \in Seq(Query) /\ permits' = Append(permits, q) /\ idle' = idle
        /\ pc' = [pc EXCEPT ![q] = "permit"]
    BY <1>2 DEF AskPermit, Permitted
  <2>2. /\ permits' \in Seq(Query) /\ Len(permits) \in Nat /\ Len(permits') = Len(permits) + 1
        /\ \A i \in 1..Len(permits) : i \in 1..Len(permits') /\ permits'[i] = permits[i]
    BY <2>1
  <2>3. \A p \in Query : pc'[p] \in AtWork => pc[p] \in AtWork
    BY <2>1 DEF Permitted, AtWork
  <2>4. \A p \in Query : HasPermit(p) => HasPermit(p)'
    BY <2>2 DEF HasPermit
  <2>5. QED
    BY <2>1, <2>2, <2>3, <2>4 DEF Permitted, PC
<1>3. ASSUME permits' = permits, idle' \in Seq(Conn), Len(idle') <= Capacity,
             pc' \in [Query -> PC],
             \A p \in Query : pc'[p] \in AtWork => pc[p] \in AtWork \/ HasPermit(p)
      PROVE  Permitted'
  BY <1>3 DEF Permitted, HasPermit
<1>4. ASSUME NEW q \in Query, AskIdle(q) PROVE Permitted'
  BY <1>3, <1>4 DEF AskIdle, Permitted, PC, AtWork
<1>5. ASSUME NEW q \in Query, Pop(q) PROVE Permitted'
  <2>1. idle' \in Seq(Conn) /\ Len(idle') <= Capacity
    <3>1. CASE idle # <<>>
      <4>1. idle \in Seq(Conn) /\ idle' = Tail(idle)
        BY <1>5, <3>1 DEF Pop, Permitted
      <4>2. idle' \in Seq(Conn) /\ Len(idle') = Len(idle) - 1 /\ Len(idle) \in Nat
        BY <3>1, <4>1
      <4>3. QED
        BY <4>2, CapacityAssumption DEF Permitted
    <3>2. CASE idle = <<>>
      BY <1>5, <3>2 DEF Pop, Permitted
    <3>3. QED
      BY <3>1, <3>2
  <2>2. /\ permits' = permits /\ pc[q] = "pop"
        /\ \E at \in {"reuse", "connect"} : pc' = [pc EXCEPT ![q] = at]
    BY <1>5 DEF Pop
  <2>3. QED
    BY <1>3, <2>1, <2>2 DEF Permitted, PC, AtWork
<1>6. ASSUME NEW q \in Query, Reused(q) \/ ReuseFails(q) \/ Connect(q) PROVE Permitted'
  <2>1. /\ permits' = permits /\ idle' = idle /\ pc[q] \in AtWork
        /\ \E at \in {"back", "connect"} : pc' = [pc EXCEPT ![q] = at]
    BY <1>6 DEF Reused, ReuseFails, Connect, AtWork
  <2>2. QED
    BY <1>3, <2>1 DEF Permitted, PC, AtWork
<1>7. ASSUME NEW q \in Query, ConnectFails(q) PROVE Permitted'
  <2>1. idle' = idle
    BY <1>7 DEF ConnectFails
  <2>2. CASE tries[q] = 0
    BY <1>3, <1>7, <2>1, <2>2 DEF ConnectFails, Permitted
  <2>3. CASE tries[q] # 0
    BY <1>1, <1>7, <2>1, <2>3 DEF ConnectFails, Permitted, Final
  <2>4. QED
    BY <2>2, <2>3
<1>8. ASSUME NEW q \in Query, PutBack(q) PROVE Permitted'
  <2>0. conn[q] \in Conn
    BY <1>8, Elements DEF PutBack, Inv, InUse
  <2>1. idle' \in Seq(Conn) /\ Len(idle') <= Capacity
    <3>1. idle \in Seq(Conn) /\ Len(idle) \in Nat /\ Capacity \in Nat
      BY CapacityAssumption DEF Permitted
    <3>2. CASE Len(idle) < Capacity
      <4>1. idle' = Append(idle, conn[q])
        BY <1>8, <3>2 DEF PutBack
      <4>2. QED
        BY <2>0, <3>1, <3>2, <4>1
    <3>3. CASE ~(Len(idle) < Capacity)
      BY <1>8, <3>3 DEF PutBack, Permitted
    <3>4. QED
      BY <3>2, <3>3
  <2>2. QED
    BY <1>1, <1>8, <2>1 DEF PutBack, Final
<1>9. ASSUME NEW q \in Query, Cancel(q) PROVE Permitted'
  BY <1>1, <1>9 DEF Cancel, Permitted, Final
<1>10. CASE UNCHANGED vars
  BY <1>3, <1>10 DEF vars, Permitted
<1>11. QED
  BY <1>2, <1>4, <1>5, <1>6, <1>7, <1>8, <1>9, <1>10 DEF Next, Step

\* No more calls are at work than there are permits.
LEMMA WorkBounded ==
    ASSUME Permitted
    PROVE  Cardinality({q \in Query : pc[q] \in AtWork}) <= Capacity
<1> DEFINE S == {q \in Query : pc[q] \in AtWork}
           f == [q \in S |-> CHOOSE i \in 1..Capacity : i <= Len(permits) /\ permits[i] = q]
<1>1. Capacity \in Nat /\ Len(permits) \in Nat
  BY CapacityAssumption DEF Permitted
<1>2. ASSUME NEW q \in S PROVE f[q] \in 1..Capacity /\ permits[f[q]] = q
  <2>1. PICK i \in 1..Len(permits) : i <= Capacity /\ permits[i] = q
    BY DEF Permitted, HasPermit
  <2>2. i \in 1..Capacity /\ i <= Len(permits) /\ permits[i] = q
    BY <1>1, <2>1
  <2>3. QED
    BY <2>2
<1>3. f \in Injection(S, 1..Capacity)
  <2>1. f \in [S -> 1..Capacity]
    BY <1>2
  <2>2. \A p, q \in S : f[p] = f[q] => p = q
    BY <1>2
  <2> HIDE DEF f
  <2>3. QED
    BY <2>1, <2>2 DEF Injection, IsInjective
<1> HIDE DEF f
<1>4. IsFiniteSet(1..Capacity) /\ Cardinality(1..Capacity) = Capacity
  BY <1>1, CapacityAssumption, FS_Interval
<1> HIDE DEF S
<1>5. IsFiniteSet(S) /\ Cardinality(S) <= Cardinality(1..Capacity)
  BY <1>3, <1>4, FS_Injection
<1>6. Cardinality(S) <= Capacity
  BY <1>4, <1>5
<1>7. QED
  BY <1>6 DEF S

\* A connection is in one call's use or idle once, never both; no more than
\* POOL_CAPACITY are idle, and no more calls than that are at work (dot.rs:88-93).
THEOREM PoolStaysInOrder == Spec => []PoolInOrder
<1>1. Inv /\ Permitted => PoolInOrder
  <2> SUFFICES ASSUME Inv, Permitted PROVE PoolInOrder
    OBVIOUS
  <2>0. DOMAIN idle = 1..Len(idle)
    BY DEF Inv, Types
  <2>1. IsInjective(idle)
    BY <2>0 DEF Inv, IdleApart, IsInjective
  <2>2. \A p, q \in Query : conn[p] # 0 =>
           conn[p] \notin ToSet(idle) /\ (conn[p] = conn[q] => p = q)
    BY <2>0 DEF Inv, IdleApart, ConnApart, ToSet
  <2>3. Len(idle) <= Capacity /\ Cardinality({q \in Query : pc[q] \in AtWork}) <= Capacity
    BY WorkBounded DEF Permitted
  <2>4. QED
    BY <2>1, <2>2, <2>3 DEF PoolInOrder
<1>2. Inv /\ Permitted /\ [Next]_vars => Permitted'
  BY PermittedStep
<1>3. Init => Permitted
  BY PermittedInit
<1>4. QED
  BY <1>1, <1>2, <1>3, Invariance, PTL DEF Spec

---------------------------------------------------------------------------
\* A step in which no call ends leaves everything Exchange speaks of alone.
LEMMA QuietStep ==
    ASSUME \A p \in Query : /\ pc[p] \in Final <=> pc'[p] \in Final
                            /\ pc[p] \in Final => pc'[p] = pc[p] /\ answer'[p] = answer[p]
    PROVE  [Promise!Next]_(Promise!vars)
<1>1. \A p \in Query :
          /\ IF pc'[p] \in Final THEN pc'[p] = pc[p] /\ pc[p] \in Final ELSE pc[p] \notin Final
          /\ (pc'[p] = "ok") = (pc[p] = "ok")
          /\ pc[p] = "ok" => answer'[p] = answer[p]
  BY DEF Final
<1>2. Ended' = Ended /\ Got' = Got
  BY <1>1 DEF Ended, Got
<1>3. QED
  BY <1>2 DEF Promise!vars

\* A step in which one call ends is that call's end in Exchange.
LEMMA EndStep ==
    ASSUME pc \in [Query -> PC], NEW q \in Query, pc[q] \notin Final,
           NEW r \in Final, pc' = [pc EXCEPT ![q] = r], answer' = answer,
           r = "ok" => answer[q] = q
    PROVE  Promise!Next
<1>1. Ended[q] = "asking" /\ Ended' = [Ended EXCEPT ![q] = r]
  BY DEF Ended, Final
<1>2. CASE r = "ok"
  <2>1. Got' = [Got EXCEPT ![q] = q]
    BY <1>2 DEF Got, Final
  <2>2. Promise!Return(q)
    BY <1>1, <1>2, <2>1 DEF Promise!Return
  <2>3. QED
    BY <2>2 DEF Promise!Next
<1>3. CASE r # "ok"
  <2>1. Got' = Got /\ r \in {"failed", "cancelled"}
    BY <1>3 DEF Got, Final
  <2>2. Promise!GiveUp(q)
    BY <1>1, <2>1 DEF Promise!GiveUp
  <2>3. QED
    BY <2>2 DEF Promise!Next
<1>4. QED
  BY <1>2, <1>3

\* Every step of query() and of its callers is one of Exchange, or none.
LEMMA ExchangeStep == Inv /\ [Next]_vars => [Promise!Next]_(Promise!vars)
<1> SUFFICES ASSUME Inv, [Next]_vars PROVE [Promise!Next]_(Promise!vars)
  OBVIOUS
<1> USE DEF Inv, Types, Final
<1>1. ASSUME NEW q \in Query, AskPermit(q) \/ AskIdle(q) \/ Pop(q) \/ Reused(q)
                              \/ ReuseFails(q) \/ Connect(q)
      PROVE  [Promise!Next]_(Promise!vars)
  BY <1>1, QuietStep DEF AskPermit, AskIdle, Pop, Reused, ReuseFails, Connect
<1>2. ASSUME NEW q \in Query, ConnectFails(q) PROVE [Promise!Next]_(Promise!vars)
  <2>1. CASE tries[q] = 0
    BY <1>2, <2>1, QuietStep DEF ConnectFails
  <2>2. CASE tries[q] # 0
    BY <1>2, <2>2, EndStep DEF ConnectFails, Return
  <2>3. QED
    BY <2>1, <2>2
<1>3. ASSUME NEW q \in Query, PutBack(q) PROVE [Promise!Next]_(Promise!vars)
  <2>1. PICK r \in {"ok", "failed"} : Return(q, r)
    BY <1>3 DEF PutBack
  <2>2. answer[q] = q
    BY <1>3 DEF PutBack, InUse
  <2>3. QED
    BY <1>3, <2>1, <2>2, EndStep DEF PutBack, Return
<1>4. ASSUME NEW q \in Query, Cancel(q) PROVE [Promise!Next]_(Promise!vars)
  BY <1>4, EndStep DEF Cancel, Return
<1>5. CASE UNCHANGED vars
  BY <1>5, QuietStep DEF vars
<1>6. QED
  BY <1>1, <1>2, <1>3, <1>4, <1>5 DEF Next, Step

\* The pool keeps the promise of Exchange without its exception: a call of
\* query() ends once, and an answer it returns is always its own.
THEOREM PoolImplementsExchange == Spec => ImplementsExchange
<1>1. Init => Promise!Init
  BY DEF Init, Promise!Init, Ended, Got, Final
<1>2. Inv /\ [Next]_vars => [Promise!Next]_(Promise!vars)
  BY ExchangeStep
<1>3. QED
  BY <1>1, <1>2, Invariance, PTL DEF Spec, ImplementsExchange, Promise!Spec
=============================================================================
