--------------------------- MODULE UdpPoolProofs ---------------------------
(***************************************************************************)
(* Proofs about UdpPool, for any set of callers, any number of ids and any *)
(* number of sockets.                                                      *)
(*                                                                         *)
(* OwnAnswer and SenderKept are not inductive: that a late answer cannot   *)
(* reach the wrong caller depends on every id in use, on the wire or in    *)
(* the table, lying below the counter of its socket while the counter has  *)
(* not gone round (IdsBelow), on two callers never holding one id          *)
(* (HoldersApart, SlotApart) and on requests carrying their caller's id    *)
(* (WireOwned).  RetryOnFreshSocket needs the pool's socket to be the      *)
(* newest one (SocketOrder).                                               *)
(***************************************************************************)
EXTENDS UdpPool, Integers, TLAPS

\* A call that has selected an id and not yet cleaned up.
Holder == {"send", "wait", "broken", "expired"}
\* A call that holds a reference to a socket.
OnSocket == Holder \cup {"select", "invalidate"}
\* The id counter of the socket has not gone round.
Fresh(s) == issued[s] <= NumIds

\* The pool's socket is none or the newest; callers hold sockets that were made.
SocketOrder ==
    /\ inner \in {0, made}
    /\ \A q \in Query :
        /\ sock[q] <= made
        /\ lost[q] <= made
        /\ pc[q] \in OnSocket => sock[q] # 0
        /\ lost[q] # 0 /\ pc[q] \in {"create", "bind"} =>
              inner = 0 \/ inner > lost[q]

\* Every id in use on a socket lies below its counter.
IdsBelow ==
    \A s \in Sock : Fresh(s) =>
        /\ \A q \in Query : pc[q] \in Holder /\ sock[q] = s => qid[q] < issued[s]
        /\ \A i \in Id : pending[s][i] # NoQuery => i < issued[s]
        /\ \A i \in Id, a \in Query : <<s, i, a>> \in wire => i < issued[s]

\* Two calls do not hold one id of one socket.
HoldersApart ==
    \A p, q \in Query :
        (pc[p] \in Holder /\ pc[q] \in Holder /\ Fresh(sock[p])
            /\ sock[p] = sock[q] /\ qid[p] = qid[q]) => p = q

\* The slot of a held id has its holder or nobody.
SlotApart ==
    \A q \in Query :
        pc[q] \in Holder /\ Fresh(sock[q]) =>
            pending[sock[q]][qid[q]] \in {q, NoQuery}

\* A request on the wire under a held id is the holder's.
WireOwned ==
    \A q, a \in Query :
        (pc[q] \in Holder /\ Fresh(sock[q])
            /\ <<sock[q], qid[q], a>> \in wire) => a = q

\* A delivered reply has taken the entry out of the table.
ReplyTookEntry ==
    \A q \in Query :
        pc[q] \in {"send", "wait"} /\ reply[q] # NoQuery =>
            pending[sock[q]][qid[q]] # q

IInv ==
    /\ TypeOK
    /\ SocketOrder /\ IdsBelow /\ HoldersApart /\ SlotApart /\ WireOwned
    /\ ReplyTookEntry
    /\ OwnAnswer /\ SenderKept /\ OnlyCancelledLeaves /\ RetryOnFreshSocket

---------------------------------------------------------------------------
\* Ids stay below NumIds, and are the counter itself until it goes round.
LEMMA CandidateIsId ==
    ASSUME TypeOK, NEW s \in Sock, NEW t \in 0..(NumIds - 1)
    PROVE  Candidate(s, t) \in Id
BY NumIdsAssumption DEF TypeOK, Candidate, Id

\* Until the counter goes round, query() is given the counter itself as its id.
LEMMA CandidateFresh ==
    ASSUME TypeOK, NEW s \in Sock, NEW t \in 0..(NumIds - 1),
           issued[s] + t + 1 <= NumIds
    PROVE  Candidate(s, t) = issued[s] + t
<1>1. issued[s] + t \in 0..(NumIds - 1)
  BY NumIdsAssumption DEF TypeOK
<1>2. QED
  BY <1>1, NumIdsAssumption DEF Candidate

\* UdpPool::new makes a well-typed, empty pool.
LEMMA TypeInit == Init => TypeOK
BY NumIdsAssumption, MaxSockAssumption DEF Init, TypeOK, PC, Awaiting, Final, Id

\* What a call leaves behind when it returns is well typed.
LEMMA ReturnType ==
    ASSUME TypeOK, NEW q \in Query, NEW result \in PC, Return(q, result)
    PROVE  /\ pc' \in [Query -> PC]
           /\ sock' \in [Query -> 0..MaxSock]
           /\ qid' \in [Query -> Id]
           /\ lost' \in [Query -> 0..MaxSock]
<1>1. 0 \in Id /\ 0 \in 0..MaxSock
  BY NumIdsAssumption, MaxSockAssumption DEF Id
<1>2. QED
  BY <1>1 DEF TypeOK, Return

\* Every step keeps the types.
LEMMA TypeStep == TypeOK /\ SocketOrder /\ [Next]_vars => TypeOK'
<1> SUFFICES ASSUME TypeOK, SocketOrder, [Next]_vars PROVE TypeOK'
  OBVIOUS
<1> USE DEF PC, Awaiting, Final, callVars, sockVars
<1>0. \A q \in Query : pc[q] \in OnSocket => sock[q] \in Sock
  BY MaxSockAssumption DEF SocketOrder, TypeOK, Sock
<1>1. ASSUME NEW q \in Query, ReadInner(q) PROVE TypeOK'
  BY <1>1 DEF ReadInner, TypeOK
<1>2. ASSUME NEW q \in Query, BindSocket(q) PROVE TypeOK'
  <2>1. CASE inner # 0
    BY <1>2, <2>1 DEF BindSocket, TypeOK
  <2>2. CASE inner = 0
    <3>1. made + 1 \in Sock /\ made + 1 \in 0..MaxSock
      BY <1>2, <2>2, MaxSockAssumption DEF BindSocket, TypeOK, Sock
    <3>2. QED
      BY <1>2, <2>2, <3>1 DEF BindSocket, TypeOK
  <2>3. QED
    BY <2>1, <2>2
<1>3. ASSUME NEW q \in Query, BindFails(q) PROVE TypeOK'
  BY <1>3, ReturnType DEF BindFails, TypeOK
<1>4. ASSUME NEW q \in Query, SelectId(q) PROVE TypeOK'
  <2>1. sock[q] \in Sock
    BY <1>0, <1>4 DEF SelectId, OnSocket
  <2>2. PICK t \in 0..(NumIds - 1) :
            /\ issued' = [issued EXCEPT ![sock[q]] = @ + t + 1]
            /\ pending' = [pending EXCEPT ![sock[q]][Candidate(sock[q], t)] = q]
            /\ qid' = [qid EXCEPT ![q] = Candidate(sock[q], t)]
    BY <1>4 DEF SelectId
  <2>3. Candidate(sock[q], t) \in Id
    BY <2>1, CandidateIsId
  <2>4. issued' \in [Sock -> Nat]
    BY <2>1, <2>2, NumIdsAssumption DEF TypeOK
  <2>5. QED
    BY <1>4, <2>1, <2>2, <2>3, <2>4 DEF SelectId, TypeOK
<1>5. ASSUME NEW q \in Query, Send(q) PROVE TypeOK'
  BY <1>0, <1>5 DEF Send, OnSocket, Holder, TypeOK
<1>6. ASSUME NEW q \in Query, SendFails(q) \/ RecvError(q) \/ Timeout(q)
      PROVE  TypeOK'
  BY <1>6 DEF SendFails, RecvError, Timeout, TypeOK
<1>7. ASSUME NEW q \in Query, TakeReply(q) PROVE TypeOK'
  <2>1. CASE \E result \in {"ok", "failed"} : Return(q, result)
    BY <1>7, <2>1, ReturnType DEF TakeReply, TypeOK
  <2>2. CASE pc' = [pc EXCEPT ![q] = "tcp"] /\ UNCHANGED callVars
    BY <1>7, <2>2 DEF TakeReply, TypeOK
  <2>3. QED
    BY <1>7, <2>1, <2>2 DEF TakeReply
<1>8. ASSUME NEW q \in Query, RemoveBroken(q) PROVE TypeOK'
  BY <1>0, <1>8 DEF RemoveBroken, Removed, OnSocket, Holder, TypeOK
<1>9. ASSUME NEW q \in Query, RemoveExpired(q) PROVE TypeOK'
  <2>1. pending' \in [Sock -> [Id -> Query \cup {NoQuery}]]
    BY <1>0, <1>9 DEF RemoveExpired, Removed, OnSocket, Holder, TypeOK
  <2>2. QED
    BY <1>9, <2>1, ReturnType DEF RemoveExpired, TypeOK
<1>10. ASSUME NEW q \in Query, Invalidate(q) PROVE TypeOK'
  <2>1. inner' \in 0..MaxSock
    BY <1>10, MaxSockAssumption DEF Invalidate, TypeOK
  <2>2. CASE lost[q] = 0
    BY <1>10, <2>1, <2>2 DEF Invalidate, TypeOK
  <2>3. CASE lost[q] # 0
    BY <1>10, <2>1, <2>3, ReturnType DEF Invalidate, TypeOK
  <2>4. QED
    BY <2>2, <2>3
<1>11. ASSUME NEW q \in Query, TcpQuery(q) PROVE TypeOK'
  <2>1. PICK result \in {"ok", "failed"} : Return(q, result)
    BY <1>11 DEF TcpQuery
  <2>2. reply' \in [Query -> Query \cup {NoQuery}]
    BY <1>11 DEF TcpQuery, TypeOK
  <2>3. QED
    BY <1>11, <2>1, <2>2, ReturnType DEF TcpQuery, TypeOK
<1>12. ASSUME NEW q \in Query, Cancel(q) PROVE TypeOK'
  BY <1>12, ReturnType DEF Cancel, TypeOK
<1>13. ASSUME NEW s \in Sock, NEW i \in Id, NEW asked \in Query,
              Receive(s, i, asked)
       PROVE  TypeOK'
  <2>1. pending' \in [Sock -> [Id -> Query \cup {NoQuery}]]
    BY <1>13 DEF Receive, TypeOK
  <2>2. reply' \in [Query -> Query \cup {NoQuery}]
    BY <1>13 DEF Receive, TypeOK
  <2>3. QED
    BY <1>13, <2>1, <2>2 DEF Receive, TypeOK
<1>14. ASSUME NEW s \in Sock, SocketError(s) PROVE TypeOK'
  BY <1>14 DEF SocketError, TypeOK
<1>15. CASE UNCHANGED vars
  BY <1>15 DEF vars, TypeOK
<1>16. QED
  BY <1>1, <1>2, <1>3, <1>4, <1>5, <1>6, <1>7, <1>8, <1>9, <1>10, <1>11,
     <1>12, <1>13, <1>14, <1>15 DEF Next, Step

\* What SelectId does: it takes one id of the caller's socket, and until the
\* counter goes round that id was never taken before.
SelectEffect(q, i) ==
    /\ pc[q] = "select" /\ sock[q] \in Sock
    /\ \A p \in Query : pc[p] \in Holder => sock[p] \in Sock
    /\ \A s \in Sock :
         issued'[s] >= issued[s] /\ (s # sock[q] => issued'[s] = issued[s])
    /\ issued'[sock[q]] <= NumIds =>
         /\ i < issued'[sock[q]]
         /\ pending[sock[q]][i] = NoQuery
         /\ \A p \in Query : <<sock[q], i, p>> \notin wire
         /\ \A p \in Query :
              pc[p] \in Holder /\ sock[p] = sock[q] => qid[p] # i
    /\ pending'[sock[q]][i] = q
    /\ \A s \in Sock, j \in Id :
         (s # sock[q] \/ j # i) => pending'[s][j] = pending[s][j]
    /\ qid'[q] = i /\ pc'[q] = "send" /\ reply'[q] = NoQuery
    /\ \A p \in Query \ {q} :
         qid'[p] = qid[p] /\ pc'[p] = pc[p] /\ reply'[p] = reply[p]
    /\ inner' = inner /\ made' = made /\ alive' = alive
    /\ wire' = wire /\ sock' = sock /\ lost' = lost

\* What registering a sender in query() changes, for the lemmas below.
LEMMA SelectIdFacts ==
    ASSUME IInv, NEW q \in Query, SelectId(q)
    PROVE  \E i \in Id : SelectEffect(q, i)
<1> DEFINE s == sock[q]
<1>1. s \in Sock /\ \A p \in Query : pc[p] \in Holder => sock[p] \in Sock
  BY MaxSockAssumption DEF SelectId, IInv, SocketOrder, OnSocket, TypeOK, Sock
<1>2. PICK t \in 0..(NumIds - 1) :
          /\ issued' = [issued EXCEPT ![s] = @ + t + 1]
          /\ pending' = [pending EXCEPT ![s][Candidate(s, t)] = q]
          /\ qid' = [qid EXCEPT ![q] = Candidate(s, t)]
  BY DEF SelectId
<1>3. Candidate(s, t) \in Id
  BY <1>1, <1>2, CandidateIsId DEF IInv, TypeOK
<1>4. t \in Nat /\ issued[s] \in Nat /\ issued'[s] = issued[s] + t + 1
  BY <1>1, <1>2, NumIdsAssumption DEF IInv, TypeOK
<1>5. \A x \in Sock : issued'[x] >= issued[x] /\ (x # s => issued'[x] = issued[x])
  BY <1>1, <1>2, <1>4 DEF IInv, TypeOK
<1>6. ASSUME issued'[s] <= NumIds
      PROVE  /\ Candidate(s, t) < issued'[s]
             /\ pending[s][Candidate(s, t)] = NoQuery
             /\ \A p \in Query : <<s, Candidate(s, t), p>> \notin wire
             /\ \A p \in Query :
                  pc[p] \in Holder /\ sock[p] = s => qid[p] # Candidate(s, t)
  <2>1. Candidate(s, t) = issued[s] + t
    BY <1>1, <1>4, <1>6, CandidateFresh DEF IInv
  <2>2. Fresh(s) /\ ~(Candidate(s, t) < issued[s])
    BY <1>4, <1>6, <2>1, NumIdsAssumption DEF Fresh
  <2>3. QED
    BY <1>1, <1>3, <1>4, <2>1, <2>2 DEF IInv, IdsBelow
<1>7. /\ pending'[s][Candidate(s, t)] = q
      /\ \A x \in Sock, j \in Id :
           (x # s \/ j # Candidate(s, t)) => pending'[x][j] = pending[x][j]
  BY <1>1, <1>2, <1>3 DEF IInv, TypeOK
<1>8. SelectEffect(q, Candidate(s, t))
  BY <1>1, <1>2, <1>3, <1>5, <1>6, <1>7
     DEF SelectEffect, SelectId, sockVars, IInv, TypeOK
<1>9. QED
  BY <1>3, <1>8

\* The pool's socket is none or the newest one, and callers hold older ones.
LEMMA SocketOrderStep == IInv /\ TypeOK' /\ [Next]_vars => SocketOrder'
<1> SUFFICES ASSUME IInv, TypeOK', [Next]_vars PROVE SocketOrder'
  OBVIOUS
<1>0. \A q \in Query : SelectId(q) => \E i \in Id : SelectEffect(q, i)
  BY SelectIdFacts
<1> USE QueryAssumption DEF IInv, TypeOK, SocketOrder, Holder, OnSocket, Fresh,
           callVars, sockVars
<1>1. ASSUME NEW q \in Query, ReadInner(q) PROVE SocketOrder'
  BY <1>1 DEF ReadInner
<1>2. ASSUME NEW q \in Query, BindSocket(q) PROVE SocketOrder'
  BY <1>2 DEF BindSocket
<1>3. ASSUME NEW q \in Query, BindFails(q) PROVE SocketOrder'
  BY <1>3 DEF BindFails, Return
<1>4. ASSUME NEW q \in Query, TakeReply(q) PROVE SocketOrder'
  BY <1>4 DEF TakeReply, Return
<1>5. ASSUME NEW q \in Query, TcpQuery(q) PROVE SocketOrder'
  <2>1. PICK result \in {"ok", "failed"} : Return(q, result)
    BY <1>5 DEF TcpQuery
  <2>2. \A p \in Query : p # q => reply'[p] = reply[p]
    BY <1>5 DEF TcpQuery
  <2>3. QED
    BY <1>5, <2>1, <2>2 DEF TcpQuery, Return
<1>6. ASSUME NEW q \in Query, Cancel(q) PROVE SocketOrder'
  BY <1>6 DEF Cancel, Return, Awaiting
<1>7. ASSUME NEW q \in Query, NEW i \in Id, SelectEffect(q, i)
      PROVE  SocketOrder'
  BY <1>7 DEF SelectEffect
<1>8. ASSUME NEW q \in Query, Send(q) PROVE SocketOrder'
  BY <1>8 DEF Send
<1>9. ASSUME NEW q \in Query, SendFails(q) \/ RecvError(q) \/ Timeout(q)
      PROVE  SocketOrder'
  BY <1>9 DEF SendFails, RecvError, Timeout, Closed
<1>10. ASSUME NEW q \in Query, RemoveBroken(q) PROVE SocketOrder'
  BY <1>10 DEF RemoveBroken, Removed
<1>11. ASSUME NEW q \in Query, RemoveExpired(q) PROVE SocketOrder'
  BY <1>11 DEF RemoveExpired, Removed, Return
<1>12. ASSUME NEW q \in Query, Invalidate(q) PROVE SocketOrder'
  BY <1>12 DEF Invalidate, Return
<1>13. ASSUME NEW s \in Sock, NEW i \in Id, NEW asked \in Query,
              Receive(s, i, asked)
       PROVE  SocketOrder'
  BY <1>13 DEF Receive
<1>14. ASSUME NEW s \in Sock, SocketError(s) PROVE SocketOrder'
  BY <1>14 DEF SocketError
<1>15. CASE UNCHANGED vars
  BY <1>15 DEF vars
<1>16. QED
  BY <1>0, <1>1, <1>2, <1>3, <1>4, <1>5, <1>6, <1>7, <1>8, <1>9, <1>10,
     <1>11, <1>12, <1>13, <1>14, <1>15 DEF Next, Step

\* What get_or_create returns on a retry is newer than the lost socket.
LEMMA RetryOnFreshSocketStep == IInv /\ TypeOK' /\ [Next]_vars => RetryOnFreshSocket'
<1> SUFFICES ASSUME IInv, TypeOK', [Next]_vars PROVE RetryOnFreshSocket'
  OBVIOUS
<1>0. \A q \in Query : SelectId(q) => \E i \in Id : SelectEffect(q, i)
  BY SelectIdFacts
<1> USE QueryAssumption DEF IInv, TypeOK, RetryOnFreshSocket, SocketOrder, Holder, OnSocket, Fresh,
           callVars, sockVars
<1>1. ASSUME NEW q \in Query, ReadInner(q) PROVE RetryOnFreshSocket'
  BY <1>1 DEF ReadInner
<1>2. ASSUME NEW q \in Query, BindSocket(q) PROVE RetryOnFreshSocket'
  BY <1>2 DEF BindSocket
<1>3. ASSUME NEW q \in Query, BindFails(q) PROVE RetryOnFreshSocket'
  BY <1>3 DEF BindFails, Return
<1>4. ASSUME NEW q \in Query, TakeReply(q) PROVE RetryOnFreshSocket'
  BY <1>4 DEF TakeReply, Return
<1>5. ASSUME NEW q \in Query, TcpQuery(q) PROVE RetryOnFreshSocket'
  BY <1>5 DEF TcpQuery, Return
<1>6. ASSUME NEW q \in Query, Cancel(q) PROVE RetryOnFreshSocket'
  BY <1>6 DEF Cancel, Return, Awaiting
<1>7. ASSUME NEW q \in Query, NEW i \in Id, SelectEffect(q, i)
      PROVE  RetryOnFreshSocket'
  BY <1>7 DEF SelectEffect
<1>8. ASSUME NEW q \in Query, Send(q) PROVE RetryOnFreshSocket'
  BY <1>8 DEF Send
<1>9. ASSUME NEW q \in Query, SendFails(q) \/ RecvError(q) \/ Timeout(q)
      PROVE  RetryOnFreshSocket'
  BY <1>9 DEF SendFails, RecvError, Timeout, Closed
<1>10. ASSUME NEW q \in Query, RemoveBroken(q) PROVE RetryOnFreshSocket'
  BY <1>10 DEF RemoveBroken, Removed
<1>11. ASSUME NEW q \in Query, RemoveExpired(q) PROVE RetryOnFreshSocket'
  BY <1>11 DEF RemoveExpired, Removed, Return
<1>12. ASSUME NEW q \in Query, Invalidate(q) PROVE RetryOnFreshSocket'
  BY <1>12 DEF Invalidate, Return
<1>13. ASSUME NEW s \in Sock, NEW i \in Id, NEW asked \in Query,
              Receive(s, i, asked)
       PROVE  RetryOnFreshSocket'
  BY <1>13 DEF Receive
<1>14. ASSUME NEW s \in Sock, SocketError(s) PROVE RetryOnFreshSocket'
  BY <1>14 DEF SocketError
<1>15. CASE UNCHANGED vars
  BY <1>15 DEF vars
<1>16. QED
  BY <1>0, <1>1, <1>2, <1>3, <1>4, <1>5, <1>6, <1>7, <1>8, <1>9, <1>10,
     <1>11, <1>12, <1>13, <1>14, <1>15 DEF Next, Step

\* Ids in use stay below the counter of their socket.
LEMMA IdsBelowStep == IInv /\ TypeOK' /\ [Next]_vars => IdsBelow'
<1> SUFFICES ASSUME IInv, TypeOK', [Next]_vars PROVE IdsBelow'
  OBVIOUS
<1>0. \A q \in Query : SelectId(q) => \E i \in Id : SelectEffect(q, i)
  BY SelectIdFacts
<1> USE QueryAssumption DEF IInv, TypeOK, IdsBelow, SocketOrder, Holder, OnSocket, Fresh,
           callVars, sockVars
<1>1. ASSUME NEW q \in Query, ReadInner(q) PROVE IdsBelow'
  BY <1>1 DEF ReadInner
<1>2. ASSUME NEW q \in Query, BindSocket(q) PROVE IdsBelow'
  BY <1>2 DEF BindSocket
<1>3. ASSUME NEW q \in Query, BindFails(q) PROVE IdsBelow'
  BY <1>3 DEF BindFails, Return
<1>4. ASSUME NEW q \in Query, TakeReply(q) PROVE IdsBelow'
  BY <1>4 DEF TakeReply, Return
<1>5. ASSUME NEW q \in Query, TcpQuery(q) PROVE IdsBelow'
  <2>1. PICK result \in {"ok", "failed"} : Return(q, result)
    BY <1>5 DEF TcpQuery
  <2>2. \A p \in Query : p # q => reply'[p] = reply[p]
    BY <1>5 DEF TcpQuery
  <2>3. QED
    BY <1>5, <2>1, <2>2 DEF TcpQuery, Return
<1>6. ASSUME NEW q \in Query, Cancel(q) PROVE IdsBelow'
  BY <1>6 DEF Cancel, Return, Awaiting
<1>7. ASSUME NEW q \in Query, NEW i \in Id, SelectEffect(q, i)
      PROVE  IdsBelow'
  <2>1. \A s \in Sock : issued'[s] <= NumIds => issued[s] <= NumIds
    BY <1>7, NumIdsAssumption DEF SelectEffect
  <2>2. ASSUME NEW s \in Sock, issued'[s] <= NumIds, NEW p \in Query,
               pc'[p] \in Holder, sock'[p] = s
        PROVE  qid'[p] < issued'[s]
    <3>1. CASE p = q
      BY <1>7, <2>2, <3>1 DEF SelectEffect
    <3>2. CASE p # q
      <4>1. pc[p] \in Holder /\ sock[p] = s /\ qid'[p] = qid[p]
        BY <1>7, <2>2, <3>2 DEF SelectEffect
      <4>2. qid[p] < issued[s] /\ issued[s] <= issued'[s]
        BY <1>7, <2>1, <2>2, <4>1 DEF SelectEffect
      <4>3. QED
        BY <4>1, <4>2, SMTT(30) DEF Id
    <3>3. QED
      BY <3>1, <3>2
  <2>3. ASSUME NEW s \in Sock, issued'[s] <= NumIds, NEW j \in Id
        PROVE  /\ pending'[s][j] # NoQuery => j < issued'[s]
               /\ \A a \in Query : <<s, j, a>> \in wire' => j < issued'[s]
    BY <1>7, <2>1, <2>3, SMTT(30) DEF SelectEffect, Id
  <2>4. QED
    BY <2>2, <2>3
<1>8. ASSUME NEW q \in Query, Send(q) PROVE IdsBelow'
  BY <1>8 DEF Send
<1>9. ASSUME NEW q \in Query, SendFails(q) \/ RecvError(q) \/ Timeout(q)
      PROVE  IdsBelow'
  BY <1>9 DEF SendFails, RecvError, Timeout, Closed
<1>10. ASSUME NEW q \in Query, RemoveBroken(q) PROVE IdsBelow'
  BY <1>10 DEF RemoveBroken, Removed
<1>11. ASSUME NEW q \in Query, RemoveExpired(q) PROVE IdsBelow'
  BY <1>11 DEF RemoveExpired, Removed, Return
<1>12. ASSUME NEW q \in Query, Invalidate(q) PROVE IdsBelow'
  BY <1>12, SMTT(30) DEF Invalidate, Return
<1>13. ASSUME NEW s \in Sock, NEW i \in Id, NEW asked \in Query,
              Receive(s, i, asked)
       PROVE  IdsBelow'
  BY <1>13 DEF Receive
<1>14. ASSUME NEW s \in Sock, SocketError(s) PROVE IdsBelow'
  BY <1>14 DEF SocketError
<1>15. CASE UNCHANGED vars
  BY <1>15 DEF vars
<1>16. QED
  BY <1>0, <1>1, <1>2, <1>3, <1>4, <1>5, <1>6, <1>7, <1>8, <1>9, <1>10,
     <1>11, <1>12, <1>13, <1>14, <1>15 DEF Next, Step

\* Two calls hold different ids: a fresh id is above every held one.
LEMMA HoldersApartStep == IInv /\ TypeOK' /\ [Next]_vars => HoldersApart'
<1> SUFFICES ASSUME IInv, TypeOK', [Next]_vars PROVE HoldersApart'
  OBVIOUS
<1>0. \A q \in Query : SelectId(q) => \E i \in Id : SelectEffect(q, i)
  BY SelectIdFacts
<1> USE QueryAssumption DEF IInv, TypeOK, HoldersApart, SocketOrder, Holder, OnSocket, Fresh,
           callVars, sockVars
<1>1. ASSUME NEW q \in Query, ReadInner(q) PROVE HoldersApart'
  BY <1>1 DEF ReadInner
<1>2. ASSUME NEW q \in Query, BindSocket(q) PROVE HoldersApart'
  BY <1>2 DEF BindSocket
<1>3. ASSUME NEW q \in Query, BindFails(q) PROVE HoldersApart'
  BY <1>3 DEF BindFails, Return
<1>4. ASSUME NEW q \in Query, TakeReply(q) PROVE HoldersApart'
  BY <1>4 DEF TakeReply, Return
<1>5. ASSUME NEW q \in Query, TcpQuery(q) PROVE HoldersApart'
  BY <1>5 DEF TcpQuery, Return
<1>6. ASSUME NEW q \in Query, Cancel(q) PROVE HoldersApart'
  BY <1>6 DEF Cancel, Return, Awaiting
<1>7. ASSUME NEW q \in Query, NEW i \in Id, SelectEffect(q, i)
      PROVE  HoldersApart'
  <2>1. \A s \in Sock : issued'[s] <= NumIds => issued[s] <= NumIds
    BY <1>7, NumIdsAssumption DEF SelectEffect
  <2>2. ASSUME NEW p \in Query, pc'[p] \in Holder, issued'[sock'[p]] <= NumIds,
               p # q
        PROVE  pc[p] \in Holder /\ issued[sock[p]] <= NumIds /\ qid'[p] = qid[p]
               /\ (sock[p] = sock[q] => qid[p] # i)
    BY <1>7, <2>1, <2>2 DEF SelectEffect
  <2>3. QED
    BY <1>7, <2>2, SMTT(30) DEF SelectEffect
<1>8. ASSUME NEW q \in Query, Send(q) PROVE HoldersApart'
  BY <1>8 DEF Send
<1>9. ASSUME NEW q \in Query, SendFails(q) \/ RecvError(q) \/ Timeout(q)
      PROVE  HoldersApart'
  BY <1>9 DEF SendFails, RecvError, Timeout, Closed
<1>10. ASSUME NEW q \in Query, RemoveBroken(q) PROVE HoldersApart'
  BY <1>10 DEF RemoveBroken, Removed
<1>11. ASSUME NEW q \in Query, RemoveExpired(q) PROVE HoldersApart'
  BY <1>11 DEF RemoveExpired, Removed, Return
<1>12. ASSUME NEW q \in Query, Invalidate(q) PROVE HoldersApart'
  BY <1>12 DEF Invalidate, Return
<1>13. ASSUME NEW s \in Sock, NEW i \in Id, NEW asked \in Query,
              Receive(s, i, asked)
       PROVE  HoldersApart'
  BY <1>13 DEF Receive
<1>14. ASSUME NEW s \in Sock, SocketError(s) PROVE HoldersApart'
  BY <1>14 DEF SocketError
<1>15. CASE UNCHANGED vars
  BY <1>15 DEF vars
<1>16. QED
  BY <1>0, <1>1, <1>2, <1>3, <1>4, <1>5, <1>6, <1>7, <1>8, <1>9, <1>10,
     <1>11, <1>12, <1>13, <1>14, <1>15 DEF Next, Step

\* The slot of a held id is the holder's own or empty.
LEMMA SlotApartStep == IInv /\ TypeOK' /\ [Next]_vars => SlotApart'
<1> SUFFICES ASSUME IInv, TypeOK', [Next]_vars PROVE SlotApart'
  OBVIOUS
<1>0. \A q \in Query : SelectId(q) => \E i \in Id : SelectEffect(q, i)
  BY SelectIdFacts
<1> USE QueryAssumption DEF IInv, TypeOK, SlotApart, HoldersApart, SocketOrder, Holder, OnSocket, Fresh,
           callVars, sockVars
<1>1. ASSUME NEW q \in Query, ReadInner(q) PROVE SlotApart'
  BY <1>1 DEF ReadInner
<1>2. ASSUME NEW q \in Query, BindSocket(q) PROVE SlotApart'
  BY <1>2 DEF BindSocket
<1>3. ASSUME NEW q \in Query, BindFails(q) PROVE SlotApart'
  BY <1>3 DEF BindFails, Return
<1>4. ASSUME NEW q \in Query, TakeReply(q) PROVE SlotApart'
  BY <1>4 DEF TakeReply, Return
<1>5. ASSUME NEW q \in Query, TcpQuery(q) PROVE SlotApart'
  BY <1>5 DEF TcpQuery, Return
<1>6. ASSUME NEW q \in Query, Cancel(q) PROVE SlotApart'
  BY <1>6 DEF Cancel, Return, Awaiting
<1>7. ASSUME NEW q \in Query, NEW i \in Id, SelectEffect(q, i)
      PROVE  SlotApart'
  <2>1. \A s \in Sock : issued'[s] <= NumIds => issued[s] <= NumIds
    BY <1>7, NumIdsAssumption DEF SelectEffect
  <2>2. ASSUME NEW p \in Query, pc'[p] \in Holder, issued'[sock'[p]] <= NumIds,
               p # q
        PROVE  pc[p] \in Holder /\ issued[sock[p]] <= NumIds /\ qid'[p] = qid[p]
               /\ (sock[p] = sock[q] => qid[p] # i)
    BY <1>7, <2>1, <2>2 DEF SelectEffect
  <2>3. ASSUME NEW p \in Query, pc'[p] \in Holder, issued'[sock'[p]] <= NumIds
        PROVE  pending'[sock'[p]][qid'[p]] \in {p, NoQuery}
    <3>1. CASE p = q
      BY <1>7, <2>3, <3>1 DEF SelectEffect
    <3>2. CASE p # q
      <4>1. pending[sock[p]][qid[p]] \in {p, NoQuery}
        BY <2>2, <2>3, <3>2
      <4>2. sock'[p] = sock[p] /\ sock[p] \in Sock /\ qid'[p] = qid[p]
        BY <1>7, <2>2, <2>3, <3>2 DEF SelectEffect
      <4>3. sock[p] # sock[q] \/ qid[p] # i
        BY <2>2, <2>3, <3>2
      <4>4. QED
        BY <1>7, <4>1, <4>2, <4>3 DEF SelectEffect
    <3>3. QED
      BY <3>1, <3>2
  <2>4. QED
    BY <2>3
<1>8. ASSUME NEW q \in Query, Send(q) PROVE SlotApart'
  BY <1>8 DEF Send
<1>9. ASSUME NEW q \in Query, SendFails(q) \/ RecvError(q) \/ Timeout(q)
      PROVE  SlotApart'
  BY <1>9 DEF SendFails, RecvError, Timeout, Closed
<1>10. ASSUME NEW q \in Query, RemoveBroken(q) PROVE SlotApart'
  BY <1>10 DEF RemoveBroken, Removed
<1>11. ASSUME NEW q \in Query, RemoveExpired(q) PROVE SlotApart'
  BY <1>11 DEF RemoveExpired, Removed, Return
<1>12. ASSUME NEW q \in Query, Invalidate(q) PROVE SlotApart'
  BY <1>12 DEF Invalidate, Return
<1>13. ASSUME NEW s \in Sock, NEW i \in Id, NEW asked \in Query,
              Receive(s, i, asked)
       PROVE  SlotApart'
  BY <1>13 DEF Receive
<1>14. ASSUME NEW s \in Sock, SocketError(s) PROVE SlotApart'
  BY <1>14 DEF SocketError
<1>15. CASE UNCHANGED vars
  BY <1>15 DEF vars
<1>16. QED
  BY <1>0, <1>1, <1>2, <1>3, <1>4, <1>5, <1>6, <1>7, <1>8, <1>9, <1>10,
     <1>11, <1>12, <1>13, <1>14, <1>15 DEF Next, Step

\* A request under a held id is the holder's own request.
LEMMA WireOwnedStep == IInv /\ TypeOK' /\ [Next]_vars => WireOwned'
<1> SUFFICES ASSUME IInv, TypeOK', [Next]_vars PROVE WireOwned'
  OBVIOUS
<1>0. \A q \in Query : SelectId(q) => \E i \in Id : SelectEffect(q, i)
  BY SelectIdFacts
<1> USE QueryAssumption DEF IInv, TypeOK, WireOwned, HoldersApart, SocketOrder, Holder, OnSocket, Fresh,
           callVars, sockVars
<1>1. ASSUME NEW q \in Query, ReadInner(q) PROVE WireOwned'
  BY <1>1 DEF ReadInner
<1>2. ASSUME NEW q \in Query, BindSocket(q) PROVE WireOwned'
  BY <1>2 DEF BindSocket
<1>3. ASSUME NEW q \in Query, BindFails(q) PROVE WireOwned'
  BY <1>3 DEF BindFails, Return
<1>4. ASSUME NEW q \in Query, TakeReply(q) PROVE WireOwned'
  BY <1>4 DEF TakeReply, Return
<1>5. ASSUME NEW q \in Query, TcpQuery(q) PROVE WireOwned'
  BY <1>5, SMTT(30) DEF TcpQuery, Return
<1>6. ASSUME NEW q \in Query, Cancel(q) PROVE WireOwned'
  BY <1>6 DEF Cancel, Return, Awaiting
<1>7. ASSUME NEW q \in Query, NEW i \in Id, SelectEffect(q, i)
      PROVE  WireOwned'
  <2>1. \A s \in Sock : issued'[s] <= NumIds => issued[s] <= NumIds
    BY <1>7, NumIdsAssumption DEF SelectEffect
  <2>2. ASSUME NEW p \in Query, pc'[p] \in Holder, issued'[sock'[p]] <= NumIds,
               p # q
        PROVE  pc[p] \in Holder /\ issued[sock[p]] <= NumIds /\ qid'[p] = qid[p]
               /\ (sock[p] = sock[q] => qid[p] # i)
    BY <1>7, <2>1, <2>2 DEF SelectEffect
  <2>3. QED
    BY <1>7, <2>2 DEF SelectEffect
<1>8. ASSUME NEW q \in Query, Send(q) PROVE WireOwned'
  BY <1>8 DEF Send
<1>9. ASSUME NEW q \in Query, SendFails(q) \/ RecvError(q) \/ Timeout(q)
      PROVE  WireOwned'
  BY <1>9 DEF SendFails, RecvError, Timeout, Closed
<1>10. ASSUME NEW q \in Query, RemoveBroken(q) PROVE WireOwned'
  BY <1>10 DEF RemoveBroken, Removed
<1>11. ASSUME NEW q \in Query, RemoveExpired(q) PROVE WireOwned'
  BY <1>11 DEF RemoveExpired, Removed, Return
<1>12. ASSUME NEW q \in Query, Invalidate(q) PROVE WireOwned'
  BY <1>12 DEF Invalidate, Return
<1>13. ASSUME NEW s \in Sock, NEW i \in Id, NEW asked \in Query,
              Receive(s, i, asked)
       PROVE  WireOwned'
  BY <1>13 DEF Receive
<1>14. ASSUME NEW s \in Sock, SocketError(s) PROVE WireOwned'
  BY <1>14 DEF SocketError
<1>15. CASE UNCHANGED vars
  BY <1>15 DEF vars
<1>16. QED
  BY <1>0, <1>1, <1>2, <1>3, <1>4, <1>5, <1>6, <1>7, <1>8, <1>9, <1>10,
     <1>11, <1>12, <1>13, <1>14, <1>15 DEF Next, Step

\* A delivered reply has taken the entry out of the table.
LEMMA ReplyTookEntryStep == IInv /\ TypeOK' /\ [Next]_vars => ReplyTookEntry'
<1> SUFFICES ASSUME IInv, TypeOK', [Next]_vars PROVE ReplyTookEntry'
  OBVIOUS
<1>0. \A q \in Query : SelectId(q) => \E i \in Id : SelectEffect(q, i)
  BY SelectIdFacts
<1> USE QueryAssumption DEF IInv, TypeOK, ReplyTookEntry, OnlyCancelledLeaves, SocketOrder, Holder, OnSocket, Fresh,
           callVars, sockVars
<1>1. ASSUME NEW q \in Query, ReadInner(q) PROVE ReplyTookEntry'
  BY <1>1 DEF ReadInner
<1>2. ASSUME NEW q \in Query, BindSocket(q) PROVE ReplyTookEntry'
  BY <1>2 DEF BindSocket
<1>3. ASSUME NEW q \in Query, BindFails(q) PROVE ReplyTookEntry'
  BY <1>3 DEF BindFails, Return
<1>4. ASSUME NEW q \in Query, TakeReply(q) PROVE ReplyTookEntry'
  BY <1>4 DEF TakeReply, Return
<1>5. ASSUME NEW q \in Query, TcpQuery(q) PROVE ReplyTookEntry'
  BY <1>5 DEF TcpQuery, Return
<1>6. ASSUME NEW q \in Query, Cancel(q) PROVE ReplyTookEntry'
  BY <1>6 DEF Cancel, Return, Awaiting
<1>7. ASSUME NEW q \in Query, NEW i \in Id, SelectEffect(q, i)
      PROVE  ReplyTookEntry'
  BY <1>7 DEF SelectEffect
<1>8. ASSUME NEW q \in Query, Send(q) PROVE ReplyTookEntry'
  BY <1>8 DEF Send
<1>9. ASSUME NEW q \in Query, SendFails(q) \/ RecvError(q) \/ Timeout(q)
      PROVE  ReplyTookEntry'
  BY <1>9 DEF SendFails, RecvError, Timeout, Closed
<1>10. ASSUME NEW q \in Query, RemoveBroken(q) PROVE ReplyTookEntry'
  BY <1>10 DEF RemoveBroken, Removed
<1>11. ASSUME NEW q \in Query, RemoveExpired(q) PROVE ReplyTookEntry'
  BY <1>11 DEF RemoveExpired, Removed, Return
<1>12. ASSUME NEW q \in Query, Invalidate(q) PROVE ReplyTookEntry'
  BY <1>12 DEF Invalidate, Return
<1>13. ASSUME NEW s \in Sock, NEW i \in Id, NEW asked \in Query,
              Receive(s, i, asked)
       PROVE  ReplyTookEntry'
  BY <1>13 DEF Receive
<1>14. ASSUME NEW s \in Sock, SocketError(s) PROVE ReplyTookEntry'
  BY <1>14 DEF SocketError
<1>15. CASE UNCHANGED vars
  BY <1>15 DEF vars
<1>16. QED
  BY <1>0, <1>1, <1>2, <1>3, <1>4, <1>5, <1>6, <1>7, <1>8, <1>9, <1>10,
     <1>11, <1>12, <1>13, <1>14, <1>15 DEF Next, Step

\* A reply delivered before the counter goes round is the caller's own.
LEMMA OwnAnswerStep == IInv /\ TypeOK' /\ [Next]_vars => OwnAnswer'
<1> SUFFICES ASSUME IInv, TypeOK', [Next]_vars PROVE OwnAnswer'
  OBVIOUS
<1>0. \A q \in Query : SelectId(q) => \E i \in Id : SelectEffect(q, i)
  BY SelectIdFacts
<1> USE QueryAssumption DEF IInv, TypeOK, OwnAnswer, WireOwned, SocketOrder, Holder, OnSocket, Fresh,
           callVars, sockVars
<1>1. ASSUME NEW q \in Query, ReadInner(q) PROVE OwnAnswer'
  BY <1>1 DEF ReadInner
<1>2. ASSUME NEW q \in Query, BindSocket(q) PROVE OwnAnswer'
  BY <1>2 DEF BindSocket
<1>3. ASSUME NEW q \in Query, BindFails(q) PROVE OwnAnswer'
  BY <1>3 DEF BindFails, Return
<1>4. ASSUME NEW q \in Query, TakeReply(q) PROVE OwnAnswer'
  BY <1>4 DEF TakeReply, Return
<1>5. ASSUME NEW q \in Query, TcpQuery(q) PROVE OwnAnswer'
  <2>1. PICK result \in {"ok", "failed"} : Return(q, result)
    BY <1>5 DEF TcpQuery
  <2>2. \A p \in Query : p # q => reply'[p] = reply[p]
    BY <1>5 DEF TcpQuery
  <2>3. QED
    BY <1>5, <2>1, <2>2 DEF TcpQuery, Return
<1>6. ASSUME NEW q \in Query, Cancel(q) PROVE OwnAnswer'
  BY <1>6 DEF Cancel, Return, Awaiting
<1>7. ASSUME NEW q \in Query, NEW i \in Id, SelectEffect(q, i)
      PROVE  OwnAnswer'
  <2>1. \A s \in Sock : issued'[s] <= NumIds => issued[s] <= NumIds
    BY <1>7, NumIdsAssumption DEF SelectEffect
  <2>2. ASSUME NEW p \in Query, pc'[p] \in {"send", "wait"}, reply'[p] # NoQuery,
               issued'[sock'[p]] <= NumIds
        PROVE  reply'[p] = p
    <3>1. p # q
      BY <1>7, <2>2 DEF SelectEffect
    <3>2. /\ pc[p] \in {"send", "wait"} /\ reply'[p] = reply[p]
          /\ sock'[p] = sock[p] /\ sock[p] \in Sock
      BY <1>7, <2>2, <3>1 DEF SelectEffect
    <3>3. QED
      BY <2>1, <2>2, <3>2
  <2>3. QED
    BY <2>2
<1>8. ASSUME NEW q \in Query, Send(q) PROVE OwnAnswer'
  BY <1>8 DEF Send
<1>9. ASSUME NEW q \in Query, SendFails(q) \/ RecvError(q) \/ Timeout(q)
      PROVE  OwnAnswer'
  BY <1>9 DEF SendFails, RecvError, Timeout, Closed
<1>10. ASSUME NEW q \in Query, RemoveBroken(q) PROVE OwnAnswer'
  BY <1>10 DEF RemoveBroken, Removed
<1>11. ASSUME NEW q \in Query, RemoveExpired(q) PROVE OwnAnswer'
  BY <1>11 DEF RemoveExpired, Removed, Return
<1>12. ASSUME NEW q \in Query, Invalidate(q) PROVE OwnAnswer'
  BY <1>12 DEF Invalidate, Return
<1>13. ASSUME NEW s \in Sock, NEW i \in Id, NEW asked \in Query,
              Receive(s, i, asked)
       PROVE  OwnAnswer'
  BY <1>13 DEF Receive
<1>14. ASSUME NEW s \in Sock, SocketError(s) PROVE OwnAnswer'
  BY <1>14 DEF SocketError
<1>15. CASE UNCHANGED vars
  BY <1>15 DEF vars
<1>16. QED
  BY <1>0, <1>1, <1>2, <1>3, <1>4, <1>5, <1>6, <1>7, <1>8, <1>9, <1>10,
     <1>11, <1>12, <1>13, <1>14, <1>15 DEF Next, Step

\* A waiting call's receiver stays open while its receive loop lives.
LEMMA SenderKeptStep == IInv /\ TypeOK' /\ [Next]_vars => SenderKept'
<1> SUFFICES ASSUME IInv, TypeOK', [Next]_vars PROVE SenderKept'
  OBVIOUS
<1>0. \A q \in Query : SelectId(q) => \E i \in Id : SelectEffect(q, i)
  BY SelectIdFacts
<1> USE QueryAssumption DEF IInv, TypeOK, SenderKept, Closed, SlotApart, HoldersApart, SocketOrder, OnlyCancelledLeaves, Holder, OnSocket, Fresh,
           callVars, sockVars
<1>1. ASSUME NEW q \in Query, ReadInner(q) PROVE SenderKept'
  BY <1>1 DEF ReadInner
<1>2. ASSUME NEW q \in Query, BindSocket(q) PROVE SenderKept'
  <2>1. ASSUME NEW p \in Query, pc[p] \in {"send", "wait"}
        PROVE  /\ sock[p] \in Sock /\ pc'[p] = pc[p] /\ sock'[p] = sock[p]
               /\ alive'[sock[p]] = alive[sock[p]]
    BY <1>2, <2>1, MaxSockAssumption, SMTT(30) DEF BindSocket, Sock
  <2>2. \A p \in Query : pc'[p] \in {"send", "wait"} => pc[p] \in {"send", "wait"}
    BY <1>2 DEF BindSocket
  <2>3. QED
    BY <1>2, <2>1, <2>2 DEF BindSocket
<1>3. ASSUME NEW q \in Query, BindFails(q) PROVE SenderKept'
  BY <1>3 DEF BindFails, Return
<1>4. ASSUME NEW q \in Query, TakeReply(q) PROVE SenderKept'
  BY <1>4 DEF TakeReply, Return
<1>5. ASSUME NEW q \in Query, TcpQuery(q) PROVE SenderKept'
  <2>1. PICK result \in {"ok", "failed"} : Return(q, result)
    BY <1>5 DEF TcpQuery
  <2>2. \A p \in Query : p # q => reply'[p] = reply[p]
    BY <1>5 DEF TcpQuery
  <2>3. QED
    BY <1>5, <2>1, <2>2 DEF TcpQuery, Return
<1>6. ASSUME NEW q \in Query, Cancel(q) PROVE SenderKept'
  BY <1>6 DEF Cancel, Return, Awaiting
<1>7. ASSUME NEW q \in Query, NEW i \in Id, SelectEffect(q, i)
      PROVE  SenderKept'
  <2>1. \A s \in Sock : issued'[s] <= NumIds => issued[s] <= NumIds
    BY <1>7, NumIdsAssumption DEF SelectEffect
  <2>2. ASSUME NEW p \in Query, pc'[p] \in {"send", "wait"}, alive'[sock'[p]],
               issued'[sock'[p]] <= NumIds
        PROVE  reply'[p] # NoQuery \/ pending'[sock'[p]][qid'[p]] = p
    <3>1. CASE p = q
      BY <1>7, <3>1 DEF SelectEffect
    <3>2. CASE p # q
      <4>1. /\ pc[p] \in {"send", "wait"} /\ reply'[p] = reply[p]
            /\ sock'[p] = sock[p] /\ sock[p] \in Sock /\ qid'[p] = qid[p]
            /\ alive[sock[p]] /\ (sock[p] = sock[q] => qid[p] # i)
        BY <1>7, <2>2, <3>2 DEF SelectEffect
      <4>2. reply[p] # NoQuery \/ pending[sock[p]][qid[p]] = p
        BY <2>1, <2>2, <4>1
      <4>3. QED
        BY <1>7, <4>1, <4>2 DEF SelectEffect
    <3>3. QED
      BY <3>1, <3>2
  <2>3. QED
    BY <2>2
<1>8. ASSUME NEW q \in Query, Send(q) PROVE SenderKept'
  BY <1>8 DEF Send
<1>9. ASSUME NEW q \in Query, SendFails(q) \/ RecvError(q) \/ Timeout(q)
      PROVE  SenderKept'
  BY <1>9 DEF SendFails, RecvError, Timeout, Closed
<1>10. ASSUME NEW q \in Query, RemoveBroken(q) PROVE SenderKept'
  BY <1>10 DEF RemoveBroken, Removed
<1>11. ASSUME NEW q \in Query, RemoveExpired(q) PROVE SenderKept'
  BY <1>11 DEF RemoveExpired, Removed, Return
<1>12. ASSUME NEW q \in Query, Invalidate(q) PROVE SenderKept'
  BY <1>12 DEF Invalidate, Return
<1>13. ASSUME NEW s \in Sock, NEW i \in Id, NEW asked \in Query,
              Receive(s, i, asked)
       PROVE  SenderKept'
  BY <1>13 DEF Receive
<1>14. ASSUME NEW s \in Sock, SocketError(s) PROVE SenderKept'
  BY <1>14 DEF SocketError
<1>15. CASE UNCHANGED vars
  BY <1>15 DEF vars
<1>16. QED
  BY <1>0, <1>1, <1>2, <1>3, <1>4, <1>5, <1>6, <1>7, <1>8, <1>9, <1>10,
     <1>11, <1>12, <1>13, <1>14, <1>15 DEF Next, Step

\* Only a cancelled call leaves an entry behind.
LEMMA OnlyCancelledLeavesStep == IInv /\ TypeOK' /\ [Next]_vars => OnlyCancelledLeaves'
<1> SUFFICES ASSUME IInv, TypeOK', [Next]_vars PROVE OnlyCancelledLeaves'
  OBVIOUS
<1>0. \A q \in Query : SelectId(q) => \E i \in Id : SelectEffect(q, i)
  BY SelectIdFacts
<1> USE QueryAssumption DEF IInv, TypeOK, OnlyCancelledLeaves, ReplyTookEntry, Closed, SocketOrder, Holder, OnSocket, Fresh,
           callVars, sockVars
<1>1. ASSUME NEW q \in Query, ReadInner(q) PROVE OnlyCancelledLeaves'
  BY <1>1 DEF ReadInner
<1>2. ASSUME NEW q \in Query, BindSocket(q) PROVE OnlyCancelledLeaves'
  BY <1>2 DEF BindSocket
<1>3. ASSUME NEW q \in Query, BindFails(q) PROVE OnlyCancelledLeaves'
  BY <1>3 DEF BindFails, Return
<1>4. ASSUME NEW q \in Query, TakeReply(q) PROVE OnlyCancelledLeaves'
  <2>1. ASSUME NEW s \in Sock, NEW i \in Id, pending[s][i] = q PROVE FALSE
    BY <1>4, <2>1 DEF TakeReply
  <2>2. \A p \in Query : p # q => pc'[p] = pc[p] /\ sock'[p] = sock[p] /\ qid'[p] = qid[p]
    BY <1>4 DEF TakeReply, Return
  <2>3. pending' = pending
    BY <1>4 DEF TakeReply
  <2>4. QED
    BY <2>1, <2>2, <2>3
<1>5. ASSUME NEW q \in Query, TcpQuery(q) PROVE OnlyCancelledLeaves'
  <2>1. ASSUME NEW s \in Sock, NEW i \in Id, pending[s][i] = q PROVE FALSE
    BY <1>5, <2>1 DEF TcpQuery
  <2>2. \A p \in Query : p # q => pc'[p] = pc[p] /\ sock'[p] = sock[p] /\ qid'[p] = qid[p]
    BY <1>5 DEF TcpQuery, Return
  <2>3. pending' = pending
    BY <1>5 DEF TcpQuery
  <2>4. QED
    BY <2>1, <2>2, <2>3
<1>6. ASSUME NEW q \in Query, Cancel(q) PROVE OnlyCancelledLeaves'
  BY <1>6 DEF Cancel, Return, Awaiting
<1>7. ASSUME NEW q \in Query, NEW i \in Id, SelectEffect(q, i)
      PROVE  OnlyCancelledLeaves'
  <2>1. ASSUME NEW s \in Sock, NEW j \in Id, pending'[s][j] # NoQuery,
               s # sock[q] \/ j # i
        PROVE  pending'[s][j] = pending[s][j] /\ pending[s][j] # q
    <3>1. pending'[s][j] = pending[s][j]
      BY <1>7, <2>1 DEF SelectEffect
    <3>2. pc[q] \notin {"cancelled", "send", "wait", "broken", "expired"}
      BY <1>7 DEF SelectEffect
    <3>3. pending[s][j] # q
      BY <3>2
    <3>4. QED
      BY <3>1, <3>3
  <2>2. ASSUME NEW s \in Sock, NEW j \in Id, pending'[s][j] # NoQuery
        PROVE  \/ pc'[pending'[s][j]] = "cancelled"
               \/ /\ pc'[pending'[s][j]] \in {"send", "wait", "broken", "expired"}
                  /\ sock'[pending'[s][j]] = s /\ qid'[pending'[s][j]] = j
    <3>1. CASE s = sock[q] /\ j = i
      BY <1>7, <2>2, <3>1 DEF SelectEffect
    <3>2. CASE s # sock[q] \/ j # i
      <4>1. /\ pending'[s][j] = pending[s][j] /\ pending[s][j] # q
            /\ pending[s][j] \in Query
        BY <2>1, <2>2, <3>2
      <4>2. /\ pc'[pending[s][j]] = pc[pending[s][j]]
            /\ sock'[pending[s][j]] = sock[pending[s][j]]
            /\ qid'[pending[s][j]] = qid[pending[s][j]]
        BY <1>7, <4>1 DEF SelectEffect
      <4>3. QED
        BY <4>1, <4>2
    <3>3. QED
      BY <3>1, <3>2
  <2>3. QED
    BY <2>2
<1>8. ASSUME NEW q \in Query, Send(q) PROVE OnlyCancelledLeaves'
  BY <1>8 DEF Send
<1>9. ASSUME NEW q \in Query, SendFails(q) \/ RecvError(q) \/ Timeout(q)
      PROVE  OnlyCancelledLeaves'
  BY <1>9 DEF SendFails, RecvError, Timeout, Closed
<1>10. ASSUME NEW q \in Query, RemoveBroken(q) PROVE OnlyCancelledLeaves'
  BY <1>10 DEF RemoveBroken, Removed
<1>11. ASSUME NEW q \in Query, RemoveExpired(q) PROVE OnlyCancelledLeaves'
  BY <1>11 DEF RemoveExpired, Removed, Return
<1>12. ASSUME NEW q \in Query, Invalidate(q) PROVE OnlyCancelledLeaves'
  BY <1>12 DEF Invalidate, Return
<1>13. ASSUME NEW s \in Sock, NEW i \in Id, NEW asked \in Query,
              Receive(s, i, asked)
       PROVE  OnlyCancelledLeaves'
  BY <1>13 DEF Receive
<1>14. ASSUME NEW s \in Sock, SocketError(s) PROVE OnlyCancelledLeaves'
  BY <1>14 DEF SocketError
<1>15. CASE UNCHANGED vars
  BY <1>15 DEF vars
<1>16. QED
  BY <1>0, <1>1, <1>2, <1>3, <1>4, <1>5, <1>6, <1>7, <1>8, <1>9, <1>10,
     <1>11, <1>12, <1>13, <1>14, <1>15 DEF Next, Step

---------------------------------------------------------------------------
\* The new pool satisfies the invariant: nothing is registered or on the wire.
LEMMA InvInit == Init => IInv
<1> SUFFICES ASSUME Init PROVE IInv
  OBVIOUS
<1>1. TypeOK
  BY TypeInit
<1>2. QED
  BY <1>1, NumIdsAssumption, QueryAssumption
     DEF Init, IInv, TypeOK, SocketOrder, IdsBelow, HoldersApart, SlotApart,
         WireOwned, ReplyTookEntry, OwnAnswer, SenderKept,
         OnlyCancelledLeaves, RetryOnFreshSocket, Holder, OnSocket, Fresh

\* Every step of query(), the receive loop and the callers keeps the invariant.
LEMMA InvStep == IInv /\ [Next]_vars => IInv'
<1>1. IInv /\ [Next]_vars => TypeOK'
  BY TypeStep DEF IInv
<1>2. QED
  BY <1>1, SocketOrderStep, RetryOnFreshSocketStep, IdsBelowStep,
     HoldersApartStep, SlotApartStep, WireOwnedStep, ReplyTookEntryStep,
     OwnAnswerStep, SenderKeptStep, OnlyCancelledLeavesStep DEF IInv

\* IInv holds in every state of the pool, whatever the callers, the network
\* and the sockets do.
THEOREM Invariance == Spec => []IInv
BY InvInit, InvStep, PTL DEF Spec

\* The state of UdpPool and of its calls is always well typed; in particular
\* a call that registers, sends or cleans up has a socket to do it on.
THEOREM TypeCorrect == Spec => []TypeOK
<1>1. IInv => TypeOK
  BY DEF IInv
<1>2. QED
  BY <1>1, Invariance, PTL

\* query() hands a caller the answer to its own question as long as the id
\* counter of its socket has not gone round, however late, often or out of
\* order answers come and whoever was cancelled.
THEOREM AnswersAreOwn == Spec => []OwnAnswer
<1>1. IInv => OwnAnswer
  BY DEF IInv
<1>2. QED
  BY <1>1, Invariance, PTL

\* Under the same condition no call's clean-up (remove of a qid) closes the
\* receiver of another call: only the receive loop's exit does.
THEOREM SendersAreKept == Spec => []SenderKept
<1>1. IInv => SenderKept
  BY DEF IInv
<1>2. QED
  BY <1>1, Invariance, PTL

\* Ids leak from the pending table only through futures dropped by the
\* caller: every return of query() has cleaned up, for any number of ids.
THEOREM LeaksAreCancellations == Spec => []OnlyCancelledLeaves
<1>1. IInv => OnlyCancelledLeaves
  BY DEF IInv
<1>2. QED
  BY <1>1, Invariance, PTL

\* A retry of query() never uses the socket its first attempt failed on.
THEOREM RetriesAreFresh == Spec => []RetryOnFreshSocket
<1>1. IInv => RetryOnFreshSocket
  BY DEF IInv
<1>2. QED
  BY <1>1, Invariance, PTL

\* A step in which no call returns is none of Exchange, or one that wears the
\* ids out: what an ended call of query() returned stays, and counters only grow.
LEMMA QuietStep ==
    ASSUME \A p \in Query : /\ pc[p] \in Final <=> pc'[p] \in Final
                            /\ pc[p] \in Final => pc'[p] = pc[p] /\ reply'[p] = reply[p],
           Worn => Worn'
    PROVE  [Promise!Next]_(Promise!vars)
<1>1. Ended' = Ended /\ Got' = Got
  <2>1. \A p \in Query :
            /\ IF pc'[p] \in Final THEN pc'[p] = pc[p] /\ pc[p] \in Final ELSE pc[p] \notin Final
            /\ (pc'[p] = "ok") = (pc[p] = "ok")
            /\ pc[p] = "ok" => reply'[p] = reply[p]
    BY DEF Final
  <2>2. QED
    BY <2>1 DEF Ended, Got
<1>2. CASE Worn' = Worn
  BY <1>1, <1>2 DEF Promise!vars
<1>3. CASE Worn' # Worn
  <2>1. Worn' = TRUE
    BY <1>3 DEF Worn
  <2>2. Promise!WearOut
    BY <1>1, <2>1 DEF Promise!WearOut
  <2>3. QED
    BY <2>2 DEF Promise!Next
<1>4. QED
  BY <1>2, <1>3

\* A step in which one call of query() ends is that call's end in Exchange.
LEMMA EndStep ==
    ASSUME pc \in [Query -> PC], NEW q \in Query, pc[q] \notin Final,
           NEW r \in Final, pc' = [pc EXCEPT ![q] = r],
           \A p \in Query : p # q => reply'[p] = reply[p],
           issued' = issued,
           r = "ok" => reply'[q] = q \/ (Worn /\ reply'[q] \in Query)
    PROVE  Promise!Next
<1>1. Worn' = Worn
  BY DEF Worn
<1>2. Ended[q] = "asking" /\ Ended' = [Ended EXCEPT ![q] = r]
  BY DEF Ended, Final
<1>3. CASE r = "ok"
  <2>1. reply'[q] \in Query /\ (reply'[q] = q \/ Worn)
    BY <1>3
  <2>2. Got' = [Got EXCEPT ![q] = reply'[q]]
    BY <1>3 DEF Got, Final
  <2>3. Promise!Return(q)
    BY <1>1, <1>2, <1>3, <2>1, <2>2 DEF Promise!Return
  <2>4. QED
    BY <2>3 DEF Promise!Next
<1>4. CASE r # "ok"
  <2>1. Got' = Got
    BY <1>4 DEF Got, Final
  <2>2. r \in {"failed", "cancelled"}
    BY <1>4 DEF Final
  <2>3. Promise!GiveUp(q)
    BY <1>1, <1>2, <2>1, <2>2 DEF Promise!GiveUp
  <2>4. QED
    BY <2>3 DEF Promise!Next
<1>5. QED
  BY <1>3, <1>4

\* Every step of query(), the receive loops and the callers is one of Exchange.
LEMMA ExchangeStep == IInv /\ TypeOK' /\ [Next]_vars => [Promise!Next]_(Promise!vars)
<1> SUFFICES ASSUME IInv, TypeOK', [Next]_vars PROVE [Promise!Next]_(Promise!vars)
  OBVIOUS
<1> USE QueryAssumption DEF IInv, TypeOK, Final, callVars, sockVars
<1>1. ASSUME NEW q \in Query, ReadInner(q) PROVE [Promise!Next]_(Promise!vars)
  BY <1>1, QuietStep DEF ReadInner, Worn
<1>2. ASSUME NEW q \in Query, BindSocket(q) PROVE [Promise!Next]_(Promise!vars)
  BY <1>2, QuietStep DEF BindSocket, Worn
<1>3. ASSUME NEW q \in Query, BindFails(q) PROVE [Promise!Next]_(Promise!vars)
  BY <1>3, EndStep DEF BindFails, Return
<1>4. ASSUME NEW q \in Query, SelectId(q) PROVE [Promise!Next]_(Promise!vars)
  <2>1. PICK i \in Id : SelectEffect(q, i)
    BY <1>4, SelectIdFacts
  <2>2. Worn => Worn'
    BY <2>1, NumIdsAssumption DEF Worn, SelectEffect
  <2>3. \A p \in Query : /\ pc[p] \in Final <=> pc'[p] \in Final
                         /\ pc[p] \in Final => pc'[p] = pc[p] /\ reply'[p] = reply[p]
    BY <2>1 DEF SelectEffect
  <2>4. QED
    BY <2>2, <2>3, QuietStep
<1>5. ASSUME NEW q \in Query, Send(q) PROVE [Promise!Next]_(Promise!vars)
  BY <1>5, QuietStep DEF Send, Worn
<1>6. ASSUME NEW q \in Query, SendFails(q) \/ RecvError(q) \/ Timeout(q)
      PROVE  [Promise!Next]_(Promise!vars)
  BY <1>6, QuietStep DEF SendFails, RecvError, Timeout, Worn
<1>7. ASSUME NEW q \in Query, TakeReply(q) PROVE [Promise!Next]_(Promise!vars)
  <2>1. CASE pc' = [pc EXCEPT ![q] = "tcp"]
    BY <1>7, <2>1, QuietStep DEF TakeReply, Worn
  <2>2. ASSUME NEW r \in {"ok", "failed"}, Return(q, r)
        PROVE  [Promise!Next]_(Promise!vars)
    <3>1. sock[q] \in Sock
      BY <1>7, MaxSockAssumption DEF TakeReply, SocketOrder, OnSocket, Holder, Sock
    <3>2. reply[q] = q \/ Worn
      BY <1>7, <3>1, NumIdsAssumption DEF TakeReply, OwnAnswer, Worn
    <3>3. reply[q] \in Query
      BY <1>7 DEF TakeReply
    <3>4. QED
      BY <1>7, <2>2, <3>2, <3>3, EndStep DEF TakeReply, Return
  <2>3. QED
    BY <1>7, <2>1, <2>2 DEF TakeReply
<1>8. ASSUME NEW q \in Query, RemoveBroken(q) PROVE [Promise!Next]_(Promise!vars)
  BY <1>8, QuietStep DEF RemoveBroken, Worn
<1>9. ASSUME NEW q \in Query, RemoveExpired(q) PROVE [Promise!Next]_(Promise!vars)
  BY <1>9, EndStep DEF RemoveExpired, Return
<1>10. ASSUME NEW q \in Query, Invalidate(q) PROVE [Promise!Next]_(Promise!vars)
  <2>1. CASE lost[q] = 0
    BY <1>10, <2>1, QuietStep DEF Invalidate, Worn
  <2>2. CASE lost[q] # 0
    BY <1>10, <2>2, EndStep DEF Invalidate, Return
  <2>3. QED
    BY <2>1, <2>2
<1>11. ASSUME NEW q \in Query, TcpQuery(q) PROVE [Promise!Next]_(Promise!vars)
  <2>1. CASE Return(q, "ok") /\ reply' = [reply EXCEPT ![q] = q]
    BY <1>11, <2>1, EndStep DEF TcpQuery, Return
  <2>2. CASE Return(q, "failed") /\ UNCHANGED reply
    BY <1>11, <2>2, EndStep DEF TcpQuery, Return
  <2>3. QED
    BY <1>11, <2>1, <2>2 DEF TcpQuery
<1>12. ASSUME NEW q \in Query, Cancel(q) PROVE [Promise!Next]_(Promise!vars)
  BY <1>12, EndStep DEF Cancel, Awaiting, Return
<1>13. ASSUME NEW s \in Sock, NEW i \in Id, NEW asked \in Query,
              Receive(s, i, asked)
       PROVE  [Promise!Next]_(Promise!vars)
  BY <1>13, QuietStep DEF Receive, Worn
<1>14. ASSUME NEW s \in Sock, SocketError(s) PROVE [Promise!Next]_(Promise!vars)
  BY <1>14, QuietStep DEF SocketError, Worn
<1>15. CASE UNCHANGED vars
  BY <1>15, QuietStep DEF vars, Worn
<1>16. QED
  BY <1>1, <1>2, <1>3, <1>4, <1>5, <1>6, <1>7, <1>8, <1>9, <1>10, <1>11,
     <1>12, <1>13, <1>14, <1>15 DEF Next, Step

\* The pool keeps the promise of Exchange, whatever its calls, sockets and ids: a
\* call of query() ends once, and until ids come round with its own answer.
THEOREM PoolImplementsExchange == Spec => ImplementsExchange
<1>1. Init => Promise!Init
  BY NumIdsAssumption DEF Init, Promise!Init, Ended, Got, Worn, Final, Sock
<1>2. IInv /\ [Next]_vars => [Promise!Next]_(Promise!vars)
  BY InvStep, ExchangeStep DEF IInv
<1>3. QED
  BY <1>1, <1>2, Invariance, PTL DEF Spec, ImplementsExchange, Promise!Spec

---------------------------------------------------------------------------
\* A number is a multiple of n and its remainder, in one way.
LEMMA Remainder ==
    ASSUME NEW n \in Nat \ {0}, NEW d \in Int, NEW j \in 0..(n - 1)
    PROVE  (d * n + j) % n = j
<1> DEFINE x == d * n + j
           e == x \div n
           r == x % n
<1>0. d * n \in Int
  OBVIOUS
<1>1. x \in Int
  BY <1>0
<1>2. e \in Int /\ r \in 0..(n-1) /\ x = n * e + r
  BY <1>1
<1>3. n * (d - e) = r - j
  BY <1>0, <1>1, <1>2
<1> HIDE DEF x, e, r
<1>4. CASE d - e >= 1
  <2>1. n * (d - e) >= n
    BY <1>2, <1>4
  <2>2. QED
    BY <1>2, <1>3, <2>1
<1>5. CASE d - e <= -1
  <2>1. n * (d - e) <= -n
    BY <1>2, <1>5
  <2>2. QED
    BY <1>2, <1>3, <2>1
<1>6. CASE d = e
  BY <1>2, <1>3, <1>6 DEF x, r
<1>7. QED
  BY <1>2, <1>4, <1>5, <1>6

\* Counting on from wherever it stands, next_id comes by every id there is.
LEMMA CandidatesCoverIds ==
    ASSUME NEW s, issued[s] \in Nat, NEW j \in Id
    PROVE  \E t \in 0..(NumIds - 1) : Candidate(s, t) = j
<1> DEFINE r == issued[s] % NumIds
           d == issued[s] \div NumIds
<1>1. /\ r \in 0..(NumIds - 1) /\ d \in Int /\ issued[s] = NumIds * d + r
      /\ j \in 0..(NumIds - 1) /\ NumIds * d \in Int
  <2>1. r \in 0..(NumIds - 1) /\ d \in Int /\ issued[s] = NumIds * d + r
    BY NumIdsAssumption
  <2>2. QED
    BY <2>1, NumIdsAssumption DEF Id
<1> HIDE DEF r, d
<1>2. CASE j >= r
  <2>1. issued[s] + (j - r) = d * NumIds + j
    BY <1>1, NumIdsAssumption
  <2>2. (issued[s] + (j - r)) % NumIds = j
    BY <1>1, <2>1, Remainder, NumIdsAssumption
  <2>3. j - r \in 0..(NumIds - 1)
    BY <1>1, <1>2, NumIdsAssumption
  <2>4. QED
    BY <2>2, <2>3 DEF Candidate
<1>3. CASE j < r
  <2>1. issued[s] + (j + NumIds - r) = (d + 1) * NumIds + j
    BY <1>1, NumIdsAssumption
  <2>2. (issued[s] + (j + NumIds - r)) % NumIds = j
    BY <1>1, <2>1, Remainder, NumIdsAssumption
  <2>3. j + NumIds - r \in 0..(NumIds - 1)
    BY <1>1, <1>3, NumIdsAssumption
  <2>4. QED
    BY <2>2, <2>3 DEF Candidate
<1>4. QED
  BY <1>1, <1>2, <1>3

\* A step other than SelectId takes senders out of the table and puts none in.
LEMMA TableShrinks ==
    ASSUME IInv, [Next]_vars, \A q \in Query : ~SelectId(q), NEW s \in Sock, NEW i \in Id
    PROVE  pending'[s][i] \in {NoQuery, pending[s][i]}
<1> USE DEF IInv, TypeOK
<1>1. ASSUME NEW q \in Query, Step(q) \/ Cancel(q)
      PROVE  pending'[s][i] \in {NoQuery, pending[s][i]}
  <2>1. pending' = pending \/ pending' = Removed(q)
    BY <1>1 DEF Step, Cancel, ReadInner, BindSocket, BindFails, Send, SendFails, TakeReply,
       RecvError, Timeout, RemoveBroken, RemoveExpired, Invalidate, TcpQuery
  <2>2. QED
    BY <2>1 DEF Removed
<1>2. ASSUME NEW x \in Sock, NEW k \in Id, NEW asked \in Query, Receive(x, k, asked)
      PROVE  pending'[s][i] \in {NoQuery, pending[s][i]}
  BY <1>2 DEF Receive
<1>3. ASSUME NEW x \in Sock, SocketError(x)
      PROVE  pending'[s][i] \in {NoQuery, pending[s][i]}
  BY <1>3 DEF SocketError
<1>4. CASE UNCHANGED vars
  BY <1>4 DEF vars
<1>5. QED
  BY <1>1, <1>2, <1>3, <1>4 DEF Next

\* select_id registers over another caller's sender only after it has been by
\* every id of the socket.
LEMMA OverwriteStep ==
    ASSUME IInv, [Next]_vars, NEW s \in Sock, NEW i \in Id,
           pending[s][i] # NoQuery, pending'[s][i] \notin {NoQuery, pending[s][i]},
           NEW j \in Id
    PROVE  pending[s][j] # NoQuery
<1>1. PICK q \in Query : SelectId(q)
  BY TableShrinks
<1>2. sock[q] \in Sock /\ issued[sock[q]] \in Nat
  BY <1>1, MaxSockAssumption DEF SelectId, IInv, SocketOrder, OnSocket, TypeOK, Sock
<1>3. PICK t \in 0..(NumIds - 1) :
          /\ StopsAt(sock[q], t)
          /\ pending' = [pending EXCEPT ![sock[q]][Candidate(sock[q], t)] = q]
  BY <1>1 DEF SelectId
<1>4. s = sock[q] /\ i = Candidate(s, t)
  BY <1>2, <1>3 DEF IInv, TypeOK
<1>5. t = NumIds - 1 /\ \A u \in 0..(t - 1) : pending[s][Candidate(s, u)] # NoQuery
  BY <1>3, <1>4 DEF StopsAt
<1>6. PICK u \in 0..(NumIds - 1) : Candidate(s, u) = j
  BY <1>2, <1>4, CandidatesCoverIds
<1>7. u = t \/ u \in 0..(t - 1)
  BY <1>5, <1>6, NumIdsAssumption
<1>8. QED
  BY <1>4, <1>5, <1>6, <1>7

\* Registering a sender replaces another caller's only when not one id of the
\* socket is free, for any number of ids and wherever the counter stands.
THEOREM OverwritesAreForced == Spec => OverwritesOnlyWhenFull
<1> DEFINE A == \A s \in Sock, i \in Id :
                  /\ pending[s][i] # NoQuery
                  /\ pending'[s][i] \notin {NoQuery, pending[s][i]}
                  => \A j \in Id : pending[s][j] # NoQuery
<1>1. IInv /\ [Next]_vars => [A]_vars
  BY OverwriteStep
<1>2. QED
  BY <1>1, Invariance, PTL DEF Spec, OverwritesOnlyWhenFull
=============================================================================
