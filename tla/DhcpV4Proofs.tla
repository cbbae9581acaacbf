---------------------------- MODULE DhcpV4Proofs ----------------------------
(***************************************************************************)
(* Proofs about DhcpV4, in three layers, each an inductive invariant that  *)
(* rests on the ones before it:                                            *)
(*                                                                         *)
(*   TypeInv       what the tables, the file and the tasks may hold;       *)
(*   CalmInv       that a lease a client believes it has is in the store   *)
(*                 and, unless the file is cut off, on disk, and its name  *)
(*                 registered, while no client crosses itself and no       *)
(*                 restart reads a file that was cut off;                  *)
(*   BlamelessInv  that an address is claimed by one client, from its      *)
(*                 offer through the grant to the lease, while none of     *)
(*                 the hazards of `blame' has happened.                    *)
(***************************************************************************)
EXTENDS DhcpV4, TLAPS

Confirming == {"confirm", "grant", "publish"}
Releasing == {"remove", "unpublish"}

Granting(m) == {t \in Task : task[t].mac = m /\ task[t].at = "grant"}

TaskState == [at : At, mac : Mac \cup {NoMac}, ip : 0..PoolSize, left : Time]
OfferState == [ip : 0..PoolSize, left : 0..OfferTime]

\* A busy task has a client, and an address when its step needs one.
Working ==
    \A t \in Task :
        IF task[t].at = "idle" THEN task[t].mac = NoMac
        ELSE /\ task[t].mac \in Mac
             /\ task[t].at \in {"offer"} \cup Confirming => task[t].ip \in Ip

\* Only a client with a binding has a static lease.
StaticOnly ==
    \A m \in Mac : (leases[m].static \/ file[m].static) => StaticIp[m] # 0

\* A client that may not ask for an address any more has no offer.
Offers == \A m \in Mac : offer[m].left > 0 \/ offer[m] = NoOffer

TypeInv == TypeOK /\ Working /\ StaticOnly /\ Offers

\* The tasks of a client serve one REQUEST at a time, or a RELEASE.
Alone ==
    \A t, u \in Task :
        (task[t].mac = task[u].mac /\ task[t].at \in Confirming) =>
            /\ task[u].at \notin Releasing
            /\ task[u].at \in Confirming => task[u].ip = task[t].ip

\* A client that asks for an address, or gives its own up, has no other.
GaveUp ==
    \A t \in Task :
        /\ task[t].at \in Confirming => bound[task[t].mac].ip \in {0, task[t].ip}
        /\ task[t].at \in Releasing => bound[task[t].mac].ip = 0

\* The records that have to keep what a client was ACKed.
Records(m) == {leases[m]} \cup {l \in {file[m]} : ~torn}

\* Before an ACK is sent the lease is in the store and on disk, where another
\* client's write may cut it off again.
Flushed ==
    \A t \in Task : task[t].at = "publish" =>
        \A l \in Records(task[t].mac) :
            l.ip = task[t].ip /\ ~l.static /\ l.left >= task[t].left

\* Record l covers the lease b of client m: for good, and if it is to be replaced,
\* by one that lasts.
Covers(l, b, m) ==
    /\ l.ip = b.ip
    /\ IF l.static THEN \A t \in Granting(m) : task[t].left >= b.left
       ELSE l.left >= b.left

Recorded ==
    \A m \in Mac :
        (bound[m].ip # 0 /\ (StaticIp[m] = 0 \/ "overlay" \notin blame)) =>
            /\ bound[m].left > 0
            /\ Covers(leases[m], bound[m], m)
            /\ torn \/ Covers(file[m], bound[m], m)

OwnName(m) == NameOf[m] # NoName /\ \A c \in Mac \ {m} : NameOf[c] # NameOf[m]

Named ==
    \A m \in Mac :
        (bound[m].ip # 0 /\ StaticIp[m] = 0 /\ OwnName(m)) =>
            hosts[NameOf[m]] = bound[m].ip

Calm == blame \cap {"crossed", "torn"} = {}
CalmInv == Calm => Alone /\ GaveUp /\ Flushed /\ Recorded /\ Named

\* What gives a client a right to an address.
Claims(m, ip) ==
    \/ m \in Holders(leases, ip)
    \/ \E t \in Task : task[t].mac = m /\ task[t].ip = ip /\ task[t].at \in {"offer", "grant"}
    \/ offer[m].ip = ip /\ offer[m].left > 0

ClaimsApart == \A m, c \in Mac, ip \in Ip : Claims(m, ip) /\ Claims(c, ip) => m = c

FileApart == \A m, c \in Mac, ip \in Ip : m \in Holders(file, ip) /\ c \in Holders(file, ip) => m = c

\* What a client was offered is still reserved for it: by the offer, by the
\* task that turns it into a lease, or by the lease.
Reserved ==
    \A m \in Mac : offer[m].left > 0 =>
        \/ \E o \in offered : o.ip = offer[m].ip /\ o.left >= offer[m].left
        \/ \E t \in Granting(m) : task[t].ip = offer[m].ip /\ task[t].left >= offer[m].left
        \/ /\ leases[m].ip = offer[m].ip /\ leases[m].left >= offer[m].left
           /\ \A t \in Granting(m) : task[t].ip = offer[m].ip
           /\ \A t \in Task : task[t].mac = m => task[t].at # "remove"

BlamelessInv == (Sensible /\ blame = {}) => ClaimsApart /\ FileApart /\ Reserved

---------------------------------------------------------------------------
(* Records *)

LEMMA LeaseParts ==
    ASSUME NEW l \in Lease
    PROVE  /\ l = [ip |-> l.ip, left |-> l.left, static |-> l.static]
           /\ l.ip \in 0..PoolSize /\ l.left \in Time /\ l.static \in BOOLEAN
BY DEF Lease

LEMMA LeaseMade ==
    ASSUME NEW i \in 0..PoolSize, NEW n \in Time, NEW s \in BOOLEAN
    PROVE  [ip |-> i, left |-> n, static |-> s] \in Lease
BY DEF Lease

LEMMA GrantedLease ==
    ASSUME NEW i \in Ip, NEW n \in Time
    PROVE  [ip |-> i, left |-> n, static |-> FALSE] \in Lease
<1>1. i \in 0..PoolSize
  BY PoolAssumption DEF Ip
<1>2. QED
  BY <1>1 DEF Lease

LEMMA OlderLease ==
    ASSUME NEW l \in Lease
    PROVE  /\ Older(l) \in Lease
           /\ Older(l).ip = l.ip /\ Older(l).static = l.static
           /\ Older(l).left = IF l.left > 0 THEN l.left - 1 ELSE 0
<1>1. Older(l) = [ip |-> l.ip, left |-> IF l.left > 0 THEN l.left - 1 ELSE 0, static |-> l.static]
  BY LeaseParts DEF Older
<1>2. (IF l.left > 0 THEN l.left - 1 ELSE 0) \in Time
  BY LeaseParts, TimeAssumption DEF Time
<1>3. QED
  BY <1>1, <1>2, LeaseParts, LeaseMade

LEMMA ExpiringLease ==
    ASSUME NEW l \in Lease
    PROVE  /\ Expiring(l, NoLease) \in Lease
           /\ IF l.left > 1 THEN /\ Expiring(l, NoLease).ip = l.ip
                                 /\ Expiring(l, NoLease).left = l.left - 1
              ELSE Expiring(l, NoLease) = NoLease
<1>1. NoLease \in Lease
  BY PoolAssumption, TimeAssumption DEF Lease, NoLease, Time
<1>2. QED
  BY <1>1, OlderLease, LeaseParts, TimeAssumption DEF Expiring, Time

LEMMA ExpiringOffer ==
    ASSUME NEW l \in OfferState
    PROVE  /\ Expiring(l, NoOffer) \in OfferState
           /\ IF l.left > 1 THEN /\ Expiring(l, NoOffer).ip = l.ip
                                 /\ Expiring(l, NoOffer).left = l.left - 1
              ELSE Expiring(l, NoOffer) = NoOffer
<1>1. NoOffer \in OfferState
  BY PoolAssumption, TimeAssumption DEF OfferState, NoOffer
<1>2. CASE l.left > 1
  <2>1. Expiring(l, NoOffer) = [ip |-> l.ip, left |-> l.left - 1]
    BY <1>2 DEF Expiring, Older, OfferState
  <2>2. QED
    BY <1>2, <2>1, TimeAssumption DEF OfferState
<1>3. QED
  BY <1>1, <1>2 DEF Expiring

LEMMA OlderOffered ==
    ASSUME NEW o \in [ip : Ip, left : 0..OfferTime]
    PROVE  /\ Older(o) \in [ip : Ip, left : 0..OfferTime]
           /\ Older(o).ip = o.ip
           /\ Older(o).left = IF o.left > 0 THEN o.left - 1 ELSE 0
<1>1. Older(o) = [ip |-> o.ip, left |-> IF o.left > 0 THEN o.left - 1 ELSE 0]
  BY DEF Older
<1>2. QED
  BY <1>1, TimeAssumption

LEMMA OlderTask ==
    ASSUME NEW a \in TaskState
    PROVE  /\ Older(a) \in TaskState
           /\ Older(a).at = a.at /\ Older(a).mac = a.mac /\ Older(a).ip = a.ip
           /\ Older(a).left = IF a.left > 0 THEN a.left - 1 ELSE 0
<1>1. Older(a) = [at |-> a.at, mac |-> a.mac, ip |-> a.ip,
                  left |-> IF a.left > 0 THEN a.left - 1 ELSE 0]
  BY DEF Older, TaskState
<1>2. QED
  BY <1>1, TimeAssumption DEF TaskState, Time

---------------------------------------------------------------------------
(* Tasks: what each way of changing one does *)

LEMMA SpawnParts ==
    ASSUME TypeOK, NEW t \in Task, NEW at \in At, NEW m \in Mac, NEW ip \in 0..PoolSize,
           Spawn(t, at, m, ip)
    PROVE  /\ task' \in [Task -> TaskState]
           /\ task[t].at = "idle"
           /\ task'[t].at = at /\ task'[t].mac = m /\ task'[t].ip = ip /\ task'[t].left = 0
           /\ \A u \in Task \ {t} : task'[u] = task[u]
           /\ blame \subseteq blame' /\ blame' \subseteq Reason
           /\ "crossed" \notin blame' => ~Crosses(at, m, ip)
<1>1. [at |-> at, mac |-> m, ip |-> ip, left |-> 0] \in TaskState
  BY TimeAssumption DEF TaskState, Time
<1>2. QED
  BY <1>1 DEF TypeOK, TaskState, Spawn, Reason

LEMMA DoneParts ==
    ASSUME TypeOK, NEW t \in Task, Done(t)
    PROVE  /\ task' \in [Task -> TaskState]
           /\ task'[t] = Idle /\ task'[t].at = "idle"
           /\ \A u \in Task \ {t} : task'[u] = task[u]
<1>1. Idle \in TaskState
  BY TimeAssumption, PoolAssumption DEF TaskState, Time, Idle, At
<1>2. QED
  BY <1>1 DEF TypeOK, TaskState, Done, Idle

LEMMA GoToParts ==
    ASSUME TypeOK, NEW t \in Task, NEW at \in At, GoTo(t, at)
    PROVE  /\ task' \in [Task -> TaskState]
           /\ task'[t].at = at /\ task'[t].mac = task[t].mac /\ task'[t].ip = task[t].ip
           /\ task'[t].left = task[t].left
           /\ \A u \in Task \ {t} : task'[u] = task[u]
BY DEF TypeOK, TaskState, GoTo

---------------------------------------------------------------------------
(* Types *)

LEMMA OverlaidParts ==
    ASSUME NEW store \in [Mac -> Lease]
    PROVE  /\ Overlaid(store) \in [Mac -> Lease]
           /\ \A m \in Mac : Overlaid(store)[m] = IF StaticIp[m] # 0 THEN Static(m) ELSE store[m]
           /\ \A m \in Mac : /\ Static(m) \in Lease
                             /\ Static(m).ip = StaticIp[m] /\ Static(m).static /\ Static(m).left = 0
<1>1. ASSUME NEW m \in Mac
      PROVE  /\ Static(m) \in Lease
             /\ Static(m).ip = StaticIp[m] /\ Static(m).static /\ Static(m).left = 0
  BY StaticAssumption, TimeAssumption DEF Static, Lease, Time
<1>2. QED
  BY <1>1 DEF Overlaid

LEMMA NoLeaseParts ==
    /\ NoLease \in Lease /\ NoLease.ip = 0 /\ NoLease.left = 0 /\ ~NoLease.static
    /\ NoOffer \in OfferState /\ NoOffer.ip = 0 /\ NoOffer.left = 0
BY PoolAssumption, TimeAssumption DEF Lease, NoLease, Time, OfferState, NoOffer

\* serve() leaves a well-typed store, in memory and on disk.
LEMMA ServeTypes ==
    ASSUME NEW store \in [Mac -> Lease], \A m \in Mac : store[m].static => StaticIp[m] # 0,
           leases' = Overlaid(store), file' = Overlaid(store)
    PROVE  leases' \in [Mac -> Lease] /\ file' \in [Mac -> Lease] /\ StaticOnly'
BY OverlaidParts DEF StaticOnly

LEMMA TypeInit == Init => TypeInv
<1> SUFFICES ASSUME Init PROVE TypeInv
  OBVIOUS
<1> DEFINE none == Nothing
<1>1. none \in [Mac -> Lease] /\ \A m \in Mac : ~none[m].static
  BY NoLeaseParts DEF Nothing
<1>2. leases = Overlaid(none) /\ file = Overlaid(none) /\ torn \in BOOLEAN
  BY DEF Init
<1> HIDE DEF none
<1>3. leases \in [Mac -> Lease] /\ file \in [Mac -> Lease] /\ StaticOnly
  BY <1>1, <1>2, OverlaidParts DEF StaticOnly
<1>4. task \in [Task -> TaskState] /\ Working
  <2>1. Idle \in TaskState /\ Idle.at = "idle" /\ Idle.mac = NoMac
    BY TimeAssumption, PoolAssumption DEF TaskState, Time, Idle, At
  <2>2. QED
    BY <2>1 DEF Init, Working
<1>5. bound \in [Mac -> Lease] /\ offer \in [Mac -> OfferState] /\ Offers
  BY NoLeaseParts DEF Init, Offers
<1>6. QED
  BY <1>2, <1>3, <1>4, <1>5 DEF TypeInv, TypeOK, Init, TaskState, OfferState, Reason

\* A task that moves on leaves the others as they are.
LEMMA WorkingMoves ==
    ASSUME TypeInv, NEW t \in Task, task' \in [Task -> TaskState],
           \A u \in Task \ {t} : task'[u] = task[u],
           IF task'[t].at = "idle" THEN task'[t].mac = NoMac
           ELSE /\ task'[t].mac \in Mac
                /\ task'[t].at \in {"offer"} \cup Confirming => task'[t].ip \in Ip
    PROVE  Working'
BY DEF TypeInv, Working

LEMMA SpawnTypes ==
    ASSUME TypeInv, NEW t \in Task, NEW m \in Mac, NEW ip \in 0..PoolSize,
           NEW at \in {"allocate", "confirm", "remove"}, at = "confirm" => ip \in Ip,
           Spawn(t, at, m, ip), UNCHANGED <<offered, leases, file, torn, hosts>>,
           offer' = offer \/ offer' = [offer EXCEPT ![m] = NoOffer],
           bound' = bound \/ bound' = [bound EXCEPT ![m] = NoLease]
    PROVE  TypeInv'
<1>1. at \in At /\ at # "idle"
  BY DEF At
<1>2. /\ task' \in [Task -> TaskState] /\ blame' \subseteq Reason
      /\ task'[t].at = at /\ task'[t].mac = m /\ task'[t].ip = ip
      /\ \A u \in Task \ {t} : task'[u] = task[u]
  BY <1>1, SpawnParts DEF TypeInv
<1>3. Working'
  BY <1>1, <1>2, WorkingMoves DEF Confirming
<1>4. offer' \in [Mac -> OfferState] /\ Offers'
  BY NoLeaseParts DEF TypeInv, TypeOK, OfferState, Offers
<1>5. bound' \in [Mac -> Lease]
  BY NoLeaseParts DEF TypeInv, TypeOK
<1>6. StaticOnly'
  BY DEF TypeInv, StaticOnly
<1>7. TypeOK'
  BY <1>2, <1>4, <1>5 DEF TypeInv, TypeOK, TaskState, OfferState
<1>8. QED
  BY <1>3, <1>4, <1>6, <1>7 DEF TypeInv

LEMMA AllocateTypes == ASSUME TypeInv, NEW t \in Task, Allocate(t) PROVE TypeInv'
<1>1. /\ task[t].at = "allocate" /\ task[t].mac \in Mac /\ task[t] \in TaskState
      /\ leases[task[t].mac] \in Lease
  BY DEF Allocate, TypeInv, Working, TypeOK, TaskState
<1>2. PICK ip \in Allocatable(task[t].mac, task[t].ip) :
        task' = [task EXCEPT ![t] = IF ip = 0 THEN Idle
                ELSE [at |-> "offer", mac |-> task[t].mac, ip |-> ip, left |-> 0]]
  BY DEF Allocate
<1>3. ip \in 0..PoolSize
  BY <1>1, <1>2, LeaseParts, PoolAssumption DEF Allocatable, Ip
<1>4. task' \in [Task -> TaskState] /\ Working'
  <2>1. CASE ip = 0
    <3>1. Done(t)
      BY <1>2, <2>1 DEF Done
    <3>2. QED
      BY <3>1, DoneParts, WorkingMoves DEF TypeInv, Idle
  <2>2. CASE ip # 0
    <3>1. task' = [task EXCEPT ![t] = [at |-> "offer", mac |-> task[t].mac, ip |-> ip,
                                       left |-> 0]]
      BY <1>2, <2>2
    <3>2. [at |-> "offer", mac |-> task[t].mac, ip |-> ip, left |-> 0] \in TaskState
      BY <1>1, <1>3, TimeAssumption DEF TaskState, At, Time
    <3>3. task' \in [Task -> TaskState] /\ \A u \in Task \ {t} : task'[u] = task[u]
      BY <3>1, <3>2 DEF TypeInv, TypeOK, TaskState
    <3>4. task'[t].at = "offer" /\ task'[t].mac = task[t].mac /\ task'[t].ip = ip
      BY <3>1, <1>1 DEF TypeInv, TypeOK
    <3>5. QED
      BY <1>1, <1>3, <2>2, <3>3, <3>4, WorkingMoves DEF Ip
  <2>3. QED
    BY <2>1, <2>2
<1>5. TypeOK'
  BY <1>4 DEF Allocate, LiveOffers, TypeInv, TypeOK, TaskState, Reason
<1>6. StaticOnly' /\ Offers'
  BY DEF Allocate, TypeInv, StaticOnly, Offers
<1>7. QED
  BY <1>4, <1>5, <1>6 DEF TypeInv

LEMMA OfferTypes == ASSUME TypeInv, NEW t \in Task, Offer(t) PROVE TypeInv'
<1>1. task[t].at = "offer" /\ task[t].mac \in Mac /\ task[t].ip \in Ip
  BY DEF Offer, TypeInv, Working
<1> DEFINE new == [ip |-> task[t].ip, left |-> OfferTime]
<1>2. /\ new \in OfferState /\ new \in [ip : Ip, left : 0..OfferTime]
      /\ new.left > 0
  BY <1>1, TimeAssumption, PoolAssumption DEF OfferState, Ip
<1>3. /\ offered' = offered \cup {new}
      /\ offer' = offer \/ offer' = [offer EXCEPT ![task[t].mac] = new]
      /\ Done(t)
  BY DEF Offer
<1> HIDE DEF new
<1>4. task' \in [Task -> TaskState] /\ Working'
  BY <1>3, DoneParts, WorkingMoves DEF TypeInv, Idle
<1>5. offer' \in [Mac -> OfferState] /\ Offers'
  BY <1>1, <1>2, <1>3, SMTT(30) DEF TypeInv, TypeOK, Offers, OfferState
<1>6. TypeOK'
  BY <1>2, <1>3, <1>4, <1>5 DEF Offer, TypeInv, TypeOK, TaskState, OfferState
<1>7. StaticOnly'
  BY DEF Offer, TypeInv, StaticOnly
<1>8. QED
  BY <1>4, <1>5, <1>6, <1>7 DEF TypeInv

LEMMA NakTypes ==
    ASSUME TypeInv, NEW t \in Task, task[t].mac \in Mac, Nak(t)
    PROVE  task' \in [Task -> TaskState] /\ Working' /\ bound' \in [Mac -> Lease]
<1>1. Done(t) /\ (bound' = bound \/ bound' = [bound EXCEPT ![task[t].mac] = NoLease])
  BY DEF Nak
<1>2. bound' \in [Mac -> Lease]
  BY <1>1, NoLeaseParts DEF TypeInv, TypeOK
<1>3. QED
  BY <1>1, <1>2, DoneParts, WorkingMoves DEF TypeInv, Idle

LEMMA ProbeFailsTypes == ASSUME TypeInv, NEW t \in Task, ProbeFails(t) PROVE TypeInv'
<1>1. task[t].mac \in Mac /\ Nak(t)
  BY DEF ProbeFails, TypeInv, Working
<1>2. task' \in [Task -> TaskState] /\ Working' /\ bound' \in [Mac -> Lease]
  BY <1>1, NakTypes
<1>3. TypeOK'
  BY <1>2 DEF ProbeFails, TypeInv, TypeOK, TaskState
<1>4. StaticOnly' /\ Offers'
  BY DEF ProbeFails, TypeInv, StaticOnly, Offers
<1>5. QED
  BY <1>2, <1>3, <1>4 DEF TypeInv

LEMMA WithdrawParts ==
    ASSUME TypeInv, NEW t \in Task, Withdraw(t)
    PROVE  /\ task' \in [Task -> TaskState]
           /\ task[t].at = "confirm" /\ task[t].mac \in Mac /\ task[t].ip \in Ip
           /\ task'[t].at = "grant" /\ task'[t].mac = task[t].mac /\ task'[t].ip = task[t].ip
           /\ task'[t].left = LeaseTime
           /\ \A u \in Task \ {t} : task'[u] = task[u]
<1> DEFINE new == [at |-> "grant", mac |-> task[t].mac, ip |-> task[t].ip, left |-> LeaseTime]
<1>1. /\ task[t] \in TaskState /\ task[t].at = "confirm" /\ task[t].mac \in Mac
      /\ task[t].ip \in Ip
      /\ task' = [task EXCEPT ![t] = new]
  BY DEF Withdraw, TypeInv, Working, TypeOK, TaskState, Confirming
<1>2. new \in TaskState
  BY <1>1, TimeAssumption DEF TaskState, At, Time
<1>3. QED
  BY <1>1, <1>2 DEF TypeInv, TypeOK, TaskState

LEMMA WithdrawTypes == ASSUME TypeInv, NEW t \in Task, Withdraw(t) PROVE TypeInv'
<1>1. task' \in [Task -> TaskState] /\ Working'
  BY WithdrawParts, WorkingMoves
<1>2. TypeOK'
  BY <1>1 DEF Withdraw, TypeInv, TypeOK, TaskState, Reason
<1>3. StaticOnly' /\ Offers'
  BY DEF Withdraw, TypeInv, StaticOnly, Offers
<1>4. QED
  BY <1>1, <1>2, <1>3 DEF TypeInv

\* A flush leaves a well-typed file, whether it fails or not.
LEMMA FileTypes ==
    ASSUME TypeInv, leases' \in [Mac -> Lease], Flush \/ FlushFails
    PROVE  file' \in [Mac -> Lease] /\ torn' \in BOOLEAN
BY NoLeaseParts DEF Flush, FlushFails, Nothing, TypeInv, TypeOK

\* A lease is recorded, never a static one, and the file holds the store, is as it was, or
\* is cut off.
LEMMA GrantParts ==
    ASSUME TypeInv, NEW t \in Task, Grant(t)
    PROVE  /\ task[t].at = "grant" /\ task[t].mac \in Mac /\ task[t].ip \in Ip
           /\ task[t].left \in Time
           /\ leases' \in [Mac -> Lease] /\ file' \in [Mac -> Lease]
           /\ leases'[task[t].mac].ip = task[t].ip
           /\ leases'[task[t].mac].left = task[t].left
           /\ ~leases'[task[t].mac].static
           /\ \A m \in Mac \ {task[t].mac} : leases'[m] = leases[m]
           /\ torn' \in BOOLEAN
           /\ \/ /\ Flush /\ bound' = bound
                 /\ task'[t].at = "publish" /\ task'[t].mac = task[t].mac
                 /\ task'[t].ip = task[t].ip /\ task'[t].left = task[t].left
              \/ /\ FlushFails /\ task'[t].at = "idle" /\ task'[t].mac = NoMac
                 /\ bound' = bound \/ bound' = [bound EXCEPT ![task[t].mac] = NoLease]
           /\ task' \in [Task -> TaskState]
           /\ \A u \in Task \ {t} : task'[u] = task[u]
           /\ blame \subseteq blame'
           /\ "crossed" \notin blame' => leases[task[t].mac].left <= task[t].left
<1> DEFINE new == [ip |-> task[t].ip, left |-> task[t].left, static |-> FALSE]
           m == task[t].mac
<1>1. /\ task[t].at = "grant" /\ m \in Mac /\ task[t].ip \in Ip
      /\ task[t].left \in Time
  BY DEF Grant, TypeInv, Working, TypeOK, TaskState, Confirming
<1>2. /\ new \in Lease /\ new.ip = task[t].ip /\ new.left = task[t].left /\ ~new.static
      /\ leases' = [leases EXCEPT ![m] = new]
  BY <1>1, GrantedLease DEF Grant
<1> HIDE DEF new
<1>3. /\ leases' \in [Mac -> Lease] /\ leases'[m] = new
      /\ \A c \in Mac \ {m} : leases'[c] = leases[c]
  BY <1>1, <1>2 DEF TypeInv, TypeOK
<1>4. /\ \/ /\ Flush /\ bound' = bound
            /\ task'[t].at = "publish" /\ task'[t].mac = m
            /\ task'[t].ip = task[t].ip /\ task'[t].left = task[t].left
         \/ /\ FlushFails /\ task'[t].at = "idle" /\ task'[t].mac = NoMac
            /\ bound' = bound \/ bound' = [bound EXCEPT ![m] = NoLease]
      /\ task' \in [Task -> TaskState]
      /\ \A u \in Task \ {t} : task'[u] = task[u]
  <2>1. CASE Flush /\ GoTo(t, "publish") /\ UNCHANGED bound
    BY <2>1, GoToParts DEF TypeInv, At
  <2>2. CASE FlushFails /\ Nak(t)
    BY <2>2, DoneParts DEF Nak, TypeInv, Idle
  <2>3. QED
    BY <2>1, <2>2 DEF Grant
<1>5. /\ blame \subseteq blame'
      /\ "crossed" \notin blame' => leases[m].left <= task[t].left
  <2>1. leases[m].left \in Time
    BY <1>1, LeaseParts DEF TypeInv, TypeOK
  <2>2. QED
    BY <1>1, <2>1 DEF Grant, Time
<1>6. file' \in [Mac -> Lease] /\ torn' \in BOOLEAN
  BY <1>3, <1>4, FileTypes
<1>7. QED
  BY <1>1, <1>2, <1>3, <1>4, <1>5, <1>6

LEMMA GrantTypes == ASSUME TypeInv, NEW t \in Task, Grant(t) PROVE TypeInv'
<1>1. Working'
  BY GrantParts, WorkingMoves DEF Confirming
<1>2. StaticOnly'
  <2>1. \A m \in Mac : leases'[m].static => StaticIp[m] # 0
    BY GrantParts DEF TypeInv, StaticOnly
  <2>2. Flush \/ FlushFails
    BY GrantParts
  <2>3. QED
    BY <2>1, <2>2, NoLeaseParts DEF TypeInv, StaticOnly, Flush, FlushFails, Nothing
<1>3. bound' \in [Mac -> Lease]
  BY GrantParts, NoLeaseParts DEF TypeInv, TypeOK
<1>4. offered' = offered /\ hosts' = hosts /\ offer' = offer /\ blame' \subseteq Reason
  BY DEF Grant, TypeInv, TypeOK, Reason
<1>5. TypeOK'
  BY <1>3, <1>4, GrantParts DEF TypeInv, TypeOK, TaskState
<1>6. QED
  BY <1>1, <1>2, <1>4, <1>5 DEF TypeInv, Offers

LEMMA PublishParts ==
    ASSUME TypeInv, NEW t \in Task, Publish(t)
    PROVE  /\ task[t].at = "publish" /\ task[t].mac \in Mac /\ task[t].ip \in Ip
           /\ task[t].left \in Time
           /\ task' \in [Task -> TaskState]
           /\ task'[t].at = "idle" /\ task'[t].mac = NoMac
           /\ \A u \in Task \ {t} : task'[u] = task[u]
           /\ hosts' \in [Name -> 0..PoolSize]
           /\ \A n \in Name : hosts'[n] = IF n = NameOf[task[t].mac] THEN task[t].ip ELSE hosts[n]
           /\ bound' \in [Mac -> Lease]
           /\ \/ bound' = bound
              \/ /\ task[t].left > 0
                 /\ bound'[task[t].mac].ip = task[t].ip
                 /\ bound'[task[t].mac].left = task[t].left
                 /\ \A m \in Mac \ {task[t].mac} : bound'[m] = bound[m]
           /\ UNCHANGED <<offered, leases, file, torn, offer, blame>>
<1> DEFINE new == [ip |-> task[t].ip, left |-> task[t].left, static |-> FALSE]
           m == task[t].mac
<1>1. /\ task[t].at = "publish" /\ m \in Mac /\ task[t].ip \in Ip
      /\ task[t].left \in Time
  BY DEF Publish, TypeInv, Working, TypeOK, TaskState, Confirming
<1>2. new \in Lease /\ new.ip = task[t].ip /\ new.left = task[t].left
  BY <1>1, GrantedLease
<1>3. /\ bound' = bound \/ (task[t].left > 0 /\ bound' = [bound EXCEPT ![m] = new])
      /\ Done(t)
      /\ UNCHANGED <<offered, leases, file, torn, offer, blame>>
  BY DEF Publish
<1> HIDE DEF new
<1>4. bound' \in [Mac -> Lease]
  BY <1>1, <1>2, <1>3 DEF TypeInv, TypeOK
<1>5. \/ bound' = bound
      \/ /\ task[t].left > 0
         /\ bound'[m].ip = task[t].ip /\ bound'[m].left = task[t].left
         /\ \A c \in Mac \ {m} : bound'[c] = bound[c]
  BY <1>1, <1>2, <1>3 DEF TypeInv, TypeOK
<1>6. /\ hosts' \in [Name -> 0..PoolSize]
      /\ \A n \in Name : hosts'[n] = IF n = NameOf[m] THEN task[t].ip ELSE hosts[n]
  <2>1. hosts' = IF NameOf[m] = NoName THEN hosts ELSE [hosts EXCEPT ![NameOf[m]] = task[t].ip]
    BY DEF Publish
  <2>2. task[t].ip \in 0..PoolSize /\ NameOf[m] \in Name \cup {NoName}
    BY <1>1, NameAssumption, PoolAssumption DEF Ip
  <2>3. QED
    BY <2>1, <2>2, NameAssumption DEF TypeInv, TypeOK
<1>7. QED
  BY <1>1, <1>3, <1>4, <1>5, <1>6, DoneParts DEF TypeInv, Idle

LEMMA PublishTypes == ASSUME TypeInv, NEW t \in Task, Publish(t) PROVE TypeInv'
<1>1. Working'
  BY PublishParts, WorkingMoves
<1>2. StaticOnly' /\ Offers'
  BY PublishParts DEF TypeInv, StaticOnly, Offers
<1>3. TypeOK'
  BY PublishParts DEF TypeInv, TypeOK, TaskState
<1>4. QED
  BY <1>1, <1>2, <1>3 DEF TypeInv

LEMMA RemoveParts ==
    ASSUME TypeInv, NEW t \in Task, Remove(t)
    PROVE  /\ task[t].at = "remove" /\ task[t].mac \in Mac
           /\ leases' \in [Mac -> Lease] /\ leases'[task[t].mac] = NoLease
           /\ \A m \in Mac \ {task[t].mac} : leases'[m] = leases[m]
           /\ file' \in [Mac -> Lease] /\ torn' \in BOOLEAN
           /\ Flush \/ FlushFails
           /\ task' \in [Task -> TaskState]
           /\ \/ task'[t].at = "unpublish" /\ task'[t].mac = task[t].mac
              \/ task'[t].at = "idle" /\ task'[t].mac = NoMac
           /\ \A u \in Task \ {t} : task'[u] = task[u]
           /\ UNCHANGED <<offered, hosts, offer, bound, blame>>
<1>1. task[t].at = "remove" /\ task[t].mac \in Mac
  BY DEF Remove, TypeInv, Working
<1>2. leases' = [leases EXCEPT ![task[t].mac] = NoLease]
  BY DEF Remove
<1>3. /\ leases' \in [Mac -> Lease] /\ leases'[task[t].mac] = NoLease
      /\ \A m \in Mac \ {task[t].mac} : leases'[m] = leases[m]
  BY <1>1, <1>2, NoLeaseParts DEF TypeInv, TypeOK
<1>4. /\ Flush \/ FlushFails
      /\ Done(t) \/ GoTo(t, "unpublish")
      /\ UNCHANGED <<offered, hosts, offer, bound, blame>>
  BY DEF Remove, FlushFails
<1>5. QED
  BY <1>1, <1>3, <1>4, FileTypes, DoneParts, GoToParts DEF TypeInv, Idle, At

LEMMA RemoveTypes == ASSUME TypeInv, NEW t \in Task, Remove(t) PROVE TypeInv'
<1>1. Working'
  BY RemoveParts, WorkingMoves DEF Confirming
<1>2. StaticOnly'
  BY RemoveParts, NoLeaseParts DEF TypeInv, StaticOnly, Flush, FlushFails, Nothing
<1>3. Offers'
  BY RemoveParts DEF TypeInv, Offers
<1>4. TypeOK'
  BY RemoveParts DEF TypeInv, TypeOK, TaskState
<1>5. QED
  BY <1>1, <1>2, <1>3, <1>4 DEF TypeInv

LEMMA UnpublishParts ==
    ASSUME TypeInv, NEW t \in Task, Unpublish(t)
    PROVE  /\ task[t].at = "unpublish" /\ task[t].mac \in Mac
           /\ task' \in [Task -> TaskState]
           /\ task'[t].at = "idle" /\ task'[t].mac = NoMac
           /\ \A u \in Task \ {t} : task'[u] = task[u]
           /\ hosts' \in [Name -> 0..PoolSize]
           /\ \A n \in Name : hosts'[n] = IF n = NameOf[task[t].mac] THEN 0 ELSE hosts[n]
           /\ UNCHANGED <<offered, leases, file, torn, offer, bound, blame>>
<1>1. task[t].at = "unpublish" /\ task[t].mac \in Mac
  BY DEF Unpublish, TypeInv, Working
<1>2. /\ hosts' \in [Name -> 0..PoolSize]
      /\ \A n \in Name : hosts'[n] = IF n = NameOf[task[t].mac] THEN 0 ELSE hosts[n]
  <2>1. hosts' = IF NameOf[task[t].mac] = NoName THEN hosts
                 ELSE [hosts EXCEPT ![NameOf[task[t].mac]] = 0]
    BY DEF Unpublish
  <2>2. 0 \in 0..PoolSize /\ NameOf[task[t].mac] \in Name \cup {NoName}
    BY <1>1, NameAssumption, PoolAssumption
  <2>3. QED
    BY <2>1, <2>2, NameAssumption DEF TypeInv, TypeOK
<1>3. QED
  BY <1>1, <1>2, DoneParts DEF Unpublish, TypeInv, Idle

LEMMA UnpublishTypes == ASSUME TypeInv, NEW t \in Task, Unpublish(t) PROVE TypeInv'
<1>1. Working'
  BY UnpublishParts, WorkingMoves
<1>2. StaticOnly' /\ Offers'
  BY UnpublishParts DEF TypeInv, StaticOnly, Offers
<1>3. TypeOK'
  BY UnpublishParts DEF TypeInv, TypeOK, TaskState
<1>4. QED
  BY <1>1, <1>2, <1>3 DEF TypeInv

\* Everything is a tick older.
LEMMA TickParts ==
    ASSUME TypeInv, Tick
    PROVE  /\ offered' \subseteq [ip : Ip, left : 0..OfferTime]
           /\ \A o \in offered : \E p \in offered' : p.ip = o.ip /\ p.left >= o.left - 1
           /\ leases' \in [Mac -> Lease] /\ file' \in [Mac -> Lease]
           /\ \A m \in Mac : /\ leases'[m].ip = leases[m].ip
                             /\ leases'[m].static = leases[m].static
                             /\ leases'[m].left = IF leases[m].left > 0 THEN leases[m].left - 1
                                                  ELSE 0
           /\ \A m \in Mac : /\ file'[m].ip = file[m].ip
                             /\ file'[m].static = file[m].static
                             /\ file'[m].left = IF file[m].left > 0 THEN file[m].left - 1 ELSE 0
           /\ task' \in [Task -> TaskState]
           /\ \A t \in Task : /\ task'[t].at = task[t].at /\ task'[t].mac = task[t].mac
                              /\ task'[t].ip = task[t].ip
                              /\ task'[t].left = IF task[t].left > 0 THEN task[t].left - 1 ELSE 0
           /\ offer' \in [Mac -> OfferState]
           /\ \A m \in Mac :
                 IF offer[m].left > 1
                 THEN offer'[m].ip = offer[m].ip /\ offer'[m].left = offer[m].left - 1
                 ELSE offer'[m] = NoOffer
           /\ bound' \in [Mac -> Lease]
           /\ \A m \in Mac :
                 IF bound[m].left > 1
                 THEN bound'[m].ip = bound[m].ip /\ bound'[m].left = bound[m].left - 1
                 ELSE bound'[m] = NoLease
           /\ UNCHANGED <<torn, hosts, blame>>
<1>1. /\ leases \in [Mac -> Lease] /\ file \in [Mac -> Lease] /\ bound \in [Mac -> Lease]
      /\ task \in [Task -> TaskState] /\ offer \in [Mac -> OfferState]
      /\ offered \subseteq [ip : Ip, left : 0..OfferTime]
  BY DEF TypeInv, TypeOK, TaskState, OfferState
<1>2. /\ offered' = {Older(o) : o \in offered}
      /\ leases' = [m \in Mac |-> Older(leases[m])]
      /\ file' = [m \in Mac |-> Older(file[m])]
      /\ task' = [t \in Task |-> Older(task[t])]
      /\ offer' = [m \in Mac |-> Expiring(offer[m], NoOffer)]
      /\ bound' = [m \in Mac |-> Expiring(bound[m], NoLease)]
      /\ UNCHANGED <<torn, hosts, blame>>
  BY DEF Tick
<1>3. /\ offered' \subseteq [ip : Ip, left : 0..OfferTime]
      /\ \A o \in offered : \E p \in offered' : p.ip = o.ip /\ p.left >= o.left - 1
  <2>1. ASSUME NEW o \in offered
        PROVE  /\ Older(o) \in [ip : Ip, left : 0..OfferTime]
               /\ Older(o).ip = o.ip /\ Older(o).left >= o.left - 1
    <3>1. o \in [ip : Ip, left : 0..OfferTime] /\ o.left \in 0..OfferTime
      BY <1>1
    <3>2. QED
      BY <3>1, OlderOffered, TimeAssumption
  <2>2. QED
    BY <1>2, <2>1
<1>4. ASSUME NEW m \in Mac
      PROVE  /\ leases'[m] = Older(leases[m]) /\ file'[m] = Older(file[m])
             /\ offer'[m] = Expiring(offer[m], NoOffer)
             /\ bound'[m] = Expiring(bound[m], NoLease)
             /\ leases[m] \in Lease /\ file[m] \in Lease /\ bound[m] \in Lease
             /\ offer[m] \in OfferState
  BY <1>1, <1>2
<1>5. /\ leases' \in [Mac -> Lease] /\ file' \in [Mac -> Lease] /\ bound' \in [Mac -> Lease]
      /\ offer' \in [Mac -> OfferState]
  BY <1>2, <1>4, OlderLease, ExpiringLease, ExpiringOffer
<1>6. /\ task' \in [Task -> TaskState]
      /\ \A t \in Task : /\ task'[t].at = task[t].at /\ task'[t].mac = task[t].mac
                         /\ task'[t].ip = task[t].ip
                         /\ task'[t].left = IF task[t].left > 0 THEN task[t].left - 1 ELSE 0
  BY <1>1, <1>2, OlderTask
<1>7. ASSUME NEW m \in Mac
      PROVE  /\ leases'[m].ip = leases[m].ip
             /\ leases'[m].static = leases[m].static
             /\ leases'[m].left = IF leases[m].left > 0 THEN leases[m].left - 1 ELSE 0
             /\ file'[m].ip = file[m].ip
             /\ file'[m].static = file[m].static
             /\ file'[m].left = IF file[m].left > 0 THEN file[m].left - 1 ELSE 0
             /\ IF offer[m].left > 1
                THEN offer'[m].ip = offer[m].ip /\ offer'[m].left = offer[m].left - 1
                ELSE offer'[m] = NoOffer
             /\ IF bound[m].left > 1
                THEN bound'[m].ip = bound[m].ip /\ bound'[m].left = bound[m].left - 1
                ELSE bound'[m] = NoLease
  BY <1>4, OlderLease, ExpiringLease, ExpiringOffer
<1>8. QED
  BY <1>2, <1>3, <1>5, <1>6, <1>7

LEMMA TickTypes == ASSUME TypeInv, Tick PROVE TypeInv'
<1>1. TypeOK'
  BY TickParts DEF TypeInv, TypeOK, TaskState, OfferState
<1>2. Working'
  BY TickParts DEF TypeInv, Working
<1>3. StaticOnly'
  BY TickParts DEF TypeInv, StaticOnly
<1>4. Offers'
  BY TickParts, TimeAssumption DEF TypeInv, TypeOK, Offers
<1>5. QED
  BY <1>1, <1>2, <1>3, <1>4 DEF TypeInv

\* A restart begins with the file, or with nothing.
LEMMA CrashParts ==
    ASSUME TypeInv, Crash
    PROVE  /\ offered' = {} /\ \A t \in Task : task'[t] = Idle
           /\ task' \in [Task -> TaskState] /\ UNCHANGED <<offer, bound>>
           /\ blame \subseteq blame' /\ blame' \subseteq Reason
           /\ \/ Serve(file) /\ ("overlay" \notin blame' => ~Clash(file))
              \/ Serve(Nothing) /\ "torn" \in blame'
           /\ "torn" \notin blame' => ~torn
           /\ "forgotten" \notin blame' => \A m \in Mac : offer[m] = NoOffer
<1>1. Idle \in TaskState
  BY TimeAssumption, PoolAssumption DEF TaskState, Time, Idle, At
<1>2. task' = [t \in Task |-> Idle]
  BY DEF Crash
<1>3. task' \in [Task -> TaskState] /\ \A t \in Task : task'[t] = Idle
  BY <1>1, <1>2
<1>4. /\ \/ Serve(file) /\ ("overlay" \notin blame' => ~Clash(file))
         \/ Serve(Nothing) /\ "torn" \in blame'
      /\ "torn" \notin blame' => ~torn
      /\ "forgotten" \notin blame' => \A m \in Mac : offer[m] = NoOffer
  BY DEF Crash
<1>5. blame \subseteq blame' /\ blame' \subseteq Reason
  BY DEF Crash, TypeInv, TypeOK, Reason
<1>6. QED
  BY <1>3, <1>4, <1>5 DEF Crash

LEMMA CrashTypes == ASSUME TypeInv, Crash PROVE TypeInv'
<1>1. leases' \in [Mac -> Lease] /\ file' \in [Mac -> Lease] /\ torn' = FALSE /\ StaticOnly'
  <2> DEFINE none == Nothing
  <2>1. none \in [Mac -> Lease] /\ \A m \in Mac : ~none[m].static
    BY NoLeaseParts DEF Nothing
  <2>2. file \in [Mac -> Lease] /\ \A m \in Mac : file[m].static => StaticIp[m] # 0
    BY DEF TypeInv, TypeOK, StaticOnly
  <2> HIDE DEF none
  <2>3. CASE Serve(file)
    BY <2>2, <2>3, ServeTypes DEF Serve, Flush
  <2>4. CASE Serve(none)
    BY <2>1, <2>4, ServeTypes DEF Serve, Flush
  <2>5. QED
    BY <2>3, <2>4, CrashParts DEF none
<1>2. hosts' \in [Name -> 0..PoolSize]
  BY CrashParts DEF Serve
<1>3. Working'
  BY CrashParts DEF Working, Idle
<1>4. Offers'
  BY CrashParts DEF TypeInv, Offers
<1>5. TypeOK'
  BY <1>1, <1>2, CrashParts DEF TypeInv, TypeOK, TaskState
<1>6. QED
  BY <1>1, <1>3, <1>4, <1>5 DEF TypeInv

\* One step per action.
LEMMA TypeStep == ASSUME TypeInv, [Next]_vars PROVE TypeInv'
<1>1. ASSUME NEW t \in Task, NEW m \in Mac, NEW ip \in 0..PoolSize, Discover(t, m, ip)
      PROVE  TypeInv'
  BY <1>1, SpawnTypes DEF Discover
<1>2. ASSUME NEW t \in Task, NEW m \in Mac, NEW ip \in Ip, Request(t, m, ip) PROVE TypeInv'
  <2>1. ip \in 0..PoolSize
    BY PoolAssumption DEF Ip
  <2>2. bound' = bound \/ bound' = [bound EXCEPT ![m] = NoLease]
    BY <1>2 DEF Request, TypeInv, TypeOK
  <2>3. QED
    BY <1>2, <2>1, <2>2, SpawnTypes DEF Request
<1>3. ASSUME NEW t \in Task, NEW m \in Mac, Release(t, m) PROVE TypeInv'
  <2>1. 0 \in 0..PoolSize /\ "remove" # "confirm"
    BY PoolAssumption
  <2>2. QED
    BY <1>3, <2>1, SpawnTypes DEF Release
<1>4. ASSUME NEW t \in Task, Handle(t) PROVE TypeInv'
  BY <1>4, AllocateTypes, OfferTypes, ProbeFailsTypes, WithdrawTypes, GrantTypes, PublishTypes,
     RemoveTypes, UnpublishTypes DEF Handle
<1>5. CASE UNCHANGED vars
  BY <1>5 DEF vars, TypeInv, TypeOK, Working, StaticOnly, Offers
<1>6. QED
  BY <1>1, <1>2, <1>3, <1>4, <1>5, TickTypes, CrashTypes DEF Next

\* The server's tables, its file, its tasks and what the clients believe are well
\* typed, for any clients, names, bindings and any number of tasks.
THEOREM TypeCorrect == Spec => []TypeOK
<1>1. TypeInv => TypeOK
  BY DEF TypeInv
<1>2. QED
  BY <1>1, TypeInit, TypeStep, PTL DEF Spec

---------------------------------------------------------------------------
(* What was ACKed is recorded: as long as no client crosses itself *)

LEMMA CalmInit == Init => CalmInv
<1> SUFFICES ASSUME Init PROVE Alone /\ GaveUp /\ Flushed /\ Recorded /\ Named
  BY DEF CalmInv
<1>1. /\ \A t \in Task : task[t].at = "idle"
      /\ \A m \in Mac : bound[m].ip = 0
  BY DEF Init, Idle, NoLease
<1>2. QED
  BY <1>1 DEF Alone, GaveUp, Flushed, Recorded, Named, Confirming, Releasing

LEMMA CalmKept == ASSUME blame \subseteq blame', Calm' PROVE Calm
BY DEF Calm

\* A task that does nothing to a lease, or gives up what its client has.
LEMMA QuietCalm ==
    ASSUME TypeInv, CalmInv, blame \subseteq blame', NEW t \in Task,
           task'[t].at \notin Confirming \cup Releasing,
           \A u \in Task \ {t} : task'[u] = task[u],
           UNCHANGED <<leases, file, torn, hosts>>,
           \A m \in Mac : bound'[m] = bound[m] \/ bound'[m] = NoLease
    PROVE  CalmInv'
<1> SUFFICES ASSUME Calm' PROVE Alone' /\ GaveUp' /\ Flushed' /\ Recorded' /\ Named'
  BY DEF CalmInv
<1>1. Alone /\ GaveUp /\ Flushed /\ Recorded /\ Named
  BY CalmKept DEF CalmInv
<1>2. Alone'
  BY <1>1 DEF Alone, Confirming, Releasing
<1>3. GaveUp'
  BY <1>1, NoLeaseParts DEF GaveUp, Confirming, Releasing, TypeInv, Working
<1>4. Flushed'
  BY <1>1 DEF Flushed, Records, Confirming
<1>5. \A m \in Mac : Granting(m)' \subseteq Granting(m) /\ \A u \in Granting(m)' : task'[u] = task[u]
  BY DEF Granting, Confirming
<1>6. Recorded'
  BY <1>1, <1>5, NoLeaseParts DEF Recorded, Covers
<1>7. Named'
  BY <1>1, NoLeaseParts DEF Named, OwnName
<1>8. QED
  BY <1>2, <1>3, <1>4, <1>6, <1>7

LEMMA DiscoverCalm ==
    ASSUME TypeInv, CalmInv, NEW t \in Task, NEW m \in Mac, NEW ip \in 0..PoolSize,
           Discover(t, m, ip)
    PROVE  CalmInv'
<1>1. "allocate" \in At /\ "allocate" \notin Confirming \cup Releasing
  BY DEF At, Confirming, Releasing
<1>2. QED
  BY <1>1, SpawnParts, QuietCalm DEF Discover, TypeInv

\* A REQUEST: what the client has had it gives up, unless it asks for it again.
LEMMA RequestCalm ==
    ASSUME TypeInv, CalmInv, NEW t \in Task, NEW m \in Mac, NEW ip \in Ip, Request(t, m, ip)
    PROVE  CalmInv'
<1> SUFFICES ASSUME Calm' PROVE Alone' /\ GaveUp' /\ Flushed' /\ Recorded' /\ Named'
  BY DEF CalmInv
<1>1. "confirm" \in At /\ ip \in 0..PoolSize
  BY PoolAssumption DEF At, Ip
<1>2. /\ task[t].at = "idle"
      /\ task'[t].at = "confirm" /\ task'[t].mac = m /\ task'[t].ip = ip
      /\ \A u \in Task \ {t} : task'[u] = task[u]
      /\ blame \subseteq blame' /\ ("crossed" \notin blame' => ~Crosses("confirm", m, ip))
  BY <1>1, SpawnParts DEF Request, TypeInv
<1>3. /\ Alone /\ GaveUp /\ Flushed /\ Recorded /\ Named
      /\ ~Crosses("confirm", m, ip)
  BY <1>2, CalmKept DEF CalmInv, Calm
<1>4. /\ UNCHANGED <<leases, file, torn, hosts>>
      /\ \A c \in Mac \ {m} : bound'[c] = bound[c]
      /\ bound'[m] = IF bound[m].ip = ip THEN bound[m] ELSE NoLease
  BY DEF Request, TypeInv, TypeOK
<1>5. \A u \in Task : task[u].mac = m =>
         /\ task[u].at \notin Releasing
         /\ task[u].at \in Confirming => task[u].ip = ip
  BY <1>3 DEF Crosses, Confirming, Releasing
<1>6. Alone'
  BY <1>2, <1>3, <1>5 DEF Alone, Confirming, Releasing
<1>7. GaveUp'
  BY <1>2, <1>3, <1>4, <1>5, NoLeaseParts DEF GaveUp, Confirming, Releasing, TypeInv, Working
<1>8. Flushed'
  BY <1>2, <1>3, <1>4 DEF Flushed, Records
<1>9. \A c \in Mac : Granting(c)' \subseteq Granting(c) /\ \A u \in Granting(c)' : task'[u] = task[u]
  BY <1>2 DEF Granting
<1>10. Recorded'
  BY <1>2, <1>3, <1>4, <1>9, NoLeaseParts DEF Recorded, Covers
<1>11. Named'
  BY <1>3, <1>4, NoLeaseParts DEF Named, OwnName
<1>12. QED
  BY <1>6, <1>7, <1>8, <1>10, <1>11

LEMMA ReleaseCalm ==
    ASSUME TypeInv, CalmInv, NEW t \in Task, NEW m \in Mac, Release(t, m)
    PROVE  CalmInv'
<1> SUFFICES ASSUME Calm' PROVE Alone' /\ GaveUp' /\ Flushed' /\ Recorded' /\ Named'
  BY DEF CalmInv
<1>1. "remove" \in At /\ 0 \in 0..PoolSize
  BY PoolAssumption DEF At
<1>2. /\ task[t].at = "idle"
      /\ task'[t].at = "remove" /\ task'[t].mac = m
      /\ \A u \in Task \ {t} : task'[u] = task[u]
      /\ blame \subseteq blame' /\ ("crossed" \notin blame' => ~Crosses("remove", m, 0))
  BY <1>1, SpawnParts DEF Release, TypeInv
<1>3. /\ Alone /\ GaveUp /\ Flushed /\ Recorded /\ Named
      /\ ~Crosses("remove", m, 0)
  BY <1>2, CalmKept DEF CalmInv, Calm
<1>4. /\ UNCHANGED <<leases, file, torn, hosts>>
      /\ \A c \in Mac \ {m} : bound'[c] = bound[c]
      /\ bound'[m] = NoLease
  BY DEF Release, TypeInv, TypeOK
<1>5. \A u \in Task : task[u].mac = m => task[u].at \notin Confirming
  BY <1>3 DEF Crosses, Confirming
<1>6. Alone'
  BY <1>2, <1>3, <1>5 DEF Alone, Confirming, Releasing
<1>7. GaveUp'
  BY <1>2, <1>3, <1>4, <1>5, NoLeaseParts DEF GaveUp, Confirming, Releasing, TypeInv, Working
<1>8. Flushed'
  BY <1>2, <1>3, <1>4 DEF Flushed, Records
<1>9. \A c \in Mac : Granting(c)' \subseteq Granting(c) /\ \A u \in Granting(c)' : task'[u] = task[u]
  BY <1>2 DEF Granting
<1>10. Recorded'
  BY <1>2, <1>3, <1>4, <1>9, NoLeaseParts DEF Recorded, Covers
<1>11. Named'
  BY <1>3, <1>4, NoLeaseParts DEF Named, OwnName
<1>12. QED
  BY <1>6, <1>7, <1>8, <1>10, <1>11

LEMMA WithdrawCalm ==
    ASSUME TypeInv, CalmInv, NEW t \in Task, Withdraw(t)
    PROVE  CalmInv'
<1> SUFFICES ASSUME Calm' PROVE Alone' /\ GaveUp' /\ Flushed' /\ Recorded' /\ Named'
  BY DEF CalmInv
<1>1. blame \subseteq blame' /\ UNCHANGED <<leases, file, torn, hosts, bound>>
  BY DEF Withdraw
<1>2. Alone /\ GaveUp /\ Flushed /\ Recorded /\ Named
  BY <1>1, CalmKept DEF CalmInv
<1>3. Alone' /\ GaveUp' /\ Flushed'
  BY <1>1, <1>2, WithdrawParts DEF Alone, GaveUp, Flushed, Records, Confirming, Releasing
<1>4. \A m \in Mac : bound[m].left <= LeaseTime
  BY LeaseParts, TimeAssumption DEF TypeInv, TypeOK, Time
<1>5. \A m \in Mac : \A u \in Granting(m)' :
         \/ u \in Granting(m) /\ task'[u] = task[u]
         \/ task'[u].left = LeaseTime
  BY WithdrawParts DEF Granting
<1>6. Recorded'
  BY <1>1, <1>2, <1>4, <1>5 DEF Recorded, Covers
<1>7. Named'
  BY <1>1, <1>2 DEF Named, OwnName
<1>8. QED
  BY <1>3, <1>6, <1>7

\* The record of a grant lasts at least as long as the one it replaces, and what the
\* file holds stays or is the record.
LEMMA GrantCalm ==
    ASSUME TypeInv, CalmInv, NEW t \in Task, Grant(t)
    PROVE  CalmInv'
<1> DEFINE m == task[t].mac
<1> SUFFICES ASSUME Calm' PROVE Alone' /\ GaveUp' /\ Flushed' /\ Recorded' /\ Named'
  BY DEF CalmInv
<1>1. Alone /\ GaveUp /\ Flushed /\ Recorded /\ Named
  BY GrantParts, CalmKept DEF CalmInv
<1>2. /\ m \in Mac /\ task[t].at = "grant" /\ hosts' = hosts
      /\ task'[t].at \in {"publish", "idle"}
      /\ task'[t].at = "publish" => /\ task'[t].mac = m /\ task'[t].ip = task[t].ip
                                    /\ task'[t].left = task[t].left
                                    /\ Flush
      /\ \A u \in Task \ {t} : task'[u] = task[u]
      /\ \A c \in Mac : bound'[c] = bound[c] \/ bound'[c] = NoLease
      /\ Flush \/ FlushFails
  <2>1. hosts' = hosts
    BY DEF Grant
  <2>2. \A c \in Mac : bound'[c] = bound[c] \/ bound'[c] = NoLease
    BY GrantParts DEF TypeInv, TypeOK
  <2>3. QED
    BY <2>1, <2>2, GrantParts
<1>3. /\ leases'[m].ip = task[t].ip /\ leases'[m].left = task[t].left /\ ~leases'[m].static
      /\ leases[m].left <= task[t].left
      /\ \A c \in Mac \ {m} : leases'[c] = leases[c]
  BY GrantParts DEF Calm
<1>4. Alone'
  BY <1>1, <1>2 DEF Alone, Confirming, Releasing
<1>5. GaveUp'
  BY <1>1, <1>2, NoLeaseParts DEF GaveUp, Confirming, Releasing, TypeInv, Working
<1>6. \A u \in Task \ {t} : task[u].mac = m /\ task[u].at = "publish" =>
         task[u].ip = task[t].ip /\ leases[m].left >= task[u].left
  BY <1>1, <1>2 DEF Alone, Flushed, Records, Confirming
<1>7. Flushed'
  <2> SUFFICES ASSUME NEW u \in Task, task'[u].at = "publish",
                      NEW l \in Records(task[u].mac)'
               PROVE  l.ip = task'[u].ip /\ ~l.static /\ l.left >= task'[u].left
    BY DEF Flushed
  <2>1. task'[u].mac \in Mac /\ task'[u].left \in Nat /\ task[t].left \in Nat /\ leases[m].left \in Nat
    <3>1. task'[u] \in TaskState /\ task[t] \in TaskState /\ leases[m] \in Lease
      BY <1>2, GrantParts DEF TypeInv, TypeOK, TaskState
    <3>2. task'[u].left \in Nat /\ task[t].left \in Nat /\ leases[m].left \in Nat
      BY <3>1, LeaseParts DEF TaskState, Time
    <3>3. QED
      BY <1>2, <3>2 DEF TypeInv, Working
  <2>2. CASE u = t
    BY <1>2, <1>3, <2>1, <2>2 DEF Records, Flush
  <2>3. CASE u # t
    <3>1. /\ task'[u] = task[u] /\ task[u].at = "publish"
          /\ \A k \in Records(task[u].mac) :
                k.ip = task[u].ip /\ ~k.static /\ k.left >= task[u].left
      BY <1>1, <1>2, <2>3 DEF Flushed
    <3>2. CASE l = leases'[task[u].mac]
      BY <1>2, <1>3, <1>6, <2>1, <2>3, <3>1, <3>2 DEF Records
    <3>3. CASE l = file[task[u].mac] /\ ~torn
      BY <3>1, <3>3 DEF Records
    <3>4. QED
      BY <1>2, <3>1, <3>2, <3>3 DEF Records, Flush, FlushFails
  <2>4. QED
    BY <2>2, <2>3
<1>8. \A c \in Mac : Granting(c)' \subseteq Granting(c) /\ \A u \in Granting(c)' : task'[u] = task[u]
  BY <1>2 DEF Granting
<1>9. Recorded'
  <2> SUFFICES ASSUME NEW c \in Mac, bound'[c].ip # 0, StaticIp[c] = 0 \/ "overlay" \notin blame'
               PROVE  /\ bound'[c].left > 0
                      /\ Covers(leases[c], bound[c], c)'
                      /\ torn' \/ Covers(file[c], bound[c], c)'
    BY DEF Recorded
  <2>1. bound'[c] = bound[c] /\ ("overlay" \notin blame' => "overlay" \notin blame)
    BY <1>2, NoLeaseParts, GrantParts
  <2>2. /\ bound[c].left > 0 /\ Covers(leases[c], bound[c], c)
        /\ torn \/ Covers(file[c], bound[c], c)
    BY <1>1, <2>1 DEF Recorded
  <2>3. Covers(leases[c], bound[c], c)'
    <3>1. CASE c # m
      BY <1>3, <1>8, <2>1, <2>2, <3>1 DEF Covers
    <3>2. CASE c = m
      <4>1. task[t].ip = bound[c].ip
        BY <1>1, <1>2, <2>1, <3>2 DEF GaveUp, Confirming
      <4>2. task[t].left >= bound[c].left
        <5>1. t \in Granting(c)
          BY <1>2, <3>2 DEF Granting
        <5>2. leases[m].left \in Nat /\ task[t].left \in Nat /\ bound[c].left \in Nat
          BY <1>2, LeaseParts, GrantParts DEF TypeInv, TypeOK, Time
        <5>3. QED
          BY <1>3, <2>2, <3>2, <5>1, <5>2 DEF Covers
      <4>3. QED
        BY <1>3, <2>1, <3>2, <4>1, <4>2 DEF Covers
    <3>3. QED
      BY <3>1, <3>2
  <2>4. torn' \/ Covers(file[c], bound[c], c)'
    <3>1. CASE file' = leases'
      BY <2>3, <3>1 DEF Covers
    <3>2. CASE file' = file /\ torn' = torn
      BY <1>8, <2>1, <2>2, <3>2 DEF Covers
    <3>3. QED
      BY <1>2, <3>1, <3>2 DEF Flush, FlushFails
  <2>5. QED
    BY <2>1, <2>2, <2>3, <2>4
<1>10. Named'
  BY <1>1, <1>2, NoLeaseParts DEF Named, OwnName
<1>11. QED
  BY <1>4, <1>5, <1>7, <1>9, <1>10

\* What is sent is what was recorded.
LEMMA PublishCalm ==
    ASSUME TypeInv, CalmInv, NEW t \in Task, Publish(t)
    PROVE  CalmInv'
<1> DEFINE m == task[t].mac
<1> SUFFICES ASSUME Calm' PROVE Alone' /\ GaveUp' /\ Flushed' /\ Recorded' /\ Named'
  BY DEF CalmInv
<1>1. Alone /\ GaveUp /\ Flushed /\ Recorded /\ Named
  BY PublishParts, CalmKept DEF CalmInv
<1>2. Alone'
  BY <1>1, PublishParts DEF Alone, Confirming, Releasing
<1>3. GaveUp'
  <2> SUFFICES ASSUME NEW u \in Task, u # t
               PROVE  /\ task[u].at \in Confirming => bound'[task[u].mac].ip \in {0, task[u].ip}
                      /\ task[u].at \in Releasing => bound'[task[u].mac].ip = 0
    BY PublishParts DEF GaveUp, Confirming, Releasing
  <2>1. task[u].mac = m => /\ task[u].at \notin Releasing
                           /\ task[u].at \in Confirming => task[u].ip = task[t].ip
    BY <1>1, PublishParts DEF Alone, Confirming
  <2>2. QED
    BY <1>1, <2>1, PublishParts DEF GaveUp, TypeInv, Working, Confirming, Releasing
<1>4. Flushed'
  BY <1>1, PublishParts DEF Flushed, Records
<1>5. \A c \in Mac : Granting(c)' \subseteq Granting(c) /\ \A u \in Granting(c)' : task'[u] = task[u]
  BY PublishParts DEF Granting
<1>6. \A l \in Records(m) : l.ip = task[t].ip /\ ~l.static /\ l.left >= task[t].left
  BY <1>1, PublishParts DEF Flushed
<1>7. Recorded'
  <2> SUFFICES ASSUME NEW c \in Mac, bound'[c].ip # 0, StaticIp[c] = 0 \/ "overlay" \notin blame
               PROVE  /\ bound'[c].left > 0
                      /\ Covers(leases[c], bound[c], c)'
                      /\ torn' \/ Covers(file[c], bound[c], c)'
    BY PublishParts DEF Recorded
  <2>1. CASE bound'[c] = bound[c]
    BY <1>1, <1>5, <2>1, PublishParts DEF Recorded, Covers
  <2>2. CASE c = m /\ task[t].left > 0 /\ bound'[c].ip = task[t].ip /\ bound'[c].left = task[t].left
    BY <1>6, <2>2, PublishParts DEF Covers, Records
  <2>3. QED
    BY <2>1, <2>2, PublishParts
<1>8. Named'
  <2> SUFFICES ASSUME NEW c \in Mac, bound'[c].ip # 0, StaticIp[c] = 0, OwnName(c)
               PROVE  hosts'[NameOf[c]] = bound'[c].ip
    BY DEF Named, OwnName
  <2>1. NameOf[c] \in Name
    BY NameAssumption DEF OwnName
  <2>2. CASE c = m
    <3>1. bound'[c].ip = task[t].ip
      BY <1>1, <2>2, PublishParts DEF GaveUp, Confirming
    <3>2. QED
      BY <2>1, <2>2, <3>1, PublishParts
  <2>3. CASE c # m
    <3>1. NameOf[c] # NameOf[m]
      BY <2>3, PublishParts DEF OwnName
    <3>2. bound'[c] = bound[c] /\ hosts'[NameOf[c]] = hosts[NameOf[c]]
      BY <2>1, <2>3, <3>1, PublishParts
    <3>3. QED
      BY <1>1, <3>2 DEF Named
  <2>4. QED
    BY <2>2, <2>3
<1>9. QED
  BY <1>2, <1>3, <1>4, <1>7, <1>8

\* A RELEASE takes away what its client has given up.
LEMMA RemoveCalm ==
    ASSUME TypeInv, CalmInv, NEW t \in Task, Remove(t)
    PROVE  CalmInv'
<1> DEFINE m == task[t].mac
<1> SUFFICES ASSUME Calm' PROVE Alone' /\ GaveUp' /\ Flushed' /\ Recorded' /\ Named'
  BY DEF CalmInv
<1>1. Alone /\ GaveUp /\ Flushed /\ Recorded /\ Named
  BY RemoveParts, CalmKept DEF CalmInv
<1>2. /\ bound[m].ip = 0
      /\ \A u \in Task : task[u].mac = m => task[u].at \notin Confirming
  BY <1>1, RemoveParts DEF Alone, GaveUp, Releasing, Confirming
<1>3. Alone' /\ GaveUp'
  BY <1>1, RemoveParts DEF Alone, GaveUp, Confirming, Releasing
<1>4. \A c \in Mac \ {m} :
         /\ leases'[c] = leases[c]
         /\ torn' \/ file'[c] = leases[c] \/ (~torn /\ file'[c] = file[c])
  BY RemoveParts DEF Flush, FlushFails, TypeInv, TypeOK
<1>5. Flushed'
  BY <1>1, <1>2, <1>4, RemoveParts DEF Flushed, Records, Confirming, TypeInv, Working
<1>6. \A c \in Mac : Granting(c)' \subseteq Granting(c) /\ \A u \in Granting(c)' : task'[u] = task[u]
  BY RemoveParts DEF Granting
<1>7. Recorded'
  <2> SUFFICES ASSUME NEW c \in Mac, bound[c].ip # 0, StaticIp[c] = 0 \/ "overlay" \notin blame
               PROVE  /\ bound'[c].left > 0
                      /\ Covers(leases[c], bound[c], c)'
                      /\ torn' \/ Covers(file[c], bound[c], c)'
    BY RemoveParts DEF Recorded
  <2>1. c # m /\ bound' = bound
    BY <1>2, RemoveParts
  <2>2. /\ bound[c].left > 0 /\ Covers(leases[c], bound[c], c)
        /\ torn \/ Covers(file[c], bound[c], c)
    BY <1>1 DEF Recorded
  <2>3. QED
    BY <1>4, <1>6, <2>1, <2>2 DEF Covers
<1>8. Named'
  BY <1>1, RemoveParts DEF Named, OwnName
<1>9. QED
  BY <1>3, <1>5, <1>7, <1>8

LEMMA UnpublishCalm ==
    ASSUME TypeInv, CalmInv, NEW t \in Task, Unpublish(t)
    PROVE  CalmInv'
<1> DEFINE m == task[t].mac
<1> SUFFICES ASSUME Calm' PROVE Alone' /\ GaveUp' /\ Flushed' /\ Recorded' /\ Named'
  BY DEF CalmInv
<1>1. Alone /\ GaveUp /\ Flushed /\ Recorded /\ Named
  BY UnpublishParts, CalmKept DEF CalmInv
<1>2. Alone' /\ GaveUp' /\ Flushed'
  BY <1>1, UnpublishParts DEF Alone, GaveUp, Flushed, Records, Confirming, Releasing
<1>3. \A c \in Mac : Granting(c)' \subseteq Granting(c) /\ \A u \in Granting(c)' : task'[u] = task[u]
  BY UnpublishParts DEF Granting
<1>4. Recorded'
  BY <1>1, <1>3, UnpublishParts DEF Recorded, Covers
<1>5. Named'
  <2> SUFFICES ASSUME NEW c \in Mac, bound[c].ip # 0, StaticIp[c] = 0, OwnName(c)
               PROVE  hosts'[NameOf[c]] = bound[c].ip
    BY UnpublishParts DEF Named, OwnName
  <2>1. c # m
    BY <1>1, UnpublishParts DEF GaveUp, Releasing
  <2>2. NameOf[c] \in Name /\ NameOf[c] # NameOf[m]
    BY <2>1, NameAssumption, UnpublishParts DEF OwnName
  <2>3. QED
    BY <1>1, <2>2, UnpublishParts DEF Named
<1>6. QED
  BY <1>2, <1>4, <1>5

LEMMA TickCalm == ASSUME TypeInv, CalmInv, Tick PROVE CalmInv'
<1> SUFFICES ASSUME Calm' PROVE Alone' /\ GaveUp' /\ Flushed' /\ Recorded' /\ Named'
  BY DEF CalmInv
<1>1. Alone /\ GaveUp /\ Flushed /\ Recorded /\ Named
  BY TickParts, CalmKept DEF CalmInv
<1>2. \A m \in Mac : bound'[m].ip \in {0, bound[m].ip}
  BY TickParts, NoLeaseParts
<1>3. Alone'
  BY <1>1, TickParts DEF Alone
<1>4. GaveUp'
  BY <1>1, <1>2, TickParts, NoLeaseParts DEF GaveUp, TypeInv, Working, Confirming, Releasing
<1>5. \A m \in Mac : leases[m].left \in Nat /\ file[m].left \in Nat /\ bound[m].left \in Nat
  BY LeaseParts DEF TypeInv, TypeOK, Time
<1>6. \A t \in Task : task[t].left \in Nat
  BY DEF TypeInv, TypeOK, Time
<1>7. Flushed'
  <2> SUFFICES ASSUME NEW t \in Task, task[t].at = "publish"
               PROVE  \A l \in Records(task[t].mac)' :
                         l.ip = task'[t].ip /\ ~l.static /\ l.left >= task'[t].left
    BY TickParts DEF Flushed, Records
  <2>1. task[t].mac \in Mac
    BY DEF TypeInv, Working
  <2>2. \A l \in Records(task[t].mac) :
           l.ip = task[t].ip /\ ~l.static /\ l.left >= task[t].left
    BY <1>1 DEF Flushed
  <2>3. QED
    BY <1>5, <1>6, <2>1, <2>2, TickParts DEF Records
<1>8. Recorded'
  <2> SUFFICES ASSUME NEW m \in Mac, bound'[m].ip # 0, StaticIp[m] = 0 \/ "overlay" \notin blame
               PROVE  /\ bound'[m].left > 0
                      /\ Covers(leases[m], bound[m], m)'
                      /\ torn \/ Covers(file[m], bound[m], m)'
    BY TickParts DEF Recorded
  <2>1. bound[m].left > 1 /\ bound'[m].ip = bound[m].ip /\ bound'[m].left = bound[m].left - 1
    BY TickParts, NoLeaseParts
  <2>2. Covers(leases[m], bound[m], m) /\ (torn \/ Covers(file[m], bound[m], m))
    BY <1>1, <2>1 DEF Recorded
  <2>3. \A t \in Granting(m)' : t \in Granting(m) /\ t \in Task
    BY TickParts DEF Granting
  <2>4. Covers(leases[m], bound[m], m)'
    BY <1>5, <1>6, <2>1, <2>2, <2>3, TickParts, SMTT(30) DEF Covers
  <2>5. torn \/ Covers(file[m], bound[m], m)'
    BY <1>5, <1>6, <2>1, <2>2, <2>3, TickParts, SMTT(30) DEF Covers
  <2>6. QED
    BY <1>5, <2>1, <2>4, <2>5
<1>9. Named'
  <2>1. hosts' = hosts /\ \A m \in Mac : bound'[m].ip # 0 => bound[m].ip = bound'[m].ip
    BY <1>2, TickParts
  <2>2. QED
    BY <1>1, <2>1 DEF Named, OwnName
<1>10. QED
  BY <1>3, <1>4, <1>7, <1>8, <1>9

\* What was ACKed is in the file, and comes back from there with its name.
LEMMA CrashCalm == ASSUME TypeInv, CalmInv, Crash PROVE CalmInv'
<1> SUFFICES ASSUME Calm' PROVE Alone' /\ GaveUp' /\ Flushed' /\ Recorded' /\ Named'
  BY DEF CalmInv
<1>1. /\ Alone /\ GaveUp /\ Flushed /\ Recorded /\ Named
      /\ Serve(file) /\ ~torn /\ ("overlay" \notin blame' => ~Clash(file))
  BY CrashParts, CalmKept DEF CalmInv, Calm
<1>2. Alone' /\ GaveUp' /\ Flushed'
  BY CrashParts DEF Alone, GaveUp, Flushed, Records, Confirming, Releasing, Idle
<1>3. /\ leases' = Overlaid(file) /\ file' = Overlaid(file) /\ bound' = bound
      /\ file \in [Mac -> Lease]
      /\ \A m \in Mac : Granting(m)' = {}
  <2>1. leases' = Overlaid(file) /\ file' = Overlaid(file)
    BY <1>1 DEF Serve, Flush
  <2>2. \A m \in Mac : Granting(m)' = {}
    BY CrashParts DEF Granting, Idle
  <2>3. QED
    BY <2>1, <2>2, CrashParts DEF TypeInv, TypeOK
<1>4. \A m \in Mac : file[m].left \in Nat /\ bound[m].left \in Nat
  BY LeaseParts DEF TypeInv, TypeOK, Time
<1>5. Recorded'
  <2> SUFFICES ASSUME NEW m \in Mac, bound[m].ip # 0, StaticIp[m] = 0 \/ "overlay" \notin blame'
               PROVE  /\ bound[m].left > 0
                      /\ leases'[m] = file'[m] /\ Covers(file[m], bound[m], m)'
    BY <1>3 DEF Recorded, Covers
  <2>1. "overlay" \notin blame' => "overlay" \notin blame
    BY CrashParts
  <2>2. bound[m].left > 0 /\ Covers(file[m], bound[m], m)
    BY <1>1, <2>1 DEF Recorded
  <2>3. CASE StaticIp[m] = 0
    BY <1>3, <2>2, <2>3, OverlaidParts DEF Covers, TypeInv, StaticOnly
  <2>4. CASE StaticIp[m] # 0
    <3>1. ~(Active(file[m]) /\ file[m].ip # StaticIp[m])
      BY <1>1, <2>4 DEF Clash
    <3>2. file[m].ip = bound[m].ip /\ Active(file[m])
      BY <1>4, <2>2 DEF Covers, Active
    <3>3. file'[m] = Static(m) /\ Static(m).ip = bound[m].ip /\ Static(m).static
      BY <1>3, <2>4, <3>1, <3>2, OverlaidParts
    <3>4. QED
      BY <1>3, <2>2, <3>3 DEF Covers
  <2>5. QED
    BY <2>3, <2>4
<1>6. Named'
  <2> SUFFICES ASSUME NEW m \in Mac, bound[m].ip # 0, StaticIp[m] = 0, OwnName(m)
               PROVE  hosts'[NameOf[m]] = bound[m].ip
    BY <1>3 DEF Named, OwnName
  <2> DEFINE n == NameOf[m]
             store == Overlaid(file)
             Ips(s) == {store[c].ip : c \in {d \in Mac : /\ NameOf[d] = n
                                                         /\ Active(store[d])
                                                         /\ store[d].static = s}}
  <2>1. n \in Name /\ \A c \in Mac : NameOf[c] = n => c = m
    BY NameAssumption DEF OwnName
  <2>2. /\ store[m] = file[m] /\ file[m].ip = bound[m].ip /\ file[m].static = FALSE
        /\ Active(file[m])
    <3>1. store[m] = file[m] /\ ~file[m].static /\ file[m].static \in BOOLEAN
      BY <1>3, OverlaidParts, LeaseParts DEF TypeInv, StaticOnly
    <3>2. Covers(file[m], bound[m], m) /\ bound[m].left > 0
      BY <1>1 DEF Recorded
    <3>3. file[m].ip = bound[m].ip /\ file[m].left > 0
      BY <1>4, <3>1, <3>2 DEF Covers
    <3>4. QED
      BY <3>1, <3>3 DEF Active
  <2>3. hosts'[n] \in Registered(store, n)
    BY <1>1, <2>1 DEF Serve
  <2>4. Registered(store, n) = IF Ips(FALSE) # {} THEN Ips(FALSE)
                               ELSE IF Ips(TRUE) # {} THEN Ips(TRUE) ELSE {0}
    BY DEF Registered
  <2>5. Ips(FALSE) = {bound[m].ip}
    BY <2>1, <2>2
  <2>6. QED
    BY <2>3, <2>4, <2>5
<1>7. QED
  BY <1>2, <1>5, <1>6

LEMMA CalmStep == ASSUME TypeInv, CalmInv, [Next]_vars PROVE CalmInv'
<1>1. ASSUME NEW t \in Task, Allocate(t) \/ Offer(t) \/ ProbeFails(t) PROVE CalmInv'
  <2>1. task' \in [Task -> TaskState] /\ blame \subseteq blame' /\ UNCHANGED <<leases, file, torn, hosts>>
    BY <1>1, AllocateTypes, OfferTypes, ProbeFailsTypes
       DEF Allocate, Offer, ProbeFails, TypeInv, TypeOK, TaskState
  <2>2. /\ task'[t].at \notin Confirming \cup Releasing
        /\ \A u \in Task \ {t} : task'[u] = task[u]
    BY <1>1, DoneParts DEF Allocate, Offer, ProbeFails, Nak, TypeInv, TypeOK, Idle,
                           Confirming, Releasing
  <2>3. \A m \in Mac : bound'[m] = bound[m] \/ bound'[m] = NoLease
    BY <1>1 DEF Allocate, Offer, ProbeFails, Nak, TypeInv, TypeOK
  <2>4. QED
    BY <2>1, <2>2, <2>3, QuietCalm
<1>2. ASSUME NEW t \in Task, Handle(t) PROVE CalmInv'
  BY <1>1, <1>2, WithdrawCalm, GrantCalm, PublishCalm, RemoveCalm, UnpublishCalm DEF Handle
<1>3. CASE UNCHANGED vars
  BY <1>3 DEF vars, CalmInv, Calm, Alone, GaveUp, Flushed, Records, Recorded, Covers, Granting, Named,
              OwnName
<1>4. QED
  BY <1>2, <1>3, DiscoverCalm, RequestCalm, ReleaseCalm, TickCalm, CrashCalm DEF Next

\* What a client was ACKed is in the store for as long as it lasts, and on disk
\* unless a failed write has cut the file off: insert flushes before confirm
\* returns, and every flush writes the whole store.
THEOREM AcksAreRecorded == Spec => []AckedIsRecorded
<1>1. TypeInv /\ CalmInv => AckedIsRecorded
  BY DEF TypeInv, CalmInv, Calm, StaticOnly, Recorded, Covers, Keeps, AckedIsRecorded
<1>2. QED
  BY <1>1, TypeInit, TypeStep, CalmInit, CalmStep, PTL DEF Spec

\* A client with a name of its own is looked up under it for as long as its lease
\* lasts, across failed writes and restarts that read a whole file: the name is in place before the ACK is sent.
THEOREM NamesAlwaysResolve == Spec => []NamesResolve
<1>1. CalmInv => NamesResolve
  BY DEF CalmInv, Calm, Named, OwnName, NamesResolve
<1>2. QED
  BY <1>1, TypeInit, TypeStep, CalmInit, CalmStep, PTL DEF Spec

---------------------------------------------------------------------------
(* Addresses are apart: as long as nothing is to blame *)

\* A step after which nobody claims more.
LEMMA NoNewClaims ==
    ASSUME ClaimsApart, \A m \in Mac, ip \in Ip : Claims(m, ip)' => Claims(m, ip)
    PROVE  ClaimsApart'
BY DEF ClaimsApart

\* A file that is as it was, or the store, or cut off.
LEMMA FileKept ==
    ASSUME FileApart, ClaimsApart', file' = file \/ Flush \/ FlushFails
    PROVE  FileApart'
BY NoLeaseParts DEF FileApart, ClaimsApart, Claims, Holders, Active, Flush, FlushFails, Nothing

\* A lease that was ACKed gives its client a claim.
LEMMA BoundClaims ==
    ASSUME TypeInv, CalmInv, blame = {}, NEW m \in Mac, bound[m].ip # 0
    PROVE  bound[m].ip \in Ip /\ Claims(m, bound[m].ip)
<1>1. bound[m].left > 0 /\ Covers(leases[m], bound[m], m)
  BY DEF CalmInv, Calm, Recorded
<1>2. /\ leases[m].left \in Nat /\ bound[m].left \in Nat /\ bound[m].ip \in 0..PoolSize
  BY LeaseParts DEF TypeInv, TypeOK, Time
<1>3. leases[m].ip = bound[m].ip /\ Active(leases[m])
  BY <1>1, <1>2 DEF Covers, Active
<1>4. QED
  BY <1>2, <1>3, PoolAssumption DEF Claims, Holders, Ip

LEMMA BlamelessInit == Init => BlamelessInv
<1> SUFFICES ASSUME Init, Sensible PROVE ClaimsApart /\ FileApart /\ Reserved
  BY DEF BlamelessInv
<1> DEFINE none == Nothing
<1>1. none \in [Mac -> Lease] /\ \A m \in Mac : ~Active(none[m])
  BY NoLeaseParts DEF Active, Nothing
<1>2. /\ leases = Overlaid(none) /\ file = leases
      /\ \A t \in Task : task[t].at = "idle"
      /\ \A m \in Mac : offer[m].left = 0
  BY DEF Init, Idle, NoOffer
<1> HIDE DEF none
<1>3. ASSUME NEW m \in Mac, NEW ip \in Ip, m \in Holders(leases, ip)
      PROVE  StaticIp[m] = ip
  BY <1>1, <1>2, <1>3, OverlaidParts DEF Holders
<1>4. \A m, c \in Mac, ip \in Ip : m \in Holders(leases, ip) /\ c \in Holders(leases, ip) => m = c
  BY <1>3, PoolAssumption DEF Sensible, Ip
<1>5. QED
  BY <1>2, <1>4 DEF ClaimsApart, Claims, FileApart, Reserved

LEMMA SpawnBlameless ==
    ASSUME TypeInv, BlamelessInv, Sensible, blame' = {},
           NEW t \in Task, NEW m \in Mac, NEW ip \in 0..PoolSize,
           NEW at \in {"allocate", "confirm", "remove"}, Spawn(t, at, m, ip),
           (at # "remove" /\ offer' = offer) \/ offer' = [offer EXCEPT ![m] = NoOffer],
           UNCHANGED <<offered, leases, file, torn>>
    PROVE  ClaimsApart' /\ FileApart' /\ Reserved'
<1>1. at \in At /\ at \notin {"offer", "grant"}
  BY DEF At
<1>2. /\ task[t].at = "idle" /\ task'[t].at = at /\ task'[t].mac = m
      /\ \A u \in Task \ {t} : task'[u] = task[u]
      /\ blame = {}
  BY <1>1, SpawnParts DEF TypeInv
<1>3. ClaimsApart /\ FileApart /\ Reserved
  BY <1>2 DEF BlamelessInv
<1>4. \A c \in Mac : \/ offer'[c] = offer[c] /\ (at = "remove" => c # m)
                     \/ offer'[c] = NoOffer
  BY DEF TypeInv, TypeOK
<1>5. ASSUME NEW c \in Mac, NEW i \in Ip, Claims(c, i)' PROVE Claims(c, i)
  BY <1>1, <1>2, <1>4, <1>5, NoLeaseParts DEF Claims, Holders
<1>6. ClaimsApart'
  BY <1>3, <1>5, NoNewClaims
<1>7. FileApart'
  BY <1>3, <1>6, FileKept
<1>8. \A c \in Mac : Granting(c)' = Granting(c) /\ \A u \in Granting(c) : task'[u] = task[u]
  BY <1>1, <1>2 DEF Granting
<1>9. Reserved'
  <2> SUFFICES ASSUME NEW c \in Mac, offer'[c].left > 0
               PROVE  \/ \E o \in offered : o.ip = offer'[c].ip /\ o.left >= offer'[c].left
                      \/ \E u \in Granting(c)' : /\ task'[u].ip = offer'[c].ip
                                                 /\ task'[u].left >= offer'[c].left
                      \/ /\ leases[c].ip = offer'[c].ip /\ leases[c].left >= offer'[c].left
                         /\ \A u \in Granting(c)' : task'[u].ip = offer'[c].ip
                         /\ \A u \in Task : task'[u].mac = c => task'[u].at # "remove"
    BY DEF Reserved
  <2>1. offer'[c] = offer[c] /\ (at = "remove" => c # m)
    BY <1>4, NoLeaseParts
  <2>2. \A u \in Task : task'[u].mac = c /\ task'[u].at = "remove" =>
                           task[u].mac = c /\ task[u].at = "remove"
    BY <1>2, <2>1
  <2>3. QED
    BY <1>3, <1>8, <2>1, <2>2 DEF Reserved
<1>10. QED
  BY <1>6, <1>7, <1>9

\* The address that is allocated is the client's own, or nobody's: whoever was
\* offered it is in one of the two tables or in the window between them.
LEMMA AllocateBlameless ==
    ASSUME TypeInv, BlamelessInv, Sensible, blame' = {}, NEW t \in Task, Allocate(t)
    PROVE  ClaimsApart' /\ FileApart' /\ Reserved'
<1> DEFINE m == task[t].mac
<1>1. /\ task[t].at = "allocate" /\ m \in Mac /\ blame = {}
      /\ UNCHANGED <<leases, file, torn, offer>> /\ offered' = LiveOffers
  BY DEF Allocate, TypeInv, Working
<1>2. ClaimsApart /\ FileApart /\ Reserved
  BY <1>1 DEF BlamelessInv
<1>3. PICK ip \in Allocatable(m, task[t].ip) :
         /\ task' = [task EXCEPT ![t] = IF ip = 0 THEN Idle
                ELSE [at |-> "offer", mac |-> task[t].mac, ip |-> ip, left |-> 0]]
         /\ ip # 0 => ~InWindow(ip, m) /\ Holders(leases, ip) \ {m} = {}
  BY DEF Allocate
<1>4. /\ \A u \in Task \ {t} : task'[u] = task[u]
      /\ IF ip = 0 THEN task'[t].at = "idle"
         ELSE task'[t].at = "offer" /\ task'[t].mac = m /\ task'[t].ip = ip
  BY <1>3 DEF TypeInv, TypeOK, Idle
<1>5. ASSUME NEW c \in Mac, NEW i \in Ip, Claims(c, i)'
      PROVE  Claims(c, i) \/ (c = m /\ i = ip /\ ip # 0)
  BY <1>1, <1>4, <1>5 DEF Claims, Holders
<1>6. ASSUME NEW c \in Mac, ip \in Ip, Claims(c, ip) PROVE c = m
  <2>1. CASE Active(leases[m])
    <3>1. ip = leases[m].ip
      BY <1>3, <2>1 DEF Allocatable
    <3>2. Claims(m, ip)
      BY <1>1, <2>1, <3>1 DEF Claims, Holders
    <3>3. QED
      BY <1>1, <1>2, <1>6, <3>2 DEF ClaimsApart
  <2>2. CASE ~Active(leases[m])
    <3>1. ip # 0 /\ ~IsOffered(ip)
      BY <1>3, <1>6, <2>2, PoolAssumption DEF Allocatable, Ip
    <3>2. c \notin Holders(leases, ip) \ {m} /\ ~InWindow(ip, m)
      BY <1>3, <3>1
    <3>3. CASE c \in Holders(leases, ip)
      BY <3>2, <3>3
    <3>4. CASE \E u \in Task : task[u].mac = c /\ task[u].ip = ip /\ task[u].at \in {"offer", "grant"}
      BY <3>2, <3>4 DEF InWindow
    <3>5. CASE offer[c].ip = ip /\ offer[c].left > 0
      <4>1. offer[c].left \in Nat /\ leases[c].left \in Nat
        BY LeaseParts DEF TypeInv, TypeOK, Time
      <4>2. ~\E o \in offered : o.ip = ip /\ o.left >= offer[c].left
        <5> SUFFICES ASSUME NEW o \in offered, o.ip = ip, o.left >= offer[c].left PROVE FALSE
          OBVIOUS
        <5>1. o.left \in Nat
          BY DEF TypeInv, TypeOK
        <5>2. QED
          BY <3>1, <3>5, <4>1, <5>1 DEF IsOffered, LiveOffers
      <4>3. CASE \E u \in Granting(c) : task[u].ip = ip
        BY <3>2, <4>3 DEF InWindow, Granting
      <4>4. CASE leases[c].ip = ip /\ leases[c].left >= offer[c].left
        BY <3>1, <3>2, <3>5, <4>1, <4>4 DEF Holders, Active
      <4>5. QED
        BY <1>2, <3>5, <4>2, <4>3, <4>4 DEF Reserved
    <3>6. QED
      BY <1>6, <3>3, <3>4, <3>5 DEF Claims
  <2>3. QED
    BY <2>1, <2>2
<1>7. ClaimsApart'
  <2> SUFFICES ASSUME NEW c \in Mac, NEW d \in Mac, NEW i \in Ip, Claims(c, i)', Claims(d, i)'
               PROVE  c = d
    BY DEF ClaimsApart
  <2>1. CASE i = ip
    BY <1>5, <1>6, <2>1
  <2>2. CASE i # ip
    BY <1>2, <1>5, <2>2 DEF ClaimsApart
  <2>3. QED
    BY <2>1, <2>2
<1>8. FileApart'
  BY <1>1, <1>2, <1>7, FileKept
<1>9. Reserved'
  <2>1. \A c \in Mac : Granting(c)' = Granting(c) /\ \A u \in Granting(c) : task'[u] = task[u]
    BY <1>1, <1>4 DEF Granting
  <2>2. \A c \in Mac : offer[c].left \in Nat
    BY DEF TypeInv, TypeOK
  <2>3. \A o \in offered : o.left \in Nat
    BY DEF TypeInv, TypeOK
  <2>4. \A c \in Mac, o \in offered : o.left >= offer[c].left /\ offer[c].left > 0 => o \in offered'
    BY <1>1, <2>2, <2>3 DEF LiveOffers
  <2>5. \A u \in Task : task'[u].at = "remove" => task[u] = task'[u]
    BY <1>4
  <2>6. QED
    BY <1>1, <1>2, <2>1, <2>4, <2>5 DEF Reserved
<1>10. QED
  BY <1>7, <1>8, <1>9

LEMMA OfferBlameless ==
    ASSUME TypeInv, BlamelessInv, Sensible, blame' = {}, NEW t \in Task, Offer(t)
    PROVE  ClaimsApart' /\ FileApart' /\ Reserved'
<1> DEFINE m == task[t].mac
           new == [ip |-> task[t].ip, left |-> OfferTime]
<1>1. /\ task[t].at = "offer" /\ m \in Mac /\ blame = {}
      /\ UNCHANGED <<leases, file, torn>> /\ offered' = offered \cup {new}
      /\ task'[t].at = "idle" /\ \A u \in Task \ {t} : task'[u] = task[u]
  BY DoneParts DEF Offer, TypeInv, Working
<1>2. ClaimsApart /\ FileApart /\ Reserved
  BY <1>1 DEF BlamelessInv
<1>3. \A c \in Mac : offer'[c] = offer[c] \/ (c = m /\ offer'[c] = new)
  BY <1>1 DEF Offer, TypeInv, TypeOK
<1>4. ASSUME NEW c \in Mac, NEW i \in Ip, Claims(c, i)' PROVE Claims(c, i)
  <2>1. CASE offer'[c] = offer[c]
    BY <1>1, <1>4, <2>1 DEF Claims, Holders
  <2>2. CASE c = m /\ offer'[c] = new
    BY <1>1, <1>4, <2>2 DEF Claims, Holders
  <2>3. QED
    BY <1>3, <2>1, <2>2
<1>5. ClaimsApart' /\ FileApart'
  BY <1>1, <1>2, <1>4, NoNewClaims, FileKept
<1>6. Reserved'
  <2> SUFFICES ASSUME NEW c \in Mac, offer'[c].left > 0
               PROVE  \/ \E o \in offered' : o.ip = offer'[c].ip /\ o.left >= offer'[c].left
                      \/ \E u \in Granting(c)' : /\ task'[u].ip = offer'[c].ip
                                                 /\ task'[u].left >= offer'[c].left
                      \/ /\ leases'[c].ip = offer'[c].ip /\ leases'[c].left >= offer'[c].left
                         /\ \A u \in Granting(c)' : task'[u].ip = offer'[c].ip
                         /\ \A u \in Task : task'[u].mac = c => task'[u].at # "remove"
    BY DEF Reserved
  <2>1. CASE c = m /\ offer'[c] = new
    BY <1>1, <2>1, TimeAssumption
  <2>2. CASE offer'[c] = offer[c]
    <3>1. Granting(c)' = Granting(c) /\ \A u \in Granting(c) : task'[u] = task[u]
      BY <1>1 DEF Granting
    <3>2. \A u \in Task : task'[u].at = "remove" => task'[u] = task[u]
      BY <1>1
    <3>3. QED
      BY <1>1, <1>2, <2>2, <3>1, <3>2 DEF Reserved
  <2>3. QED
    BY <1>3, <2>1, <2>2
<1>7. QED
  BY <1>5, <1>6

\* A step that touches no table, and no task that holds an address.
LEMMA AsideBlameless ==
    ASSUME TypeInv, BlamelessInv, Sensible, blame = {}, NEW t \in Task,
           task[t].at \notin {"grant"}, task'[t].at \notin {"offer", "grant", "remove"},
           \A u \in Task \ {t} : task'[u] = task[u],
           UNCHANGED <<offered, leases, file, torn, offer>>
    PROVE  ClaimsApart' /\ FileApart' /\ Reserved'
<1>1. ClaimsApart /\ FileApart /\ Reserved
  BY DEF BlamelessInv
<1>2. ASSUME NEW c \in Mac, NEW i \in Ip, Claims(c, i)' PROVE Claims(c, i)
  BY <1>2 DEF Claims, Holders
<1>3. ClaimsApart' /\ FileApart'
  BY <1>1, <1>2, NoNewClaims, FileKept
<1>4. \A c \in Mac : Granting(c)' = Granting(c) /\ \A u \in Granting(c) : task'[u] = task[u]
  BY DEF Granting
<1>5. \A u \in Task : task'[u].at = "remove" => task'[u] = task[u]
  OBVIOUS
<1>6. Reserved'
  BY <1>1, <1>4, <1>5 DEF Reserved
<1>7. QED
  BY <1>3, <1>6

\* Who may confirm has a claim, and a claim is one client's: the offers that are
\* withdrawn were made to nobody else.
LEMMA WithdrawBlameless ==
    ASSUME TypeInv, BlamelessInv, Sensible, blame' = {}, NEW t \in Task, Withdraw(t)
    PROVE  ClaimsApart' /\ FileApart' /\ Reserved'
<1> DEFINE m == task[t].mac
           ip == task[t].ip
<1>1. /\ task[t].at = "confirm" /\ m \in Mac /\ ip \in Ip /\ blame = {}
      /\ UNCHANGED <<leases, file, torn, offer>> /\ offered' = {o \in offered : o.ip # ip}
      /\ task'[t].at = "grant" /\ task'[t].mac = m /\ task'[t].ip = ip
      /\ task'[t].left = LeaseTime
      /\ \A u \in Task \ {t} : task'[u] = task[u]
  BY WithdrawParts DEF Withdraw
<1>2. \/ offer[m].ip = ip /\ offer[m].left > 0
      \/ m \in Holders(leases, ip)
  BY DEF Withdraw
<1>3. ClaimsApart /\ FileApart /\ Reserved
  BY <1>1 DEF BlamelessInv
<1>4. Claims(m, ip)
  BY <1>2 DEF Claims
<1>5. ASSUME NEW c \in Mac, NEW i \in Ip, Claims(c, i)' PROVE Claims(c, i)
  <2>1. CASE c = m /\ i = ip
    BY <1>4, <2>1
  <2>2. CASE ~(c = m /\ i = ip)
    BY <1>1, <1>5, <2>2 DEF Claims, Holders
  <2>3. QED
    BY <2>1, <2>2
<1>6. ClaimsApart' /\ FileApart'
  BY <1>1, <1>3, <1>5, NoNewClaims, FileKept
<1>7. ASSUME NEW c \in Mac PROVE Granting(c)' = Granting(c) \cup {u \in {t} : c = m}
  BY <1>1 DEF Granting
<1>8. ASSUME NEW c \in Mac, NEW u \in Granting(c) PROVE u \in Task /\ task'[u] = task[u]
  BY <1>1 DEF Granting
<1>9. Reserved'
  <2> SUFFICES ASSUME NEW c \in Mac, offer[c].left > 0
               PROVE  \/ \E o \in offered' : o.ip = offer[c].ip /\ o.left >= offer[c].left
                      \/ \E u \in Granting(c)' : /\ task'[u].ip = offer[c].ip
                                                 /\ task'[u].left >= offer[c].left
                      \/ /\ leases[c].ip = offer[c].ip /\ leases[c].left >= offer[c].left
                         /\ \A u \in Granting(c)' : task'[u].ip = offer[c].ip
                         /\ \A u \in Task : task'[u].mac = c => task'[u].at # "remove"
    BY <1>1 DEF Reserved
  <2>1. CASE offer[c].ip = ip
    <3>1. Claims(c, ip)
      BY <2>1 DEF Claims
    <3>2. c = m
      BY <1>1, <1>3, <1>4, <3>1 DEF ClaimsApart
    <3>3. t \in Granting(c)' /\ offer[c].left <= LeaseTime
      BY <1>1, <3>2, TimeAssumption DEF Granting, TypeInv, TypeOK, Sensible
    <3>4. QED
      BY <1>1, <2>1, <3>3, TimeAssumption DEF TypeInv, TypeOK
  <2>2. CASE offer[c].ip # ip
    <3>1. CASE \E o \in offered : o.ip = offer[c].ip /\ o.left >= offer[c].left
      BY <1>1, <2>2, <3>1
    <3>2. CASE \E u \in Granting(c) : task[u].ip = offer[c].ip /\ task[u].left >= offer[c].left
      BY <1>7, <1>8, <3>2
    <3>3. CASE /\ leases[c].ip = offer[c].ip /\ leases[c].left >= offer[c].left
               /\ \A u \in Granting(c) : task[u].ip = offer[c].ip
               /\ \A u \in Task : task[u].mac = c => task[u].at # "remove"
      <4>1. c # m
        BY <1>2, <2>2, <3>3 DEF Holders
      <4>2. Granting(c)' = Granting(c)
        BY <1>7, <4>1
      <4>3. \A u \in Task : task'[u].mac = c => task'[u].at # "remove"
        BY <1>1, <3>3
      <4>4. QED
        BY <1>8, <3>3, <4>2, <4>3
    <3>4. QED
      BY <1>3, <3>1, <3>2, <3>3 DEF Reserved
  <2>3. QED
    BY <2>1, <2>2
<1>10. QED
  BY <1>6, <1>9

\* The claim by the lease was the claim of the task, and the lease lasts as long.
LEMMA GrantBlameless ==
    ASSUME TypeInv, CalmInv, BlamelessInv, Sensible, blame' = {}, NEW t \in Task, Grant(t)
    PROVE  ClaimsApart' /\ FileApart' /\ Reserved'
<1> DEFINE m == task[t].mac
<1>1. /\ task[t].at = "grant" /\ m \in Mac /\ task[t].ip \in Ip /\ blame = {}
      /\ leases'[m].ip = task[t].ip /\ leases'[m].left = task[t].left
      /\ leases[m].left <= task[t].left
      /\ \A c \in Mac \ {m} : leases'[c] = leases[c]
      /\ task'[t].at \in {"publish", "idle"}
      /\ \A u \in Task \ {t} : task'[u] = task[u]
      /\ Flush \/ FlushFails
  BY GrantParts
<1>2. UNCHANGED <<offered, offer>>
  BY DEF Grant
<1>3. ClaimsApart /\ FileApart /\ Reserved /\ Alone
  BY <1>1 DEF BlamelessInv, CalmInv, Calm
<1>4. ASSUME NEW c \in Mac, NEW i \in Ip, Claims(c, i)' PROVE Claims(c, i)
  <2>1. CASE c = m /\ i = task[t].ip
    BY <1>1, <2>1 DEF Claims
  <2>2. CASE ~(c = m /\ i = task[t].ip)
    BY <1>1, <1>2, <1>4, <2>2 DEF Claims, Holders
  <2>3. QED
    BY <2>1, <2>2
<1>5. ClaimsApart' /\ FileApart'
  BY <1>1, <1>3, <1>4, NoNewClaims, FileKept
<1>6. \A c \in Mac : Granting(c)' = Granting(c) \ {t} /\ \A u \in Granting(c)' : task'[u] = task[u]
  BY <1>1 DEF Granting
<1>7. \A u \in Task : task'[u].at = "remove" => task'[u] = task[u]
  BY <1>1
<1>8. /\ \A u \in Granting(m) : u \in Task /\ task[u].ip = task[t].ip
      /\ \A u \in Task : task[u].mac = m => task[u].at # "remove"
  BY <1>1, <1>3 DEF Alone, Granting, Confirming, Releasing
<1>9. Reserved'
  <2> SUFFICES ASSUME NEW c \in Mac, offer[c].left > 0
               PROVE  \/ \E o \in offered : o.ip = offer[c].ip /\ o.left >= offer[c].left
                      \/ \E u \in Granting(c)' : /\ task'[u].ip = offer[c].ip
                                                 /\ task'[u].left >= offer[c].left
                      \/ /\ leases'[c].ip = offer[c].ip /\ leases'[c].left >= offer[c].left
                         /\ \A u \in Granting(c)' : task'[u].ip = offer[c].ip
                         /\ \A u \in Task : task'[u].mac = c => task'[u].at # "remove"
    BY <1>2 DEF Reserved
  <2>1. CASE c # m
    <3>1. Granting(c)' = Granting(c) /\ leases'[c] = leases[c]
      BY <1>1, <1>6, <2>1 DEF Granting
    <3>2. QED
      BY <1>3, <1>6, <1>7, <3>1 DEF Reserved
  <2>2. CASE c = m
    <3>1. \A u \in Task : task'[u].mac = c => task'[u].at # "remove"
      BY <1>7, <1>8, <2>2
    <3>2. \A u \in Granting(c)' : task'[u].ip = task[t].ip
      BY <1>6, <1>8, <2>2
    <3>3. task[t].left \in Nat /\ leases[c].left \in Nat /\ offer[c].left \in Nat
      BY <1>1, GrantParts, LeaseParts, <2>2 DEF TypeInv, TypeOK, Time
    <3>4. CASE \E u \in Granting(c) : task[u].ip = offer[c].ip /\ task[u].left >= offer[c].left
      <4>1. PICK u \in Granting(c) : task[u].ip = offer[c].ip /\ task[u].left >= offer[c].left
        BY <3>4
      <4>2. CASE u = t
        BY <1>1, <2>2, <3>1, <3>2, <4>1, <4>2
      <4>3. CASE u # t
        BY <1>6, <4>1, <4>3
      <4>4. QED
        BY <4>2, <4>3
    <3>5. CASE /\ leases[c].ip = offer[c].ip /\ leases[c].left >= offer[c].left
               /\ \A u \in Granting(c) : task[u].ip = offer[c].ip
      <4>1. task[t].ip = offer[c].ip
        BY <1>1, <2>2, <3>5 DEF Granting
      <4>2. task[t].left >= offer[c].left
        BY <1>1, <2>2, <3>3, <3>5
      <4>3. QED
        BY <1>1, <2>2, <3>1, <3>2, <4>1, <4>2
    <3>6. QED
      BY <1>3, <3>4, <3>5 DEF Reserved
  <2>3. QED
    BY <2>1, <2>2
<1>10. QED
  BY <1>5, <1>9

\* Whoever gives its lease up has no offer that only the lease keeps.
LEMMA RemoveBlameless ==
    ASSUME TypeInv, BlamelessInv, Sensible, blame' = {}, NEW t \in Task, Remove(t)
    PROVE  ClaimsApart' /\ FileApart' /\ Reserved'
<1> DEFINE m == task[t].mac
<1>1. /\ task[t].at = "remove" /\ m \in Mac /\ blame = {}
      /\ leases'[m] = NoLease /\ \A c \in Mac \ {m} : leases'[c] = leases[c]
      /\ Flush \/ FlushFails
      /\ task'[t].at \in {"unpublish", "idle"}
      /\ \A u \in Task \ {t} : task'[u] = task[u]
      /\ UNCHANGED <<offered, offer>>
  BY RemoveParts
<1>2. ClaimsApart /\ FileApart /\ Reserved
  BY <1>1 DEF BlamelessInv
<1>3. ASSUME NEW c \in Mac, NEW i \in Ip, Claims(c, i)' PROVE Claims(c, i)
  BY <1>1, <1>3, NoLeaseParts DEF Claims, Holders, Active
<1>4. ClaimsApart' /\ FileApart'
  BY <1>1, <1>2, <1>3, NoNewClaims, FileKept
<1>5. \A c \in Mac : Granting(c)' = Granting(c) /\ \A u \in Granting(c) : task'[u] = task[u]
  BY <1>1 DEF Granting
<1>6. \A u \in Task : task'[u].at = "remove" => task'[u] = task[u]
  BY <1>1
<1>7. Reserved'
  BY <1>1, <1>2, <1>5, <1>6 DEF Reserved
<1>8. QED
  BY <1>4, <1>7

\* Offers, tasks and leases grow old together.
LEMMA TickBlameless ==
    ASSUME TypeInv, BlamelessInv, Sensible, blame' = {}, Tick
    PROVE  ClaimsApart' /\ FileApart' /\ Reserved'
<1>1. ClaimsApart /\ FileApart /\ Reserved
  BY TickParts DEF BlamelessInv
<1>2. \A m \in Mac : /\ leases[m].left \in Nat /\ file[m].left \in Nat /\ offer[m].left \in Nat
  BY LeaseParts DEF TypeInv, TypeOK, Time
<1>3. \A m \in Mac, ip \in Ip : /\ m \in Holders(leases, ip)' => m \in Holders(leases, ip)
                                /\ m \in Holders(file, ip)' => m \in Holders(file, ip)
  BY <1>2, TickParts DEF Holders, Active
<1>4. \A m \in Mac : offer'[m].left > 0 =>
         /\ offer[m].left > 1
         /\ offer'[m].ip = offer[m].ip /\ offer'[m].left = offer[m].left - 1
  BY TickParts, NoLeaseParts
<1>5. ASSUME NEW c \in Mac, NEW i \in Ip, Claims(c, i)' PROVE Claims(c, i)
  <2>1. CASE c \in Holders(leases, i)'
    BY <1>3, <2>1 DEF Claims
  <2>2. CASE \E t \in Task : task'[t].mac = c /\ task'[t].ip = i /\ task'[t].at \in {"offer", "grant"}
    BY <2>2, TickParts DEF Claims
  <2>3. CASE offer'[c].ip = i /\ offer'[c].left > 0
    BY <1>2, <1>4, <2>3 DEF Claims
  <2>4. QED
    BY <1>5, <2>1, <2>2, <2>3 DEF Claims
<1>6. ClaimsApart' /\ FileApart'
  <2>1. ClaimsApart'
    BY <1>1, <1>5, NoNewClaims
  <2>2. FileApart'
    BY <1>1, <1>3 DEF FileApart
  <2>3. QED
    BY <2>1, <2>2
<1>7. Reserved'
  <2> SUFFICES ASSUME NEW c \in Mac, offer'[c].left > 0
               PROVE  \/ \E o \in offered' : o.ip = offer'[c].ip /\ o.left >= offer'[c].left
                      \/ \E u \in Granting(c)' : /\ task'[u].ip = offer'[c].ip
                                                 /\ task'[u].left >= offer'[c].left
                      \/ /\ leases'[c].ip = offer'[c].ip /\ leases'[c].left >= offer'[c].left
                         /\ \A u \in Granting(c)' : task'[u].ip = offer'[c].ip
                         /\ \A u \in Task : task'[u].mac = c => task'[u].at # "remove"
    BY DEF Reserved
  <2>1. /\ offer[c].left > 1 /\ offer[c].left \in Nat /\ leases[c].left \in Nat
        /\ offer'[c].ip = offer[c].ip /\ offer'[c].left = offer[c].left - 1
    BY <1>2, <1>4
  <2>2. Granting(c)' = Granting(c) /\ \A u \in Granting(c) : u \in Task /\ task'[u].ip = task[u].ip
    BY TickParts DEF Granting
  <2>3. CASE \E o \in offered : o.ip = offer[c].ip /\ o.left >= offer[c].left
    <3>1. PICK o \in offered : o.ip = offer[c].ip /\ o.left >= offer[c].left
      BY <2>3
    <3>2. PICK p \in offered' : p.ip = o.ip /\ p.left >= o.left - 1
      BY <3>1, TickParts
    <3>3. o.left \in Nat /\ p.left \in Nat
      BY <3>1, <3>2, TickParts DEF TypeInv, TypeOK
    <3>4. QED
      BY <2>1, <3>1, <3>2, <3>3
  <2>4. CASE \E u \in Granting(c) : task[u].ip = offer[c].ip /\ task[u].left >= offer[c].left
    <3>1. PICK u \in Granting(c) : task[u].ip = offer[c].ip /\ task[u].left >= offer[c].left
      BY <2>4
    <3>2. u \in Task /\ task[u].left \in Nat
      BY <3>1 DEF Granting, TypeInv, TypeOK, Time
    <3>3. task'[u].left >= offer'[c].left
      BY <2>1, <3>1, <3>2, TickParts
    <3>4. QED
      BY <2>1, <2>2, <3>1, <3>3
  <2>5. CASE /\ leases[c].ip = offer[c].ip /\ leases[c].left >= offer[c].left
             /\ \A u \in Granting(c) : task[u].ip = offer[c].ip
             /\ \A u \in Task : task[u].mac = c => task[u].at # "remove"
    <3>1. leases'[c].ip = leases[c].ip /\ leases'[c].left = leases[c].left - 1
      BY <2>1, <2>5, TickParts
    <3>2. \A u \in Task : task'[u].mac = c => task'[u].at # "remove"
      BY <2>5, TickParts
    <3>3. QED
      BY <2>1, <2>2, <2>5, <3>1, <3>2
  <2>6. QED
    BY <1>1, <2>1, <2>3, <2>4, <2>5 DEF Reserved
<1>8. QED
  BY <1>6, <1>7

\* A restart brings back what the file holds, and a binding that is overlaid on
\* it is on an address nobody has a lease on.
LEMMA CrashBlameless ==
    ASSUME TypeInv, BlamelessInv, Sensible, blame' = {}, Crash
    PROVE  ClaimsApart' /\ FileApart' /\ Reserved'
<1>1. /\ blame = {} /\ Serve(file) /\ ~Clash(file)
      /\ \A m \in Mac : offer'[m] = NoOffer
      /\ \A t \in Task : task'[t].at = "idle"
  BY CrashParts DEF Idle
<1>2. FileApart
  BY <1>1 DEF BlamelessInv
<1>3. leases' = Overlaid(file) /\ file' = leases' /\ file \in [Mac -> Lease]
  BY <1>1 DEF Serve, Flush, TypeInv, TypeOK
<1>4. ASSUME NEW m \in Mac, NEW ip \in Ip, m \in Holders(leases, ip)'
      PROVE  IF StaticIp[m] # 0 THEN StaticIp[m] = ip ELSE m \in Holders(file, ip)
  BY <1>3, <1>4, OverlaidParts DEF Holders
<1>5. ASSUME NEW m \in Mac, NEW c \in Mac, NEW ip \in Ip,
             m \in Holders(leases, ip)', c \in Holders(leases, ip)'
      PROVE  m = c
  <2>1. CASE StaticIp[m] # 0 /\ StaticIp[c] # 0
    BY <1>4, <1>5, <2>1 DEF Sensible
  <2>2. CASE StaticIp[m] = 0 /\ StaticIp[c] = 0
    BY <1>2, <1>4, <1>5, <2>2 DEF FileApart
  <2>3. CASE (StaticIp[m] = 0) # (StaticIp[c] = 0)
    BY <1>1, <1>4, <1>5, <2>3 DEF Clash
  <2>4. QED
    BY <2>1, <2>2, <2>3
<1>6. ASSUME NEW m \in Mac, NEW ip \in Ip, Claims(m, ip)' PROVE m \in Holders(leases, ip)'
  BY <1>1, <1>6, NoLeaseParts DEF Claims
<1>7. ClaimsApart'
  BY <1>5, <1>6 DEF ClaimsApart
<1>8. FileApart'
  BY <1>3, <1>5 DEF FileApart, Holders
<1>9. Reserved'
  BY <1>1, NoLeaseParts DEF Reserved
<1>10. QED
  BY <1>7, <1>8, <1>9

LEMMA BlamelessStep ==
    ASSUME TypeInv, CalmInv, BlamelessInv, [Next]_vars PROVE BlamelessInv'
<1> SUFFICES ASSUME Sensible, blame' = {} PROVE ClaimsApart' /\ FileApart' /\ Reserved'
  BY DEF BlamelessInv, Sensible
<1>1. ASSUME NEW t \in Task, NEW m \in Mac, NEW ip \in 0..PoolSize, Discover(t, m, ip)
      PROVE  ClaimsApart' /\ FileApart' /\ Reserved'
  BY <1>1, SpawnBlameless DEF Discover
<1>2. ASSUME NEW t \in Task, NEW m \in Mac, NEW ip \in Ip, Request(t, m, ip)
      PROVE  ClaimsApart' /\ FileApart' /\ Reserved'
  <2>1. ip \in 0..PoolSize
    BY PoolAssumption DEF Ip
  <2>2. QED
    BY <1>2, <2>1, SpawnBlameless DEF Request
<1>3. ASSUME NEW t \in Task, NEW m \in Mac, Release(t, m)
      PROVE  ClaimsApart' /\ FileApart' /\ Reserved'
  <2>1. 0 \in 0..PoolSize
    BY PoolAssumption
  <2>2. QED
    BY <1>3, <2>1, SpawnBlameless DEF Release
<1>4. ASSUME NEW t \in Task, Handle(t)
      PROVE  ClaimsApart' /\ FileApart' /\ Reserved'
  <2>1. CASE Publish(t)
    <3>1. /\ task[t].at = "publish" /\ task'[t].at = "idle" /\ blame' = blame
          /\ \A u \in Task \ {t} : task'[u] = task[u]
          /\ UNCHANGED <<offered, leases, file, torn, offer>>
      BY <2>1, PublishParts
    <3>2. QED
      BY <3>1, AsideBlameless
  <2>2. CASE Unpublish(t)
    <3>1. /\ task[t].at = "unpublish" /\ task'[t].at = "idle" /\ blame' = blame
          /\ \A u \in Task \ {t} : task'[u] = task[u]
          /\ UNCHANGED <<offered, leases, file, torn, offer>>
      BY <2>2, UnpublishParts
    <3>2. QED
      BY <3>1, AsideBlameless
  <2>3. CASE ProbeFails(t)
    <3>1. /\ task[t].at = "confirm" /\ task'[t].at = "idle" /\ blame' = blame
          /\ \A u \in Task \ {t} : task'[u] = task[u]
          /\ UNCHANGED <<offered, leases, file, torn, offer>>
      BY <2>3, DoneParts DEF ProbeFails, Nak, TypeInv
    <3>2. QED
      BY <3>1, AsideBlameless
  <2>4. QED
    BY <1>4, <2>1, <2>2, <2>3, AllocateBlameless, OfferBlameless, WithdrawBlameless,
       GrantBlameless, RemoveBlameless DEF Handle
<1>5. CASE UNCHANGED vars
  <2>1. ClaimsApart /\ FileApart /\ Reserved
    BY <1>5 DEF vars, BlamelessInv
  <2>2. QED
    BY <1>5, <2>1 DEF vars, ClaimsApart, FileApart, Reserved, Claims, Holders, Granting
<1>6. QED
  BY <1>1, <1>2, <1>3, <1>4, <1>5, TickBlameless, CrashBlameless DEF Next

\* Two clients never hold unexpired leases on one address: an offer that is taken
\* up, the grant it becomes and the lease that is recorded reserve the address
\* for one client without a gap, through expiry, failed writes and restarts.
THEOREM AddressesStayApart == Spec => []AddressesApart
<1>1. TypeInv /\ CalmInv /\ BlamelessInv => AddressesApart
  <2> SUFFICES ASSUME TypeInv, CalmInv, BlamelessInv, Sensible, blame = {},
                      NEW m \in Mac, NEW c \in Mac,
                      bound[m].ip # 0, bound[m].ip = bound[c].ip
               PROVE  m = c
    BY DEF AddressesApart
  <2>1. bound[m].ip \in Ip /\ Claims(m, bound[m].ip) /\ Claims(c, bound[m].ip)
    BY BoundClaims
  <2>2. QED
    BY <2>1 DEF BlamelessInv, ClaimsApart
<1>2. QED
  BY <1>1, TypeInit, TypeStep, CalmInit, CalmStep, BlamelessInit, BlamelessStep, PTL DEF Spec
=============================================================================
