------------------------------- MODULE DhcpV4 -------------------------------
(***************************************************************************)
(* The DHCPv4 server: src/src/dhcp/v4/{server,pool,lease}.rs with the name *)
(* table of src/src/dns/hosts.rs that it feeds.                            *)
(*                                                                         *)
(* serve() spawns one handle_packet task for every datagram.  The tasks    *)
(* share the offers and the lease store, each behind a lock of its own,    *)
(* and the lease file, which every change of the store rewrites.  confirm  *)
(* never asks whether the address was offered, so the tables alone do not  *)
(* keep two clients apart; `blame' records the steps after which they may  *)
(* no longer.                                                              *)
(*                                                                         *)
(* Time stamps are kept as the time that is left until they expire.  A     *)
(* client takes a lease to begin when it is ACKed at the latest, and gives *)
(* its address up before it asks for another one.                          *)
(***************************************************************************)
EXTENDS Naturals, FiniteSets

CONSTANTS
    Mac,        \* clients
    NoMac,      \* no client: the task is idle
    Name,       \* host names
    NoName,     \* sends no host name
    NameOf,     \* NameOf[m]: the host name client m sends
    PoolSize,   \* the range is 1..PoolSize; 0 is no address
    StaticIp,   \* StaticIp[m]: the configured binding of client m, or 0
    Task,       \* bound: handle_packet tasks running at once
    LeaseTime,  \* lease_duration, in ticks
    OfferTime   \* the 30 s of expire_offers, in ticks

ASSUME MacAssumption == NoMac \notin Mac
ASSUME PoolAssumption == PoolSize \in Nat \ {0}
ASSUME TimeAssumption == LeaseTime \in Nat \ {0} /\ OfferTime \in Nat \ {0}
ASSUME NameAssumption == NoName \notin Name /\ NameOf \in [Mac -> Name \cup {NoName}]
ASSUME StaticAssumption == StaticIp \in [Mac -> 0..PoolSize]

VARIABLES
    offered,  \* addresses in OFFER state, each for as long as it has left
    leases,   \* the lease store, by client
    file,     \* the store the lease file holds
    torn,     \* the lease file was cut off: it holds nothing that parses
    hosts,    \* DynamicHosts: the address of each name
    task,     \* what each handle_packet task is about to do, for whom
    offer,    \* the address each client was offered last, while it may ask for it
    bound,    \* the lease each client believes it has
    blame     \* history: what has happened that can make leases collide

vars == <<offered, leases, file, torn, hosts, task, offer, bound, blame>>

Ip == 1..PoolSize
Time == 0..LeaseTime
Reason == {"crossed", "torn", "overlay", "unreserved",
           "forgotten", "window", "shadowed"}

NoOffer == [ip |-> 0, left |-> 0]
NoLease == [ip |-> 0, left |-> 0, static |-> FALSE]
Lease == [ip : 0..PoolSize, left : Time, static : BOOLEAN]
Static(m) == [ip |-> StaticIp[m], left |-> 0, static |-> TRUE]

\* !is_expired() of a lease that exists.
Active(l) == l.ip # 0 /\ (l.static \/ l.left > 0)
\* The leases that are active on an address, by client.
Holders(store, ip) == {m \in Mac : Active(store[m]) /\ store[m].ip = ip}

\* A task: the step it takes next, its client, its address (0 for none) and
\* the expiry it has computed.
At == {"idle", "allocate", "offer", "confirm", "grant", "publish", "remove", "unpublish"}
Idle == [at |-> "idle", mac |-> NoMac, ip |-> 0, left |-> 0]

TypeOK ==
    /\ offered \subseteq [ip : Ip, left : 0..OfferTime]
    /\ leases \in [Mac -> Lease]
    /\ file \in [Mac -> Lease]
    /\ torn \in BOOLEAN
    /\ hosts \in [Name -> 0..PoolSize]
    /\ task \in [Task -> [at : At, mac : Mac \cup {NoMac}, ip : 0..PoolSize, left : Time]]
    /\ offer \in [Mac -> [ip : 0..PoolSize, left : 0..OfferTime]]
    /\ bound \in [Mac -> Lease]
    /\ blame \subseteq Reason

---------------------------------------------------------------------------
(* The lease file *)

\* What load makes of a file that does not parse.
Nothing == [m \in Mac |-> NoLease]

\* flush writes the whole store.
Flush == file' = leases' /\ torn' = FALSE

\* It fails before it opens the file, or after that has cut the file off.
FlushFails ==
    \/ UNCHANGED <<file, torn>>
    \/ file' = Nothing /\ torn' = TRUE

---------------------------------------------------------------------------
(* serve: load the store, overlay the static leases, register names *)

Overlaid(store) == [m \in Mac |-> IF StaticIp[m] # 0 THEN Static(m) ELSE store[m]]

\* Mutant of Registered: only static leases are registered.
RegisteredStatic(store, n) ==
    {0} \cup {store[m].ip : m \in {c \in Mac : NameOf[c] = n /\ store[c].static}}

\* The addresses under which serve registers a name: those of the dynamic
\* leases, written last and in any order, before those of the static ones.
Registered(store, n) ==
    LET Ips(s) == {store[m].ip : m \in {c \in Mac :
                       /\ NameOf[c] = n
                       /\ Active(store[c])
                       /\ store[c].static = s}}
    IN  IF Ips(FALSE) # {} THEN Ips(FALSE)
        ELSE IF Ips(TRUE) # {} THEN Ips(TRUE) ELSE {0}

Serve(store) ==
    /\ leases' = Overlaid(store)
    /\ Flush
    /\ \E table \in [Name -> 0..PoolSize] :
          /\ \A n \in Name : table[n] \in Registered(Overlaid(store), n)
          /\ hosts' = table

Init ==
    /\ offered = {}
    /\ leases = Overlaid(Nothing)
    /\ file = leases /\ torn = FALSE
    /\ hosts \in {table \in [Name -> 0..PoolSize] :
                    \A n \in Name : table[n] \in Registered(leases, n)}
    /\ task = [t \in Task |-> Idle]
    /\ offer = [m \in Mac |-> NoOffer]
    /\ bound = [m \in Mac |-> NoLease]
    /\ blame = {}

---------------------------------------------------------------------------
(* Datagrams: recv_from, then a task of its own *)

\* The client speaks again, and says something else, before it was heard.
Crosses(at, m, ip) ==
    \E u \in Task :
        /\ task[u].mac = m
        /\ \/ at = "remove" /\ task[u].at \in {"confirm", "grant", "publish"}
           \/ at = "confirm" /\ task[u].at \in {"remove", "unpublish"}
           \/ /\ at = "confirm" /\ task[u].at \in {"confirm", "grant", "publish"}
              /\ task[u].ip # ip

Spawn(t, at, m, ip) ==
    /\ task[t].at = "idle"
    /\ task' = [task EXCEPT ![t] = [at |-> at, mac |-> m, ip |-> ip, left |-> 0]]
    /\ blame' = blame \cup {r \in {"crossed"} : Crosses(at, m, ip)}

\* A DISCOVER, with or without a requested address.
Discover(t, m, ip) ==
    /\ Spawn(t, "allocate", m, ip)
    /\ UNCHANGED <<offered, leases, file, torn, hosts, offer, bound>>

\* A REQUEST for any address, from any client.
Request(t, m, ip) ==
    /\ Spawn(t, "confirm", m, ip)
    /\ bound' = [bound EXCEPT ![m] = IF @.ip = ip THEN @ ELSE NoLease]
    /\ UNCHANGED <<offered, leases, file, torn, hosts, offer>>

Release(t, m) ==
    /\ Spawn(t, "remove", m, 0)
    /\ offer' = [offer EXCEPT ![m] = NoOffer]
    /\ bound' = [bound EXCEPT ![m] = NoLease]
    /\ UNCHANGED <<offered, leases, file, torn, hosts>>

Done(t) == task' = [task EXCEPT ![t] = Idle]
GoTo(t, at) == task' = [task EXCEPT ![t].at = at]

---------------------------------------------------------------------------
(* DISCOVER: allocate, then offer *)

LiveOffers == {o \in offered : o.left > 0}

\* Mutant of IsOffered: offers are recorded and not looked at.
IsOfferedNot(ip) == FALSE
IsOffered(ip) == \E o \in LiveOffers : o.ip = ip

\* get_by_ip returns some lease on the address: whichever the hash map has
\* first when several clients have one.
MayLookFree(ip) ==
    \/ \A m \in Mac : leases[m].ip # ip
    \/ \E m \in Mac : leases[m].ip = ip /\ ~Active(leases[m])
MayLookUsed(ip) == Holders(leases, ip) # {}

\* The results of allocate; 0 when the pool is exhausted.
Allocatable(m, requested) ==
    IF Active(leases[m]) THEN {leases[m].ip}
    ELSE LET Skippable(ip) == IsOffered(ip) \/ MayLookUsed(ip)
             Takeable(ip) == ~IsOffered(ip) /\ MayLookFree(ip)
         IN  {ip \in Ip : /\ Takeable(ip)
                          /\ \/ ip = requested
                             \/ /\ \A low \in 1..(ip - 1) : Skippable(low)
                                /\ requested = 0 \/ Skippable(requested)}
             \cup {ip \in {0} : \A i \in Ip : Skippable(i)}

\* Tasks that hold an address that is in neither table: it was allocated
\* and not yet offered, or its offer withdrawn and not yet leased.
InWindow(ip, m) ==
    \E u \in Task : /\ task[u].at \in {"offer", "grant"}
                    /\ task[u].ip = ip
                    /\ task[u].mac # m

Allocate(t) ==
    LET m == task[t].mac IN
    /\ task[t].at = "allocate"
    /\ offered' = LiveOffers
    /\ \E ip \in Allocatable(m, task[t].ip) :
          /\ task' = [task EXCEPT ![t] = IF ip = 0 THEN Idle
                                          ELSE [at |-> "offer", mac |-> m, ip |-> ip, left |-> 0]]
          /\ blame' = blame
                \cup {r \in {"window"} : ip # 0 /\ InWindow(ip, m)}
                \cup {r \in {"shadowed"} : ip # 0 /\ Holders(leases, ip) \ {m} # {}}
    /\ UNCHANGED <<leases, file, torn, hosts, offer, bound>>

\* Record the OFFER and send it; it may be lost.
Offer(t) ==
    LET new == [ip |-> task[t].ip, left |-> OfferTime] IN
    /\ task[t].at = "offer"
    /\ offered' = offered \cup {new}
    /\ offer' \in {offer, [offer EXCEPT ![task[t].mac] = new]}
    /\ Done(t)
    /\ UNCHANGED <<leases, file, torn, hosts, bound, blame>>

---------------------------------------------------------------------------
(* REQUEST: confirm, publish the name, reply *)

\* The NAK, if it arrives, ends what the client has.
Nak(t) ==
    /\ Done(t)
    /\ bound' \in {bound, [bound EXCEPT ![task[t].mac] = NoLease]}

\* The ARP probe is answered, or cannot be sent.
ProbeFails(t) ==
    /\ task[t].at = "confirm"
    /\ Nak(t)
    /\ UNCHANGED <<offered, leases, file, torn, hosts, offer, blame>>

\* The probe found nobody or is off: fix the expiry, withdraw every offer of
\* the address.  Nothing asks whether it was offered to this client.
Withdraw(t) ==
    LET m == task[t].mac
        ip == task[t].ip
        reserved == offer[m].ip = ip /\ offer[m].left > 0
    IN  /\ task[t].at = "confirm"
        /\ task' = [task EXCEPT ![t] =
                       [at |-> "grant", mac |-> m, ip |-> ip, left |-> LeaseTime]]
        /\ offered' = {o \in offered : o.ip # ip}
        /\ blame' = blame \cup {r \in {"unreserved"} :
                                   ~reserved /\ m \notin Holders(leases, ip)}
        /\ UNCHANGED <<leases, file, torn, hosts, offer, bound>>

\* Mutant of Grant: a failed write of the file is ignored.
GrantUnwritten(t) ==
    LET new == [ip |-> task[t].ip, left |-> task[t].left, static |-> FALSE] IN
    /\ task[t].at = "grant"
    /\ leases' = [leases EXCEPT ![task[t].mac] = new]
    /\ Flush \/ FlushFails
    /\ GoTo(t, "publish")
    /\ blame' = blame \cup {r \in {"crossed"} :
                               leases[task[t].mac].left > task[t].left}
    /\ UNCHANGED <<offered, hosts, offer, bound>>

\* LeaseStore::insert: the record, never a static one, then the whole file.
\* When that cannot be written the client is refused, with the record in
\* place and the file as it was or cut off.
Grant(t) ==
    LET new == [ip |-> task[t].ip, left |-> task[t].left, static |-> FALSE] IN
    /\ task[t].at = "grant"
    /\ leases' = [leases EXCEPT ![task[t].mac] = new]
    /\ \/ Flush /\ GoTo(t, "publish") /\ UNCHANGED bound
       \/ FlushFails /\ Nak(t)
    /\ blame' = blame \cup {r \in {"crossed"} :   \* overtaken by its own repeat
                               leases[task[t].mac].left > task[t].left}
    /\ UNCHANGED <<offered, hosts, offer>>

\* The name is in place before the ACK is sent; the ACK may be lost.
Publish(t) ==
    LET m == task[t].mac
        n == NameOf[m]
    IN  /\ task[t].at = "publish"
        /\ hosts' = IF n = NoName THEN hosts ELSE [hosts EXCEPT ![n] = task[t].ip]
        /\ \/ /\ task[t].left > 0
              /\ bound' = [bound EXCEPT ![m] =
                             [ip |-> task[t].ip, left |-> task[t].left, static |-> FALSE]]
           \/ UNCHANGED bound
        /\ Done(t)
        /\ UNCHANGED <<offered, leases, file, torn, offer, blame>>

---------------------------------------------------------------------------
(* RELEASE *)

\* remove_by_mac when the client has a lease.  When the file cannot be
\* written its name stays.
Remove(t) ==
    LET m == task[t].mac IN
    /\ task[t].at = "remove"
    /\ leases' = [leases EXCEPT ![m] = NoLease]
    /\ IF leases[m].ip = 0 THEN Done(t) /\ UNCHANGED <<file, torn>>
       ELSE \/ Flush /\ GoTo(t, "unpublish")
            \/ FlushFails /\ Done(t)
    /\ UNCHANGED <<offered, hosts, offer, bound, blame>>

Unpublish(t) ==
    LET n == NameOf[task[t].mac] IN
    /\ task[t].at = "unpublish"
    /\ hosts' = IF n = NoName THEN hosts ELSE [hosts EXCEPT ![n] = 0]
    /\ Done(t)
    /\ UNCHANGED <<offered, leases, file, torn, offer, bound, blame>>

---------------------------------------------------------------------------
(* The environment *)

Older(l) == [l EXCEPT !.left = IF @ > 0 THEN @ - 1 ELSE 0]

Expiring(l, none) == IF l.left > 1 THEN Older(l) ELSE none

\* Records stay in the server's tables when their time is over; a client
\* drops what it was offered and what it was leased.
Tick ==
    /\ offered' = {Older(o) : o \in offered}
    /\ leases' = [m \in Mac |-> Older(leases[m])]
    /\ file' = [m \in Mac |-> Older(file[m])]
    /\ task' = [t \in Task |-> Older(task[t])]
    /\ offer' = [m \in Mac |-> Expiring(offer[m], NoOffer)]
    /\ bound' = [m \in Mac |-> Expiring(bound[m], NoLease)]
    /\ UNCHANGED <<torn, hosts, blame>>

\* A restart overlays a static lease on leases that were granted meanwhile.
Clash(store) ==
    \E m \in Mac :
        /\ StaticIp[m] # 0
        /\ \/ Active(store[m]) /\ store[m].ip # StaticIp[m]
           \/ Holders(store, StaticIp[m]) \ {m} # {}

\* The file is being written in place: by insert, by remove_by_mac, or by a
\* start, which inserts the static leases one by one and may die of it too.
Writing ==
    \/ \E t \in Task : \/ task[t].at = "grant"
                       \/ task[t].at = "remove" /\ leases[task[t].mac].ip # 0
    \/ \E m \in Mac : StaticIp[m] # 0

\* The process dies and is started again.  Offers are not on disk, and a
\* crash in the middle of a flush cuts the lease file off.
Crash ==
    LET lost == {r \in {"forgotten"} : \E m \in Mac : offer[m] # NoOffer}
    IN  /\ offered' = {}
        /\ task' = [t \in Task |-> Idle]
        /\ \/ /\ Serve(file)
              /\ blame' = blame \cup lost \cup {r \in {"overlay"} : Clash(file)}
                                       \cup {r \in {"torn"} : torn}
           \/ /\ Writing
              /\ Serve(Nothing)
              /\ blame' = blame \cup lost \cup {"torn"}
        /\ UNCHANGED <<offer, bound>>

---------------------------------------------------------------------------
Handle(t) ==
    \/ Allocate(t) \/ Offer(t)
    \/ ProbeFails(t) \/ Withdraw(t) \/ Grant(t) \/ Publish(t)
    \/ Remove(t) \/ Unpublish(t)

Next ==
    \/ \E t \in Task, m \in Mac, ip \in 0..PoolSize : Discover(t, m, ip)
    \/ \E t \in Task, m \in Mac, ip \in Ip : Request(t, m, ip)
    \/ \E t \in Task, m \in Mac : Release(t, m)
    \/ \E t \in Task : Handle(t)
    \/ Tick
    \/ Crash

Spec == Init /\ [][Next]_vars

---------------------------------------------------------------------------
(* Properties *)

\* What serve() takes for granted about the configuration, and nothing checks:
\* no two clients have one address bound to them, and a lease lasts as long as
\* an offer, so that an offer that was taken up has run out before its lease.
Sensible ==
    /\ \A m, c \in Mac : (StaticIp[m] # 0 /\ StaticIp[m] = StaticIp[c]) => m = c
    /\ OfferTime <= LeaseTime

\* Two clients never hold unexpired leases on one address, through expiry,
\* lost replies, failed writes and restarts, unless one of the seven hazards of
\* `blame' has happened: allocate, offer and confirm hold no lock in common, and
\* a restart may read a lease file that was cut off.
AddressesApart ==
    (Sensible /\ blame = {}) => \A m, c \in Mac :
        (bound[m].ip # 0 /\ bound[m].ip = bound[c].ip) => m = c

Keeps(l, b) == l.ip = b.ip /\ l.left >= b.left

\* What a client was ACKed is in the store for as long as it lasts, whatever
\* becomes of writes and of other clients, and it is on disk (insert flushes
\* before confirm returns) unless a failed write has cut the file off: then the
\* next one that succeeds brings all of it back.
AckedIsRecorded ==
    blame \cap {"crossed", "torn"} = {} => \A m \in Mac :
        (bound[m].ip # 0 /\ StaticIp[m] = 0) =>
            /\ Keeps(leases[m], bound[m])
            /\ torn \/ Keeps(file[m], bound[m])

\* A client with a host name of its own can be looked up under it for as long
\* as its lease lasts, across failed writes, and across restarts that read a
\* whole lease file.
NamesResolve ==
    blame \cap {"crossed", "torn"} = {} => \A m \in Mac :
        (/\ bound[m].ip # 0 /\ StaticIp[m] = 0
         /\ NameOf[m] # NoName /\ \A c \in Mac \ {m} : NameOf[c] # NameOf[m])
        => hosts[NameOf[m]] = bound[m].ip
=============================================================================
