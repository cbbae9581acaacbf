------------------------------ MODULE Runtime ------------------------------
(***************************************************************************)
(* The life of the daemon: start, exit and crash (src/src/cmd/run.rs), and *)
(* the hot update of a running one (src/src/runtime/mod.rs) by the web     *)
(* panel's PUT /api/config and POST /api/auth/password                     *)
(* (src/src/web/api.rs), with what they leave in the kernel                *)
(* (src/src/firewall/) and in /etc/resolv.conf.                            *)
(*                                                                         *)
(* apply() compares the new configuration with the one it loaded first and *)
(* passes through the components one by one; each has a lock of its own,   *)
(* and nothing keeps two calls apart.  Any component may fail and end the  *)
(* call with what came before it done, and the HTTP server drops the       *)
(* handler of a client that went away at any await point.  The tools that  *)
(* change the kernel and the writes of resolv.conf fail too, halfway or    *)
(* without a word.  `blame' records all of it.                             *)
(***************************************************************************)
EXTENDS Naturals, FiniteSets

CONSTANTS
    Body,      \* the configurations clients PUT, less the password hash
    Factory,   \* the one the daemon is first started with
    DomainOf,  \* the search domain of each DHCP configuration
    Hash,      \* password hashes
    Call,      \* bound: handlers at work at once
    MaxHosts   \* bound: how many DynamicHosts are ever made

\* The backend of a firewall configuration that is not enabled, and the others.
Off == "off"
Backend == {"nftables", "iptables"}

ASSUME BodyAssumption ==
    /\ Factory \in Body
    /\ \A b \in Body : /\ b.port \in Nat \ {0}
                       /\ b.fw \in [backend : Backend \cup {Off}, lan : BOOLEAN]
                       /\ b.dhcp \in DOMAIN DomainOf
                       /\ b.manage => b.port = 53   \* Config::validate
ASSUME MaxHostsAssumption == MaxHosts \in Nat \ {0}

VARIABLES
    disk,      \* the configuration file
    config,    \* RuntimeHandle.config
    auth,      \* the hash AuthState checks logins against
    hosts,     \* RuntimeHandle.dynamic_hosts: the n-th table made
    router,    \* RuntimeHandle.router: its rules and the table it reads
    listener,  \* what answers DNS: its port and the router it was given
    dhcp,      \* the DHCP services: their configuration and the table they write
    guard,     \* RuntimeHandle.firewall_guard: the backend, or Off
    rules,     \* redirect rules in the kernel
    resolv,    \* resolv.conf and its backup: whose they are, and ResolvConfGuard
    call,      \* handlers at work: the next step, the snapshot, the new configuration
    up,        \* the daemon runs
    blame      \* history: what can leave components apart, or traces behind

core == <<hosts, router, listener, dhcp>>
wall == <<guard, rules>>
vars == <<disk, config, auth, core, wall, resolv, call, up, blame>>

With(body, hash) == [routing |-> body.routing, port |-> body.port, fw |-> body.fw,
                     dhcp |-> body.dhcp, manage |-> body.manage, hash |-> hash]
Config == {With(b, h) : b \in Body, h \in Hash}
Port == {b.port : b \in Body}
Router == [routing : {b.routing : b \in Body}, hosts : 1..MaxHosts]
Rule == [backend : Backend, hook : {"local", "lan"}, port : Port]
NoPort == 0

\* What a crash, a firewall tool that failed and a write of resolv.conf that
\* failed leave behind outlives the process.
Lasting == {"crash", "spilled", "hurt", "buried"}
Reason == Lasting \cup {"overlap", "failed"}

Apply == {"route", "listen", "wall", "dhcp", "save", "store"}
Password == {"auth", "write", "swap"}
Idle == [at |-> "idle"]
Busy == [at : Apply \cup Password, old : Config, new : Config]

TypeOK ==
    /\ disk \in Config
    /\ config \in Config
    /\ auth \in Hash
    /\ hosts \in 1..MaxHosts
    /\ router \in Router
    /\ listener \in [port : Port \cup {NoPort}, router : Router]
    /\ dhcp \in [dhcp : DOMAIN DomainOf, hosts : 1..MaxHosts]
    /\ guard \in Backend \cup {Off}
    /\ rules \subseteq Rule
    /\ resolv \in [file : {"theirs", "ours", "cut"},
                   backup : {"none", "theirs", "ours", "cut"}, guard : BOOLEAN]
    /\ \A c \in Call : call[c] = Idle \/ call[c] \in Busy
    /\ up \in BOOLEAN
    /\ blame \subseteq Reason

---------------------------------------------------------------------------
(* Firewall backends *)

Rules(fw, port) ==
    {[backend |-> fw.backend, hook |-> h, port |-> port] :
        h \in {"local"} \cup {l \in {"lan"} : fw.lan}}

\* cleanup(): nftables drops its table; iptables empties its chain, and the
\* LAN rules, which stand in PREROUTING itself, stay.
Cleaned(kernel, backend) ==
    {r \in kernel : \/ r.backend # backend
                    \/ backend = "iptables" /\ r.hook = "lan"}

\* It swallows the errors of the tool.
Cleanups(kernel, backend) == {Cleaned(kernel, backend), kernel}

\* setup() begins with a cleanup.  nftables takes its rules in one script, all
\* or none; iptables one by one, and a command that ran and failed counts as
\* done.
Setups(kernel, fw, port) ==
    LET laid == IF fw.backend = "nftables" THEN {Rules(fw, port)} ELSE SUBSET Rules(fw, port)
    IN  IF fw.backend = Off THEN {kernel}
        ELSE {k \cup new : k \in Cleanups(kernel, fw.backend), new \in laid}

\* setup() returns an error: the tool cannot be started, or nft refuses the
\* script.  No guard is made, and the rules iptables has laid so far stay.
Stops(kernel, fw, port) ==
    LET laid == IF fw.backend = "iptables" THEN SUBSET Rules(fw, port) ELSE {{}}
    IN  {k \cup new : k \in Cleanups(kernel, fw.backend), new \in laid}

\* More rules are left than there would be if no tool had failed.
Spilled(meant) == {r \in {"spilled"} : ~(rules' \subseteq meant)}

\* What setup leaves when no tool fails.
Installed(kernel, fw, port) ==
    IF fw.backend = Off THEN kernel
    ELSE Cleaned(kernel, fw.backend) \cup Rules(fw, port)

---------------------------------------------------------------------------
(* run(): start, exit and crash *)

\* Everything is made from the file.
Started(cfg) ==
    /\ config' = cfg
    /\ auth' = cfg.hash
    /\ hosts' = 1
    /\ router' = [routing |-> cfg.routing, hosts |-> 1]
    /\ listener' = [port |-> cfg.port, router |-> router']
    /\ dhcp' = [dhcp |-> cfg.dhcp, hosts |-> 1]
    /\ guard' = cfg.fw.backend

\* ResolvConfGuard::install: what is there is copied over any backup.
Install(conf) == [file |-> "ours", backup |-> conf.file, guard |-> TRUE]

\* It fails in the copy or, with the backup made, in the write; no guard is
\* made.  Either may leave the file it was writing cut off.
FailedInstalls(conf) ==
    {[conf EXCEPT !.backup = b] : b \in {conf.backup, "cut"}}
    \cup {[conf EXCEPT !.backup = conf.file, !.file = f] : f \in {conf.file, "cut"}}

\* Mutant of Restore: the backup stays.
RestoreKeeps(conf) == [conf EXCEPT !.file = conf.backup, !.guard = FALSE]

\* Its drop: a backup that is there comes back.
Restore(conf) == IF conf.backup = "none" THEN [conf EXCEPT !.guard = FALSE]
                 ELSE [file |-> conf.backup, backup |-> "none", guard |-> FALSE]

\* When the copy fails the backup stays, and when it cannot be removed.
Restores(conf) ==
    {Restore(conf)} \cup
    {[conf EXCEPT !.file = f, !.guard = FALSE] :
        f \in IF conf.backup = "none" THEN {} ELSE {conf.file, "cut", conf.backup}}

\* resolv.conf or its backup is not what it was meant to be.
Hurt(meant) == {r \in {"hurt"} : resolv' # meant}
\* An install takes for the user's what is not.
Buried == {r \in {"buried"} : disk.manage /\ resolv.file # "theirs"}

Init ==
    \E h \in Hash :
        LET cfg == With(Factory, h) IN
        /\ disk = cfg /\ config = cfg /\ auth = h
        /\ hosts = 1
        /\ router = [routing |-> cfg.routing, hosts |-> 1]
        /\ listener = [port |-> NoPort, router |-> router]
        /\ dhcp = [dhcp |-> cfg.dhcp, hosts |-> 1]
        /\ guard = Off
        /\ rules = {}
        /\ resolv = [file |-> "theirs", backup |-> "none", guard |-> FALSE]
        /\ call = [c \in Call |-> Idle]
        /\ up = FALSE
        /\ blame = {}

Start ==
    /\ ~up
    /\ Started(disk)
    /\ rules' \in Setups(rules, disk.fw, disk.port)
    /\ resolv' = IF disk.manage THEN Install(resolv) ELSE resolv
    /\ up' = TRUE
    /\ blame' = (blame \cap Lasting) \cup Buried
                \cup Spilled(Installed(rules, disk.fw, disk.port))
    /\ UNCHANGED <<disk, call>>

\* resolv.conf cannot be replaced; or the router cannot be built, the port is
\* taken or the firewall cannot be set up, and run() drops the ResolvConfGuard.
StartFails ==
    /\ ~up
    /\ \/ /\ disk.manage
          /\ resolv' \in FailedInstalls(resolv)
          /\ blame' = blame \cup Buried \cup Hurt(resolv)
          /\ UNCHANGED rules
       \/ /\ rules' \in {rules} \cup Stops(rules, disk.fw, disk.port)
          /\ resolv' \in IF disk.manage THEN Restores(Install(resolv)) ELSE {resolv}
          /\ blame' = blame \cup Buried \cup Spilled(rules)
                \cup Hurt(IF disk.manage THEN Restore(Install(resolv)) ELSE resolv)
    /\ UNCHANGED <<disk, config, auth, core, guard, call, up>>

Gone ==
    /\ up
    /\ up' = FALSE
    /\ listener' = [listener EXCEPT !.port = NoPort]
    /\ guard' = Off
    /\ call' = [c \in Call |-> Idle]
    /\ UNCHANGED <<disk, config, auth, hosts, router, dhcp>>

\* A signal: the guards are dropped as run() and its runtime end.
Exit ==
    /\ Gone
    /\ rules' \in Cleanups(rules, guard)
    /\ resolv' \in IF resolv.guard THEN Restores(resolv) ELSE {resolv}
    /\ blame' = blame \cup {r \in {"failed"} : \E c \in Call : call[c] # Idle}
                \cup Spilled(Cleaned(rules, guard))
                \cup Hurt(IF resolv.guard THEN Restore(resolv) ELSE resolv)

Crash ==
    /\ Gone
    /\ blame' = blame \cup {"crash"} \cup {r \in {"failed"} : \E c \in Call : call[c] # Idle}
    /\ resolv' = [resolv EXCEPT !.guard = FALSE]
    /\ UNCHANGED rules

---------------------------------------------------------------------------
(* PUT /api/config: put_config and RuntimeHandle::apply *)

Old(c) == call[c].old
New(c) == call[c].new
GoTo(c, at) == call' = [call EXCEPT ![c].at = at]
Done(c) == call' = [call EXCEPT ![c] = Idle]
Fails(c) == Done(c) /\ blame' = blame \cup {"failed"}
DomainChanged(c) == DomainOf[Old(c).dhcp] # DomainOf[New(c).dhcp]

Begin(c, at, new) ==
    /\ up
    /\ call[c] = Idle
    /\ call' = [call EXCEPT ![c] = [at |-> at, old |-> config, new |-> new]]
    /\ blame' = blame \cup {r \in {"overlap"} : \E d \in Call : call[d] # Idle}
    /\ UNCHANGED <<disk, config, auth, core, wall, resolv, up>>

\* Load the snapshot and put its password hash in; a body that does not
\* validate ends here and changes nothing.
PutConfig(c, body) == Begin(c, "route", With(body, config.hash))

\* Mutant of Route: the router is built before the new table is there.
RouteFirst(c) ==
    /\ call[c].at = "route"
    /\ hosts' = IF DomainChanged(c) THEN hosts + 1 ELSE hosts
    /\ hosts' <= MaxHosts
    /\ IF Old(c).routing # New(c).routing \/ DomainChanged(c)
       THEN router' = [routing |-> New(c).routing, hosts |-> hosts]
       ELSE UNCHANGED router
    /\ GoTo(c, "listen")
    /\ UNCHANGED <<disk, config, auth, listener, dhcp, wall, resolv, up, blame>>

\* A new search domain makes a new DynamicHosts; then the router is rebuilt
\* if it depends on what changed.
Route(c) ==
    /\ call[c].at = "route"
    /\ hosts' = IF DomainChanged(c) THEN hosts + 1 ELSE hosts
    /\ hosts' <= MaxHosts
    /\ \/ /\ IF Old(c).routing # New(c).routing \/ DomainChanged(c)
             THEN router' = [routing |-> New(c).routing, hosts |-> hosts']
             ELSE UNCHANGED router
          /\ GoTo(c, "listen")
          /\ UNCHANGED blame
       \/ /\ Old(c).routing # New(c).routing \/ DomainChanged(c)
          /\ Fails(c)   \* Router::from_config
          /\ UNCHANGED router
    /\ UNCHANGED <<disk, config, auth, listener, dhcp, wall, resolv, up>>

\* Mutant of Listen: the old listener is stopped before the new port is bound.
ListenGap(c) ==
    /\ call[c].at = "listen"
    /\ \/ /\ listener' = IF Old(c).port = New(c).port THEN listener
                         ELSE [port |-> New(c).port, router |-> router]
          /\ GoTo(c, "wall")
          /\ UNCHANGED blame
       \/ /\ Old(c).port # New(c).port
          /\ Fails(c)
          /\ listener' = [listener EXCEPT !.port = NoPort]
    /\ UNCHANGED <<disk, config, auth, hosts, router, dhcp, wall, resolv, up>>

\* rebind_dns_listener: bind the new address with the current router, then
\* stop the old listener.  A listener keeps the router it was given.
Listen(c) ==
    /\ call[c].at = "listen"
    /\ \/ /\ Old(c).port = New(c).port
          /\ GoTo(c, "wall")
          /\ UNCHANGED <<listener, blame>>
       \/ /\ Old(c).port # New(c).port
          /\ listener.port # New(c).port
          /\ listener' = [port |-> New(c).port, router |-> router]
          /\ GoTo(c, "wall")
          /\ UNCHANGED blame
       \/ /\ Old(c).port # New(c).port
          /\ Fails(c)   \* the port is taken, maybe by the daemon itself
          /\ UNCHANGED listener
    /\ UNCHANGED <<disk, config, auth, hosts, router, dhcp, wall, resolv, up>>

\* Mutant of Wall: the guard is forgotten instead of dropped.
WallForgets(c) ==
    /\ call[c].at = "wall"
    /\ IF Old(c).fw = New(c).fw THEN UNCHANGED wall
       ELSE /\ guard' = New(c).fw.backend
            /\ rules' \in Setups(rules, New(c).fw, New(c).port)
    /\ GoTo(c, "dhcp")
    /\ blame' = blame \cup Spilled(Installed(rules, New(c).fw, New(c).port))
    /\ UNCHANGED <<disk, config, auth, core, resolv, up>>

\* reapply_firewall: the old guard is taken into a local that lives to the
\* end of the function, so that it is dropped after the new rules were set.
Wall(c) ==
    /\ call[c].at = "wall"
    /\ LET fw == New(c).fw
           port == New(c).port
           Drops(kernels) == UNION {Cleanups(k, guard) : k \in kernels}
       IN  \/ /\ Old(c).fw = fw
              /\ GoTo(c, "dhcp") /\ UNCHANGED <<wall, blame>>
           \/ /\ Old(c).fw # fw
              /\ guard' = fw.backend
              /\ rules' \in Drops(Setups(rules, fw, port))
              /\ GoTo(c, "dhcp")
              /\ blame' = blame \cup Spilled(Cleaned(Installed(rules, fw, port), guard))
           \/ /\ Old(c).fw # fw /\ fw.backend # Off   \* FirewallGuard::setup
              /\ guard' = Off
              /\ rules' \in Drops(Stops(rules, fw, port))
              /\ Done(c)
              /\ blame' = blame \cup {"failed"}
                    \cup Spilled(Cleaned(Cleaned(rules, fw.backend), guard))
    /\ UNCHANGED <<disk, config, auth, core, resolv, up>>

\* restart_dhcp.
Dhcp(c) ==
    /\ call[c].at = "dhcp"
    /\ dhcp' = IF Old(c).dhcp = New(c).dhcp THEN dhcp
               ELSE [dhcp |-> New(c).dhcp, hosts |-> hosts]
    /\ GoTo(c, "save")
    /\ UNCHANGED <<disk, config, auth, hosts, router, listener, wall, resolv, up, blame>>

\* save_to, then the snapshot.
Save(c) ==
    /\ call[c].at = "save"
    /\ \/ disk' = New(c) /\ GoTo(c, "store") /\ UNCHANGED blame
       \/ UNCHANGED disk /\ Fails(c)
    /\ UNCHANGED <<config, auth, core, wall, resolv, up>>

\* Mutant of Store: the snapshot is not replaced.
StoreNot(c) ==
    /\ call[c].at = "store"
    /\ Done(c)
    /\ UNCHANGED <<disk, config, auth, core, wall, resolv, up, blame>>

Store(c) ==
    /\ call[c].at = "store"
    /\ config' = New(c)
    /\ Done(c)
    /\ UNCHANGED <<disk, auth, core, wall, resolv, up, blame>>

---------------------------------------------------------------------------
(* POST /api/auth/password: auth_change_password *)

\* The old password is checked and the new one hashed, for as long as bcrypt
\* takes, on the snapshot loaded here.
ChangePassword(c, hash) == Begin(c, "auth", [config EXCEPT !.hash = hash])

StoreAuth(c) ==
    /\ call[c].at = "auth"
    /\ auth' = New(c).hash
    /\ GoTo(c, "write")
    /\ UNCHANGED <<disk, config, core, wall, resolv, up, blame>>

WritePassword(c) ==
    /\ call[c].at = "write"
    /\ \/ disk' = New(c) /\ GoTo(c, "swap") /\ UNCHANGED blame
       \/ UNCHANGED disk /\ Fails(c)
    /\ UNCHANGED <<config, auth, core, wall, resolv, up>>

StorePassword(c) ==
    /\ call[c].at = "swap"
    /\ config' = New(c)
    /\ Done(c)
    /\ UNCHANGED <<disk, auth, core, wall, resolv, up, blame>>

---------------------------------------------------------------------------
\* The client goes away while apply waits for the lock of a component.
Waits(c) == \/ call[c].at = "listen" /\ Old(c).port # New(c).port
            \/ call[c].at = "wall" /\ Old(c).fw # New(c).fw
            \/ call[c].at = "dhcp" /\ Old(c).dhcp # New(c).dhcp
Abandon(c) ==
    /\ Waits(c)
    /\ Fails(c)
    /\ UNCHANGED <<disk, config, auth, core, wall, resolv, up>>

Handle(c) ==
    \/ Route(c) \/ Listen(c) \/ Wall(c) \/ Dhcp(c) \/ Save(c) \/ Store(c)
    \/ StoreAuth(c) \/ WritePassword(c) \/ StorePassword(c)
    \/ Abandon(c)

Next ==
    \/ Start \/ StartFails \/ Exit \/ Crash
    \/ \E c \in Call, b \in Body : PutConfig(c, b)
    \/ \E c \in Call, h \in Hash : ChangePassword(c, h)
    \/ \E c \in Call : Handle(c)

Spec == Init /\ [][Next]_vars

---------------------------------------------------------------------------
(* Properties *)

Settled == up /\ \A c \in Call : call[c] = Idle

\* runtime/mod.rs:209-210: while the daemon runs something answers DNS, also
\* when a new address cannot be bound and when updates overlap.
NeverDeaf == up => listener.port # NoPort

\* After a start, also one after an exit or a crash in the middle of an update,
\* and after every update since as long as they came one at a time and
\* succeeded, the file, the snapshot and the components agree, and the names
\* of new leases go to the table the router reads.
SettledAgrees ==
    Settled /\ blame \subseteq Lasting =>
        /\ disk = config
        /\ auth = config.hash
        /\ listener.port = config.port
        /\ router.routing = config.routing
        /\ dhcp.dhcp = config.dhcp
        /\ dhcp.hosts = router.hosts

\* README.md:238: rules are removed on exit.  Without a crash, and however
\* updates overlap and fail, no rules stay behind that no guard stands for,
\* but for the LAN rules of iptables, which cleanup never deletes, and for what
\* a firewall tool left when it failed: nobody looks whether a cleanup worked,
\* and iptables::setup returns its error with the rules before it laid.
NoStrayRules ==
    blame \cap {"crash", "spilled"} = {} =>
        \A r \in rules : r.backend = guard \/ (r.backend = "iptables" /\ r.hook = "lan")

\* README.md:13: /etc/resolv.conf is back when the daemon is down, and a backup
\* of it is kept while it is up, if there was no crash and no write failed.
\* Through crashes and failed writes the user's file is kept, in its place or
\* as the backup, until a start finds another one in its place and copies that
\* over the backup.
ResolvRestored ==
    /\ blame \cap {"crash", "hurt"} = {} =>
          IF resolv.guard THEN up /\ resolv.backup = "theirs"
          ELSE resolv.file = "theirs" /\ resolv.backup = "none"
    /\ "buried" \notin blame => "theirs" \in {resolv.file, resolv.backup}

\* runtime/mod.rs:140: a changed routing configuration is answered with after
\* the update that reported it applied.
ServesNewRouting ==
    Settled /\ blame = {} => listener.router.routing = config.routing
=============================================================================
