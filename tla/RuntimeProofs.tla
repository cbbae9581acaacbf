--------------------------- MODULE RuntimeProofs ---------------------------
(***************************************************************************)
(* Proofs about Runtime, for any configurations and any number of handlers *)
(* at work at once.                                                        *)
(*                                                                         *)
(* What holds through overlaps and failures needs little: that something   *)
(* answers DNS, which rules are in the kernel and whose resolv.conf is.    *)
(* That components agree after updates that come one at a time does not    *)
(* hold between them: Phase says, for each step of a handler, which of     *)
(* them are at the old configuration still and which at the new.           *)
(***************************************************************************)
EXTENDS Runtime, TLAPS

\* The types of what the proofs speak of; a daemon that is down has no handler
\* and no guard.
Types ==
    /\ disk \in Config /\ config \in Config
    /\ listener = [port |-> listener.port, router |-> listener.router]
    /\ guard \in Backend \cup {Off}
    /\ \A r \in rules : r.backend \in Backend
    /\ resolv = [file |-> resolv.file, backup |-> resolv.backup, guard |-> resolv.guard]
    /\ resolv.file \in {"theirs", "ours", "cut"}
    /\ resolv.backup \in {"none", "theirs", "ours", "cut"}
    /\ resolv.guard \in BOOLEAN
    /\ resolv.guard => up /\ resolv.file = "ours"
    /\ call \in [Call -> {Idle} \cup Busy]
    /\ up \in BOOLEAN
    /\ ~up => guard = Off /\ \A c \in Call : call[c] = Idle

\* File, snapshot and components are at one configuration.
Agree ==
    /\ disk = config /\ auth = config.hash
    /\ listener.port = config.port
    /\ router.routing = config.routing /\ router.hosts = hosts
    /\ dhcp.dhcp = config.dhcp /\ dhcp.hosts = hosts

\* They are as far as a handler that is alone has taken them.
ApplyPhase(at, new) ==
    /\ auth = config.hash /\ new.hash = config.hash
    /\ disk = IF at = "store" THEN new ELSE config
    /\ router.routing = IF at = "route" THEN config.routing ELSE new.routing
    /\ listener.port = IF at \in {"route", "listen"} THEN config.port ELSE new.port
    /\ dhcp.dhcp = IF at \in {"save", "store"} THEN new.dhcp ELSE config.dhcp
    /\ \/ dhcp.hosts = hosts
       \/ at \in {"listen", "wall", "dhcp"} /\ config.dhcp # new.dhcp

PasswordPhase(at, new) ==
    /\ disk = IF at = "swap" THEN new ELSE config
    /\ auth = IF at = "auth" THEN config.hash ELSE new.hash
    /\ listener.port = config.port /\ config.port = new.port
    /\ router.routing = config.routing /\ config.routing = new.routing
    /\ dhcp.dhcp = config.dhcp /\ config.dhcp = new.dhcp
    /\ dhcp.hosts = hosts

Phase(c) ==
    /\ call[c].old = config
    /\ router.hosts = hosts
    /\ call[c].at \in Apply => ApplyPhase(call[c].at, call[c].new)
    /\ call[c].at \in Password => PasswordPhase(call[c].at, call[c].new)

\* Without overlap and failure there is one handler at most.
Coherent ==
    up /\ blame \subseteq Lasting =>
        /\ (\A c \in Call : call[c] = Idle) => Agree
        /\ \A c \in Call : call[c] # Idle =>
              Phase(c) /\ \A d \in Call : d # c => call[d] = Idle

Inv == Types /\ NeverDeaf /\ NoStrayRules /\ ResolvRestored /\ Coherent

---------------------------------------------------------------------------
(* Configurations, rules and handlers *)

\* A configuration's parts.
LEMMA ConfigParts ==
    ASSUME NEW cfg \in Config
    PROVE  /\ cfg.port # NoPort
           /\ cfg.fw.backend \in Backend \cup {Off}
           /\ \A h \in Hash : /\ [cfg EXCEPT !.hash = h] \in Config
                              /\ [cfg EXCEPT !.hash = h].hash = h
                              /\ [cfg EXCEPT !.hash = h].port = cfg.port
                              /\ [cfg EXCEPT !.hash = h].routing = cfg.routing
                              /\ [cfg EXCEPT !.hash = h].dhcp = cfg.dhcp
           /\ \A b \in Body : With(b, cfg.hash) \in Config /\ With(b, cfg.hash).hash = cfg.hash
<1>1. PICK b \in Body, h \in Hash : cfg = With(b, h)
  BY DEF Config
<1>2. b.port \in Nat \ {0} /\ b.fw.backend \in Backend \cup {Off}
  BY BodyAssumption
<1>3. cfg.port # NoPort /\ cfg.fw.backend \in Backend \cup {Off} /\ cfg.hash = h
  BY <1>1, <1>2 DEF With, NoPort
<1>4. ASSUME NEW g \in Hash PROVE [cfg EXCEPT !.hash = g] = With(b, g)
  BY <1>1 DEF With
<1>5. ASSUME NEW g \in Hash
      PROVE  /\ [cfg EXCEPT !.hash = g] \in Config
             /\ [cfg EXCEPT !.hash = g].hash = g
             /\ [cfg EXCEPT !.hash = g].port = cfg.port
             /\ [cfg EXCEPT !.hash = g].routing = cfg.routing
             /\ [cfg EXCEPT !.hash = g].dhcp = cfg.dhcp
  <2>1. With(b, g) \in Config
    BY DEF Config
  <2>2. QED
    BY <1>1, <1>4, <2>1 DEF With
<1>6. ASSUME NEW a \in Body PROVE With(a, cfg.hash) \in Config /\ With(a, cfg.hash).hash = cfg.hash
  BY <1>3 DEF Config, With
<1>7. QED
  BY <1>3, <1>5, <1>6

\* A clean-up leaves no rule of its backend but the LAN rules of iptables.
LEMMA CleanedParts ==
    ASSUME NEW kernel, NEW b, NEW r
    PROVE  r \in Cleaned(kernel, b) <=>
               /\ r \in kernel
               /\ r.backend # b \/ (b = "iptables" /\ r.hook = "lan")
BY DEF Cleaned

\* A setup leaves the rules of other backends, and adds its own.
LEMMA InstalledParts ==
    ASSUME NEW kernel, NEW cfg \in Config, NEW r \in Installed(kernel, cfg.fw, cfg.port)
    PROVE  \/ r \in kernel
           \/ r.backend = cfg.fw.backend /\ cfg.fw.backend \in Backend
<1>1. cfg.fw.backend \in Backend \cup {Off}
  BY ConfigParts
<1>2. QED
  BY <1>1, CleanedParts DEF Installed, Rules

\* A clean-up adds no rule, whether it works or not, and a setup, also one that
\* stops halfway, only rules of a backend there is.
LEMMA LaidParts ==
    ASSUME NEW kernel, NEW cfg \in Config,
           NEW k \in Setups(kernel, cfg.fw, cfg.port) \cup Stops(kernel, cfg.fw, cfg.port)
    PROVE  \A r \in k : r \in kernel \/ r.backend \in Backend
<1>1. cfg.fw.backend \in Backend \cup {Off}
  BY ConfigParts
<1>2. \A r \in Rules(cfg.fw, cfg.port) : r.backend = cfg.fw.backend
  BY DEF Rules
<1>3. \A j \in Cleanups(kernel, cfg.fw.backend) : j \subseteq kernel
  BY CleanedParts DEF Cleanups
<1>4. CASE k \in Setups(kernel, cfg.fw, cfg.port)
  <2>1. CASE cfg.fw.backend = Off
    BY <1>4, <2>1 DEF Setups
  <2>2. CASE cfg.fw.backend # Off
    <3>1. PICK j \in Cleanups(kernel, cfg.fw.backend), new \in SUBSET Rules(cfg.fw, cfg.port) :
              k = j \cup new
      BY <1>4, <2>2 DEF Setups
    <3>2. QED
      BY <1>1, <1>2, <1>3, <2>2, <3>1
  <2>3. QED
    BY <2>1, <2>2
<1>5. CASE k \in Stops(kernel, cfg.fw, cfg.port)
  <2>1. CASE cfg.fw.backend = "iptables"
    <3>1. PICK j \in Cleanups(kernel, cfg.fw.backend), new \in SUBSET Rules(cfg.fw, cfg.port) :
              k = j \cup new
      BY <1>5, <2>1 DEF Stops
    <3>2. QED
      BY <1>2, <1>3, <2>1, <3>1 DEF Backend
  <2>2. CASE cfg.fw.backend # "iptables"
    <3>1. PICK j \in Cleanups(kernel, cfg.fw.backend) : k = j
      BY <1>5, <2>2 DEF Stops
    <3>2. QED
      BY <1>3, <3>1
  <2>3. QED
    BY <2>1, <2>2
<1>6. QED
  BY <1>4, <1>5

\* A handler that goes to its next step.
LEMMA GoToParts ==
    ASSUME Types, NEW c \in Call, call[c].at \in Apply \cup Password,
           NEW at \in Apply \cup Password, GoTo(c, at)
    PROVE  /\ call' \in [Call -> {Idle} \cup Busy]
           /\ call[c] \in Busy /\ call'[c] \in Busy /\ call'[c] # Idle
           /\ call'[c].at = at /\ call'[c].old = call[c].old /\ call'[c].new = call[c].new
           /\ \A d \in Call : d # c => call'[d] = call[d]
<1>1. call[c] \in Busy
  BY DEF Types, Idle, Apply, Password
<1>2. call' = [call EXCEPT ![c] = [call[c] EXCEPT !.at = at]]
  BY DEF GoTo
<1>3. [call[c] EXCEPT !.at = at] \in Busy
  BY <1>1 DEF Busy
<1>4. /\ call'[c] = [call[c] EXCEPT !.at = at]
      /\ \A d \in Call : d # c => call'[d] = call[d]
      /\ call' \in [Call -> {Idle} \cup Busy]
  BY <1>2, <1>3 DEF Types
<1>5. /\ call'[c].at = at /\ call'[c].old = call[c].old /\ call'[c].new = call[c].new
  BY <1>1, <1>4 DEF Busy
<1>6. call'[c] # Idle
  BY <1>5 DEF Idle, Apply, Password
<1>7. QED
  BY <1>1, <1>3, <1>4, <1>5, <1>6

\* A handler that ends.
LEMMA DoneParts ==
    ASSUME Types, NEW c \in Call, Done(c)
    PROVE  /\ call' \in [Call -> {Idle} \cup Busy]
           /\ call'[c] = Idle
           /\ \A d \in Call : d # c => call'[d] = call[d]
BY DEF Types, Done

\* The one handler there is takes the components one step on, or fails.
LEMMA CoherentMove ==
    ASSUME Coherent, NEW c \in Call, call[c] # Idle, up' = up, blame \subseteq blame',
           \A d \in Call : d # c => call'[d] = call[d],
           blame' \subseteq Lasting /\ Phase(c) =>
               IF call'[c] = Idle THEN Agree' ELSE Phase(c)'
    PROVE  Coherent'
<1> SUFFICES ASSUME up, blame' \subseteq Lasting
             PROVE  /\ (\A d \in Call : call'[d] = Idle) => Agree'
                    /\ \A d \in Call : call'[d] # Idle =>
                          Phase(d)' /\ \A e \in Call : e # d => call'[e] = Idle
  BY DEF Coherent
<1>1. Phase(c) /\ \A d \in Call : d # c => call[d] = Idle
  BY DEF Coherent
<1>2. IF call'[c] = Idle THEN Agree' ELSE Phase(c)'
  BY <1>1
<1>3. QED
  BY <1>1, <1>2

---------------------------------------------------------------------------
(* Steps *)

\* The daemon as it is first installed.
LEMMA InvInit == Init => Inv
<1> SUFFICES ASSUME Init PROVE Inv
  OBVIOUS
<1>1. PICK h \in Hash : disk = With(Factory, h) /\ config = With(Factory, h)
  BY DEF Init
<1>2. disk \in Config /\ config \in Config
  BY <1>1, BodyAssumption DEF Config
<1>3. /\ listener = [port |-> NoPort, router |-> router] /\ guard = Off /\ rules = {}
      /\ resolv = [file |-> "theirs", backup |-> "none", guard |-> FALSE]
      /\ call = [c \in Call |-> Idle] /\ up = FALSE
  BY DEF Init
<1>4. Types
  BY <1>2, <1>3 DEF Types
<1>5. QED
  BY <1>3, <1>4 DEF Inv, NeverDeaf, NoStrayRules, ResolvRestored, Coherent

\* A start makes everything from the file, and lays its rules over what is there.
LEMMA StartStep == ASSUME Inv, Start PROVE Inv'
<1> USE DEF Inv
<1>1. ~up /\ \A c \in Call : call[c] = Idle
  BY DEF Start, Types
<1>2. disk \in Config /\ disk.port # NoPort /\ disk.fw.backend \in Backend \cup {Off}
  BY ConfigParts DEF Types
<1>3. /\ config' = disk /\ auth' = disk.hash /\ guard' = disk.fw.backend /\ hosts' = 1
      /\ router' = [routing |-> disk.routing, hosts |-> 1]
      /\ listener' = [port |-> disk.port, router |-> router']
      /\ dhcp' = [dhcp |-> disk.dhcp, hosts |-> 1]
      /\ rules' \in Setups(rules, disk.fw, disk.port)
      /\ up' /\ up' \in BOOLEAN /\ disk' = disk /\ call' = call
      /\ blame' = (blame \cap Lasting) \cup Buried
                    \cup Spilled(Installed(rules, disk.fw, disk.port))
  BY DEF Start, Started
<1>4. resolv' = resolv \/ resolv' = [file |-> "ours", backup |-> resolv.file, guard |-> TRUE]
  BY DEF Start, Install
<1>5. blame \cap Lasting \subseteq blame' /\ Buried \subseteq blame'
  BY <1>3
<1>6. Types'
  <2>1. /\ resolv' = [file |-> resolv'.file, backup |-> resolv'.backup, guard |-> resolv'.guard]
        /\ resolv'.file \in {"theirs", "ours", "cut"}
        /\ resolv'.backup \in {"none", "theirs", "ours", "cut"}
        /\ resolv'.guard \in BOOLEAN /\ (resolv'.guard => resolv'.file = "ours")
    <3>1. CASE resolv' = resolv
      BY ONLY <3>1, Types DEF Types
    <3>2. CASE resolv' = [file |-> "ours", backup |-> resolv.file, guard |-> TRUE]
      BY <3>2 DEF Types
    <3>3. QED
      BY <1>4, <3>1, <3>2
  <2>2. \A r \in rules' : r \in rules \/ r.backend \in Backend
    BY <1>2, <1>3, LaidParts
  <2>3. listener' = [port |-> listener'.port, router |-> listener'.router]
    BY <1>3
  <2>4. QED
    BY <1>2, <1>3, <2>1, <2>2, <2>3 DEF Types
<1>7. NeverDeaf'
  BY <1>2, <1>3 DEF NeverDeaf
<1>8. NoStrayRules'
  <2> SUFFICES ASSUME blame' \cap {"crash", "spilled"} = {}, NEW r \in rules'
               PROVE  r.backend = guard' \/ (r.backend = "iptables" /\ r.hook = "lan")
    BY DEF NoStrayRules
  <2>1. blame \cap {"crash", "spilled"} = {}
    BY <1>5 DEF Lasting
  <2>2. r \in rules => r.backend = "iptables" /\ r.hook = "lan"
    BY <1>1, <2>1 DEF NoStrayRules, Types, Off, Backend
  <2>3. r \in Installed(rules, disk.fw, disk.port)
    BY <1>3 DEF Spilled
  <2>4. r \in rules \/ r.backend = disk.fw.backend
    BY <1>2, <2>3, InstalledParts
  <2>5. QED
    BY <1>3, <2>2, <2>4
<1>9. ResolvRestored'
  <2>1. blame' \cap {"crash", "hurt"} = {} =>
          ~resolv.guard /\ resolv.file = "theirs" /\ resolv.backup = "none"
    BY <1>1, <1>5 DEF ResolvRestored, Lasting
  <2>2. CASE resolv' = resolv
    BY <1>3, <1>5, <2>1, <2>2 DEF ResolvRestored, Lasting
  <2>3. CASE disk.manage /\ resolv' = [file |-> "ours", backup |-> resolv.file, guard |-> TRUE]
    <3>1. "buried" \notin blame' => resolv.file = "theirs"
      BY <1>5, <2>3 DEF Buried
    <3>2. QED
      BY <1>3, <2>1, <2>3, <3>1 DEF ResolvRestored
  <2>4. QED
    BY <1>4, <2>2, <2>3 DEF Start, Install
<1>10. Coherent'
  BY <1>1, <1>3 DEF Coherent, Agree
<1>11. QED
  BY <1>6, <1>7, <1>8, <1>9, <1>10

\* An install that fails leaves the user's file in its place or as the backup, if
\* it finds it in its place.
LEMMA FailedInstallsParts ==
    ASSUME Types, NEW r \in FailedInstalls(resolv)
    PROVE  /\ r = [file |-> r.file, backup |-> r.backup, guard |-> resolv.guard]
           /\ r.file \in {"theirs", "ours", "cut"}
           /\ r.backup \in {"none", "theirs", "ours", "cut"}
           /\ resolv.file \in {r.file, r.backup}
<1>1. \/ r = resolv \/ r = [resolv EXCEPT !.backup = "cut"]
      \/ r = [resolv EXCEPT !.backup = resolv.file, !.file = resolv.file]
      \/ r = [resolv EXCEPT !.backup = resolv.file, !.file = "cut"]
  BY DEF FailedInstalls, Types
<1>2. QED
  BY <1>1 DEF Types

\* A drop that fails, and one that does not, leave a user's file that was the
\* backup as one of the two.
LEMMA RestoresParts ==
    ASSUME NEW f \in {"theirs", "ours", "cut"}, NEW b \in {"none", "theirs", "ours", "cut"},
           NEW g, NEW r \in Restores([file |-> f, backup |-> b, guard |-> g])
    PROVE  /\ r = [file |-> r.file, backup |-> r.backup, guard |-> FALSE]
           /\ r.file \in {"theirs", "ours", "cut"}
           /\ r.backup \in {"none", "theirs", "ours", "cut"}
           /\ b = "none" => r.file = f
           /\ b # "none" => b \in {r.file, r.backup}
<1>1. \/ b = "none" /\ r = [file |-> f, backup |-> b, guard |-> FALSE]
      \/ b # "none" /\ r = [file |-> b, backup |-> "none", guard |-> FALSE]
      \/ b # "none" /\ r = [file |-> f, backup |-> b, guard |-> FALSE]
      \/ b # "none" /\ r = [file |-> "cut", backup |-> b, guard |-> FALSE]
      \/ b # "none" /\ r = [file |-> b, backup |-> b, guard |-> FALSE]
  BY DEF Restores, Restore
<1>2. QED
  BY <1>1

\* A start that fails leaves what it found, unless a write or a firewall tool fails.
LEMMA StartFailsStep == ASSUME Inv, StartFails PROVE Inv'
<1> USE DEF Inv
<1>1. /\ ~up /\ ~up' /\ up' \in BOOLEAN
      /\ UNCHANGED <<disk, config, listener, guard, call>>
  BY DEF StartFails, core, Types
<1>2. disk \in Config
  BY DEF Types
<1>3. /\ resolv = [file |-> resolv.file, backup |-> resolv.backup, guard |-> resolv.guard]
      /\ resolv.file \in {"theirs", "ours", "cut"}
      /\ resolv.backup \in {"none", "theirs", "ours", "cut"}
      /\ resolv.guard = FALSE
  BY <1>1 DEF Types
<1>4. blame \subseteq blame' /\ Buried \subseteq blame'
  BY DEF StartFails
<1>5. NeverDeaf' /\ Coherent'
  BY <1>1 DEF NeverDeaf, Coherent
<1>6. \A r \in rules' : r \in rules \/ r.backend \in Backend
  BY <1>2, LaidParts DEF StartFails
<1>7. NoStrayRules'
  <2> SUFFICES ASSUME blame' \cap {"crash", "spilled"} = {}, NEW r \in rules'
               PROVE  r.backend = guard' \/ (r.backend = "iptables" /\ r.hook = "lan")
    BY DEF NoStrayRules
  <2>1. r \in rules
    BY DEF StartFails, Spilled
  <2>2. QED
    BY <1>1, <1>4, <2>1 DEF NoStrayRules
<1>8. /\ resolv' = [file |-> resolv'.file, backup |-> resolv'.backup, guard |-> resolv'.guard]
      /\ resolv'.file \in {"theirs", "ours", "cut"}
      /\ resolv'.backup \in {"none", "theirs", "ours", "cut"}
      /\ resolv'.guard = FALSE
      /\ resolv' = resolv \/ (disk.manage /\ resolv.file \in {resolv'.file, resolv'.backup})
  <2>1. CASE resolv' = resolv
    BY <1>3, <2>1
  <2>2. CASE disk.manage /\ resolv' \in FailedInstalls(resolv)
    <3>1. PICK r \in FailedInstalls(resolv) : r = resolv'
      BY <2>2
    <3>2. QED
      BY <1>3, <2>2, <3>1, FailedInstallsParts
  <2>3. CASE disk.manage /\ resolv' \in Restores(Install(resolv))
    <3>1. Install(resolv) = [file |-> "ours", backup |-> resolv.file, guard |-> TRUE]
      BY DEF Install
    <3>2. PICK f \in {"theirs", "ours", "cut"} : f = resolv.file
      BY <1>3
    <3>3. PICK r \in Restores([file |-> "ours", backup |-> f, guard |-> TRUE]) : r = resolv'
      BY <2>3, <3>1, <3>2
    <3>4. QED
      BY <2>3, <3>2, <3>3, RestoresParts
  <2>4. QED
    BY <2>1, <2>2, <2>3 DEF StartFails
<1>9. Types'
  BY <1>1, <1>6, <1>8 DEF Types
<1>10. ResolvRestored'
  <2>1. blame' \cap {"crash", "hurt"} = {} =>
          ~resolv.guard /\ resolv.file = "theirs" /\ resolv.backup = "none"
    BY <1>1, <1>4 DEF ResolvRestored
  <2>2. blame' \cap {"crash", "hurt"} = {} =>
          resolv' = resolv \/ resolv' = [file |-> resolv.file, backup |-> "none", guard |-> FALSE]
    <3>1. Restore(Install(resolv)) = [file |-> resolv.file, backup |-> "none", guard |-> FALSE]
      BY <1>3 DEF Install, Restore
    <3>2. QED
      BY <3>1 DEF StartFails, Hurt
  <2>3. blame' \cap {"crash", "hurt"} = {} =>
          ~resolv'.guard /\ resolv'.file = "theirs" /\ resolv'.backup = "none"
    BY <2>1, <2>2
  <2>4. "buried" \notin blame' => "theirs" \in {resolv'.file, resolv'.backup}
    BY <1>4, <1>8 DEF ResolvRestored, Buried
  <2>5. QED
    BY <2>3, <2>4 DEF ResolvRestored
<1>11. QED
  BY <1>5, <1>7, <1>9, <1>10

\* An exit drops the guards; a crash does not, and is remembered.
LEMMA EndStep == ASSUME Inv, Exit \/ Crash PROVE Inv'
<1> USE DEF Inv
<1>1. /\ up /\ ~up' /\ up' \in BOOLEAN /\ guard' = Off
      /\ listener' = [listener EXCEPT !.port = NoPort]
      /\ \A c \in Call : call'[c] = Idle
      /\ call' \in [Call -> {Idle} \cup Busy]
      /\ UNCHANGED <<disk, config>>
  BY DEF Exit, Crash, Gone
<1>2. \A r \in rules' : r \in rules
  BY CleanedParts DEF Exit, Crash, Cleanups
<1>3. /\ resolv = [file |-> resolv.file, backup |-> resolv.backup, guard |-> resolv.guard]
      /\ resolv.file \in {"theirs", "ours", "cut"}
      /\ resolv.backup \in {"none", "theirs", "ours", "cut"}
      /\ resolv.guard => resolv.file = "ours"
      /\ resolv.guard \in BOOLEAN
  BY DEF Types
<1>4. /\ resolv' = [file |-> resolv'.file, backup |-> resolv'.backup, guard |-> resolv'.guard]
      /\ resolv'.file \in {"theirs", "ours", "cut"}
      /\ resolv'.backup \in {"none", "theirs", "ours", "cut"}
      /\ resolv'.guard = FALSE
      /\ "theirs" \in {resolv.file, resolv.backup} => "theirs" \in {resolv'.file, resolv'.backup}
  <2>1. CASE (~resolv.guard /\ resolv' = resolv) \/ resolv' = [resolv EXCEPT !.guard = FALSE]
    BY <1>3, <2>1
  <2>2. CASE resolv.guard /\ resolv' \in Restores(resolv)
    <3>1. PICK f \in {"theirs", "ours", "cut"}, b \in {"none", "theirs", "ours", "cut"} :
              f = resolv.file /\ b = resolv.backup
      BY <1>3
    <3>2. resolv = [file |-> f, backup |-> b, guard |-> resolv.guard]
      BY <1>3, <3>1
    <3>3. PICK g : g = resolv.guard
      OBVIOUS
    <3>4. PICK r \in Restores([file |-> f, backup |-> b, guard |-> g]) : r = resolv'
      BY <2>2, <3>2, <3>3
    <3>5. QED
      BY <1>3, <2>2, <3>1, <3>4, RestoresParts
  <2>3. QED
    BY <2>1, <2>2 DEF Exit, Crash
<1>5. Types'
  <2>1. listener' = [port |-> listener'.port, router |-> listener'.router]
    BY <1>1 DEF Types
  <2>2. QED
    BY <1>1, <1>2, <1>4, <2>1 DEF Types
<1>6. NeverDeaf' /\ Coherent'
  BY <1>1 DEF NeverDeaf, Coherent
<1>7. blame \subseteq blame'
  BY DEF Exit, Crash
<1>8. NoStrayRules'
  <2> SUFFICES ASSUME blame' \cap {"crash", "spilled"} = {}, NEW r \in rules'
               PROVE  r.backend = guard' \/ (r.backend = "iptables" /\ r.hook = "lan")
    BY DEF NoStrayRules
  <2>1. r \in Cleaned(rules, guard)
    BY DEF Exit, Crash, Spilled
  <2>2. QED
    BY <1>7, <2>1, CleanedParts DEF NoStrayRules
<1>9. ResolvRestored'
  <2>1. "buried" \notin blame' => "theirs" \in {resolv'.file, resolv'.backup}
    BY <1>4, <1>7 DEF ResolvRestored
  <2>2. blame' \cap {"crash", "hurt"} = {} => resolv'.file = "theirs" /\ resolv'.backup = "none"
    <3> SUFFICES ASSUME blame' \cap {"crash", "hurt"} = {}
                 PROVE  resolv'.file = "theirs" /\ resolv'.backup = "none"
      OBVIOUS
    <3>1. Exit /\ blame \cap {"crash", "hurt"} = {}
      BY <1>7 DEF Crash
    <3>2. CASE resolv.guard
      <4>1. resolv' = Restore(resolv)
        BY <3>1, <3>2 DEF Exit, Hurt
      <4>2. resolv.backup = "theirs"
        BY <3>1, <3>2 DEF ResolvRestored
      <4>3. resolv' = [file |-> "theirs", backup |-> "none", guard |-> FALSE]
        BY <4>1, <4>2 DEF Restore
      <4>4. QED
        BY <4>3
    <3>3. CASE ~resolv.guard
      BY <3>1, <3>3 DEF Exit, ResolvRestored
    <3>4. QED
      BY <3>2, <3>3
  <2>3. QED
    BY <1>4, <2>1, <2>2 DEF ResolvRestored
<1>10. QED
  BY <1>5, <1>6, <1>8, <1>9

\* A handler begins with the snapshot; another one at work is an overlap.
LEMMA BeginStep ==
    ASSUME Inv, NEW c \in Call, NEW new \in Config,
           \/ Begin(c, "route", new) /\ new.hash = config.hash
           \/ /\ Begin(c, "auth", new)
              /\ new.port = config.port /\ new.routing = config.routing /\ new.dhcp = config.dhcp
    PROVE  Inv'
<1> USE DEF Inv
<1>1. PICK at \in {"route", "auth"} :
          /\ Begin(c, at, new)
          /\ at = "route" => new.hash = config.hash
          /\ at = "auth" => /\ new.port = config.port /\ new.routing = config.routing
                            /\ new.dhcp = config.dhcp
  OBVIOUS
<1>2. /\ up /\ call[c] = Idle
      /\ call' = [call EXCEPT ![c] = [at |-> at, old |-> config, new |-> new]]
      /\ blame' = blame \cup {r \in {"overlap"} : \E d \in Call : call[d] # Idle}
      /\ UNCHANGED <<disk, config, auth, hosts, router, listener, dhcp, guard, rules, resolv, up>>
  BY <1>1 DEF Begin, core, wall
<1>3. [at |-> at, old |-> config, new |-> new] \in Busy
  BY DEF Busy, Apply, Password, Types
<1>4. /\ call' \in [Call -> {Idle} \cup Busy]
      /\ call'[c].at = at /\ call'[c].old = config /\ call'[c].new = new
      /\ \A d \in Call : d # c => call'[d] = call[d]
  BY <1>2, <1>3 DEF Types
<1>5. Types'
  BY <1>2, <1>4 DEF Types
<1>6. NeverDeaf' /\ NoStrayRules' /\ ResolvRestored'
  BY <1>2 DEF NeverDeaf, NoStrayRules, ResolvRestored
<1>7. Coherent'
  <2> SUFFICES ASSUME blame' \subseteq Lasting
               PROVE  /\ call'[c] # Idle /\ Phase(c)'
                      /\ \A d \in Call : d # c => call'[d] = Idle
    BY DEF Coherent
  <2>1. \A d \in Call : call[d] = Idle
    BY <1>2 DEF Lasting
  <2>2. Agree
    BY <1>2, <2>1 DEF Coherent
  <2>3. call'[c] # Idle
    BY <1>4 DEF Idle
  <2>4. CASE at = "route"
    <3>1. ApplyPhase("route", new)'
      BY <1>1, <1>2, <2>2, <2>4 DEF ApplyPhase, Agree
    <3>2. QED
      BY <1>2, <1>4, <2>1, <2>2, <2>3, <2>4, <3>1 DEF Phase, Agree, Password
  <2>5. CASE at = "auth"
    <3>1. PasswordPhase("auth", new)'
      BY <1>1, <1>2, <2>2, <2>5 DEF PasswordPhase, Agree
    <3>2. QED
      BY <1>2, <1>4, <2>1, <2>2, <2>3, <2>5, <3>1 DEF Phase, Agree, Apply
  <2>6. QED
    BY <2>4, <2>5
<1>8. QED
  BY <1>5, <1>6, <1>7

\* A handler that fails, or is dropped, ends; that is remembered.
LEMMA FailsStep ==
    ASSUME Inv, NEW c \in Call, call[c] # Idle, Done(c),
           blame \cup {"failed"} \subseteq blame', Types',
           NeverDeaf', NoStrayRules', ResolvRestored', up' = up
    PROVE  Inv'
<1>1. ~(blame' \subseteq Lasting) /\ blame \subseteq blame'
  BY DEF Lasting
<1>2. \A d \in Call : d # c => call'[d] = call[d]
  BY DoneParts DEF Inv
<1>3. Coherent'
  BY <1>1, <1>2, CoherentMove DEF Inv
<1>4. QED
  BY <1>3 DEF Inv

\* New names and a new router.
LEMMA RouteStep == ASSUME Inv, NEW c \in Call, Route(c) PROVE Inv'
<1> USE DEF Inv
<1>1. /\ call[c].at = "route" /\ call[c] # Idle /\ call[c].at \in Apply \cup Password
      /\ UNCHANGED <<disk, config, auth, listener, dhcp, guard, rules, resolv, up>>
  BY DEF Route, wall, Idle, Apply
<1>2. up
  BY <1>1 DEF Types
<1>3. CASE Fails(c)
  <2>1. call' \in [Call -> {Idle} \cup Busy] /\ blame \subseteq blame'
    BY <1>3, DoneParts DEF Fails
  <2>2. Types' /\ NeverDeaf' /\ NoStrayRules' /\ ResolvRestored'
    BY <1>1, <1>2, <2>1 DEF Types, NeverDeaf, NoStrayRules, ResolvRestored
  <2>3. QED
    BY <1>1, <1>3, <2>2, FailsStep DEF Fails
<1>4. CASE /\ GoTo(c, "listen") /\ UNCHANGED blame
           /\ hosts' = IF DomainChanged(c) THEN hosts + 1 ELSE hosts
           /\ IF Old(c).routing # New(c).routing \/ DomainChanged(c)
              THEN router' = [routing |-> New(c).routing, hosts |-> hosts']
              ELSE router' = router
  <2>1. "listen" \in Apply \cup Password
    BY DEF Apply
  <2>2. /\ call' \in [Call -> {Idle} \cup Busy] /\ call'[c] # Idle
        /\ call'[c].at = "listen" /\ call'[c].old = call[c].old /\ call'[c].new = call[c].new
        /\ \A d \in Call : d # c => call'[d] = call[d]
    BY <1>1, <1>4, <2>1, GoToParts
  <2>3. Types' /\ NeverDeaf' /\ NoStrayRules' /\ ResolvRestored'
    BY <1>1, <1>2, <1>4, <2>2 DEF Types, NeverDeaf, NoStrayRules, ResolvRestored
  <2>4. ASSUME Phase(c) PROVE Phase(c)'
    <3>1. ApplyPhase("route", New(c)) /\ Old(c) = config /\ router.hosts = hosts
      BY <1>1, <2>4 DEF Phase, Old, New, Apply
    <3>2. DomainChanged(c) => config.dhcp # New(c).dhcp
      BY <3>1 DEF DomainChanged
    <3>3. router'.hosts = hosts' /\ router'.routing = New(c).routing
      BY <1>4, <3>1 DEF ApplyPhase, Old
    <3>4. ApplyPhase("listen", New(c))'
      BY <1>1, <1>4, <2>2, <3>1, <3>2, <3>3 DEF ApplyPhase, New
    <3>5. QED
      BY <1>1, <2>2, <3>1, <3>3, <3>4 DEF Phase, Old, New, Password
  <2>5. Coherent'
    BY <1>1, <1>4, <2>2, <2>4, CoherentMove
  <2>6. QED
    BY <2>3, <2>5
<1>5. QED
  BY <1>3, <1>4 DEF Route

\* The listener moves to another port, if it can.
LEMMA ListenStep == ASSUME Inv, NEW c \in Call, Listen(c) PROVE Inv'
<1> USE DEF Inv
<1>1. /\ call[c].at = "listen" /\ call[c] # Idle /\ call[c].at \in Apply \cup Password
      /\ UNCHANGED <<disk, config, auth, hosts, router, dhcp, guard, rules, resolv, up>>
  BY DEF Listen, wall, Idle, Apply
<1>2. up
  BY <1>1 DEF Types
<1>3. CASE Fails(c) /\ UNCHANGED listener
  <2>1. call' \in [Call -> {Idle} \cup Busy] /\ blame \subseteq blame'
    BY <1>3, DoneParts DEF Fails
  <2>2. Types' /\ NeverDeaf' /\ NoStrayRules' /\ ResolvRestored'
    BY <1>1, <1>2, <1>3, <2>1 DEF Types, NeverDeaf, NoStrayRules, ResolvRestored
  <2>3. QED
    BY <1>1, <1>3, <2>2, FailsStep DEF Fails
<1>4. CASE /\ GoTo(c, "wall") /\ UNCHANGED blame
           /\ \/ Old(c).port = New(c).port /\ listener' = listener
              \/ listener' = [port |-> New(c).port, router |-> router]
  <2>1. "wall" \in Apply \cup Password
    BY DEF Apply
  <2>2. /\ call' \in [Call -> {Idle} \cup Busy] /\ call'[c] # Idle /\ call[c] \in Busy
        /\ call'[c].at = "wall" /\ call'[c].old = call[c].old /\ call'[c].new = call[c].new
        /\ \A d \in Call : d # c => call'[d] = call[d]
    BY <1>1, <1>4, <2>1, GoToParts
  <2>3. New(c).port # NoPort
    BY <2>2, ConfigParts DEF New, Busy
  <2>4. Types' /\ NeverDeaf' /\ NoStrayRules' /\ ResolvRestored'
    <3>1. /\ listener' = [port |-> listener'.port, router |-> listener'.router]
          /\ listener'.port # NoPort
      BY <1>2, <1>4, <2>3 DEF Types, NeverDeaf
    <3>2. QED
      BY <1>1, <1>2, <1>4, <2>2, <3>1 DEF Types, NeverDeaf, NoStrayRules, ResolvRestored
  <2>5. ASSUME Phase(c) PROVE Phase(c)'
    <3>1. ApplyPhase("listen", New(c)) /\ Old(c) = config /\ router.hosts = hosts
      BY <1>1, <2>5 DEF Phase, Old, New, Apply
    <3>2. listener'.port = New(c).port
      BY <1>4, <3>1 DEF ApplyPhase
    <3>3. ApplyPhase("wall", New(c))'
      BY <1>1, <2>2, <3>1, <3>2 DEF ApplyPhase, New
    <3>4. QED
      BY <1>1, <2>2, <3>1, <3>3 DEF Phase, Old, New, Password
  <2>6. Coherent'
    BY <1>1, <1>4, <2>2, <2>5, CoherentMove
  <2>7. QED
    BY <2>4, <2>6
<1>5. QED
  BY <1>3, <1>4 DEF Listen

\* The old guard is dropped after the new rules were installed, so that no rule
\* of a backend without a guard is left.
LEMMA WallStep == ASSUME Inv, NEW c \in Call, Wall(c) PROVE Inv'
<1> USE DEF Inv
<1>1. /\ call[c].at = "wall" /\ call[c] # Idle /\ call[c].at \in Apply \cup Password
      /\ UNCHANGED <<disk, config, auth, hosts, router, listener, dhcp, resolv, up>>
  BY DEF Wall, core, Idle, Apply
<1>2. up
  BY <1>1 DEF Types
<1>3. New(c) \in Config
  BY <1>1 DEF Types, Busy, New, Idle
<1>4. New(c).fw.backend \in Backend \cup {Off}
  BY <1>3, ConfigParts
<1> DEFINE Laid == Setups(rules, New(c).fw, New(c).port) \cup Stops(rules, New(c).fw, New(c).port)
<1>5. ASSUME NEW k \in Laid, rules' \in Cleanups(k, guard) PROVE \A r \in rules' : r.backend \in Backend
  <2>1. \A r \in k : r \in rules \/ r.backend \in Backend
    BY <1>3, <1>5, LaidParts
  <2>2. rules' \subseteq k
    BY <1>5, CleanedParts DEF Cleanups
  <2>3. QED
    BY <2>1, <2>2 DEF Types
<1>6. CASE /\ GoTo(c, "dhcp")
           /\ \/ UNCHANGED <<wall, blame>>
              \/ /\ guard' = New(c).fw.backend
                 /\ \E k \in Setups(rules, New(c).fw, New(c).port) : rules' \in Cleanups(k, guard)
                 /\ blame' = blame \cup
                       Spilled(Cleaned(Installed(rules, New(c).fw, New(c).port), guard))
  <2>1. "dhcp" \in Apply \cup Password
    BY DEF Apply
  <2>2. /\ call' \in [Call -> {Idle} \cup Busy] /\ call'[c] # Idle
        /\ call'[c].at = "dhcp" /\ call'[c].old = call[c].old /\ call'[c].new = call[c].new
        /\ \A d \in Call : d # c => call'[d] = call[d]
    BY <1>1, <1>6, <2>1, GoToParts
  <2>3. guard' \in Backend \cup {Off} /\ \A r \in rules' : r.backend \in Backend
    BY <1>4, <1>5, <1>6 DEF Types, wall
  <2>4. blame \subseteq blame'
    BY <1>6
  <2>5. NoStrayRules'
    <3> SUFFICES ASSUME blame' \cap {"crash", "spilled"} = {}, NEW r \in rules'
                 PROVE  r.backend = guard' \/ (r.backend = "iptables" /\ r.hook = "lan")
      BY DEF NoStrayRules
    <3>1. CASE UNCHANGED wall
      BY <2>4, <3>1 DEF NoStrayRules, wall
    <3>2. CASE guard' = New(c).fw.backend
               /\ rules' \subseteq Cleaned(Installed(rules, New(c).fw, New(c).port), guard)
      <4>1. /\ r \in Installed(rules, New(c).fw, New(c).port)
            /\ r.backend # guard \/ (r.backend = "iptables" /\ r.hook = "lan")
        BY <3>2, CleanedParts
      <4>2. r \in rules \/ r.backend = New(c).fw.backend
        BY <1>3, <4>1, InstalledParts
      <4>3. QED
        BY <2>4, <3>2, <4>1, <4>2 DEF NoStrayRules
    <3>3. QED
      BY <1>6, <3>1, <3>2 DEF Spilled
  <2>6. Types' /\ NeverDeaf' /\ ResolvRestored'
    BY <1>1, <1>2, <2>2, <2>3, <2>4 DEF Types, NeverDeaf, ResolvRestored
  <2>7. ASSUME Phase(c) PROVE Phase(c)'
    <3>1. ApplyPhase("wall", New(c)) /\ Old(c) = config /\ router.hosts = hosts
      BY <1>1, <2>7 DEF Phase, Old, New, Apply
    <3>2. ApplyPhase("dhcp", New(c))'
      BY <1>1, <2>2, <3>1 DEF ApplyPhase, New
    <3>3. QED
      BY <1>1, <2>2, <3>1, <3>2 DEF Phase, Old, New, Password
  <2>8. Coherent'
    BY <1>1, <2>2, <2>4, <2>7, CoherentMove
  <2>9. QED
    BY <2>5, <2>6, <2>8
<1>7. CASE /\ Done(c) /\ guard' = Off
           /\ \E k \in Stops(rules, New(c).fw, New(c).port) : rules' \in Cleanups(k, guard)
           /\ blame' = blame \cup {"failed"}
                 \cup Spilled(Cleaned(Cleaned(rules, New(c).fw.backend), guard))
  <2>1. call' \in [Call -> {Idle} \cup Busy]
    BY <1>7, DoneParts
  <2>2. blame \cup {"failed"} \subseteq blame'
    BY <1>7
  <2>3. \A r \in rules' : r.backend \in Backend
    BY <1>5, <1>7
  <2>4. NoStrayRules'
    <3> SUFFICES ASSUME blame' \cap {"crash", "spilled"} = {}, NEW r \in rules'
                 PROVE  r.backend = guard' \/ (r.backend = "iptables" /\ r.hook = "lan")
      BY DEF NoStrayRules
    <3>1. r \in Cleaned(Cleaned(rules, New(c).fw.backend), guard)
      BY <1>7 DEF Spilled
    <3>2. r \in rules /\ (r.backend # guard \/ (guard = "iptables" /\ r.hook = "lan"))
      BY <3>1, CleanedParts
    <3>3. QED
      BY <2>2, <3>2 DEF NoStrayRules
  <2>5. Types' /\ NeverDeaf' /\ ResolvRestored'
    BY <1>1, <1>2, <1>7, <2>1, <2>2, <2>3 DEF Types, NeverDeaf, ResolvRestored
  <2>6. QED
    BY <1>1, <1>7, <2>2, <2>4, <2>5, FailsStep
<1>8. QED
  BY <1>6, <1>7 DEF Wall

\* DHCP starts anew if its configuration is another.
LEMMA DhcpStep == ASSUME Inv, NEW c \in Call, Dhcp(c) PROVE Inv'
<1> USE DEF Inv
<1>1. /\ call[c].at = "dhcp" /\ call[c] # Idle /\ call[c].at \in Apply \cup Password
      /\ UNCHANGED <<disk, config, auth, hosts, router, listener, guard, rules, resolv, up>>
  BY DEF Dhcp, core, wall, Idle, Apply, Password
<1>2. up /\ call[c] \in Busy /\ New(c) \in Config
  BY <1>1 DEF Types, Idle, Busy, New
<1>3. CASE GoTo(c, "save") /\ UNCHANGED blame /\ dhcp' = (IF Old(c).dhcp = New(c).dhcp THEN dhcp
                              ELSE [dhcp |-> New(c).dhcp, hosts |-> hosts])
  <2>1. "save" \in Apply \cup Password
    BY DEF Apply, Password
  <2>2. /\ call' \in [Call -> {Idle} \cup Busy] /\ call'[c] # Idle
        /\ call'[c].at = "save" /\ call'[c].old = call[c].old /\ call'[c].new = call[c].new
        /\ \A d \in Call : d # c => call'[d] = call[d]
    BY <1>1, <1>3, <2>1, GoToParts
  <2>3. Types' /\ NeverDeaf' /\ NoStrayRules' /\ ResolvRestored'
    BY <1>1, <1>2, <1>3, <2>2 DEF Types, NeverDeaf, NoStrayRules, ResolvRestored
  <2>4. ASSUME Phase(c) PROVE Phase(c)'
    <3>1. ApplyPhase("dhcp", New(c)) /\ Old(c) = config /\ router.hosts = hosts
      BY <1>1, <2>4 DEF Phase, Old, New, Apply
    <3>2. ApplyPhase("save", New(c))'
      BY <1>1, <1>3, <2>2, <3>1 DEF ApplyPhase, New, Old
    <3>3. QED
      BY <1>1, <2>2, <3>1, <3>2 DEF Phase, Old, New, Password
  <2>5. Coherent'
    BY <1>1, <1>3, <2>2, <2>4, CoherentMove
  <2>6. QED
    BY <2>3, <2>5
<1>4. QED
  BY <1>3 DEF Dhcp

\* The file is written, or is not.
LEMMA SaveStep == ASSUME Inv, NEW c \in Call, Save(c) PROVE Inv'
<1> USE DEF Inv
<1>1. /\ call[c].at = "save" /\ call[c] # Idle /\ call[c].at \in Apply \cup Password
      /\ UNCHANGED <<config, auth, hosts, router, listener, dhcp, guard, rules, resolv, up>>
  BY DEF Save, core, wall, Idle, Apply, Password
<1>2. up /\ call[c] \in Busy /\ New(c) \in Config
  BY <1>1 DEF Types, Idle, Busy, New
<1>3. CASE Fails(c) /\ UNCHANGED disk
  <2>1. call' \in [Call -> {Idle} \cup Busy] /\ blame \subseteq blame'
    BY <1>3, DoneParts DEF Fails
  <2>2. Types' /\ NeverDeaf' /\ NoStrayRules' /\ ResolvRestored'
    BY <1>1, <1>2, <1>3, <2>1 DEF Types, NeverDeaf, NoStrayRules, ResolvRestored
  <2>3. QED
    BY <1>1, <1>3, <2>2, FailsStep DEF Fails
<1>4. CASE GoTo(c, "store") /\ UNCHANGED blame /\ disk' = New(c)
  <2>1. "store" \in Apply \cup Password
    BY DEF Apply, Password
  <2>2. /\ call' \in [Call -> {Idle} \cup Busy] /\ call'[c] # Idle
        /\ call'[c].at = "store" /\ call'[c].old = call[c].old /\ call'[c].new = call[c].new
        /\ \A d \in Call : d # c => call'[d] = call[d]
    BY <1>1, <1>4, <2>1, GoToParts
  <2>3. Types' /\ NeverDeaf' /\ NoStrayRules' /\ ResolvRestored'
    BY <1>1, <1>2, <1>4, <2>2 DEF Types, NeverDeaf, NoStrayRules, ResolvRestored
  <2>4. ASSUME Phase(c) PROVE Phase(c)'
    <3>1. ApplyPhase("save", New(c)) /\ Old(c) = config /\ router.hosts = hosts
      BY <1>1, <2>4 DEF Phase, Old, New, Apply
    <3>2. ApplyPhase("store", New(c))'
      BY <1>1, <1>4, <2>2, <3>1 DEF ApplyPhase, New, Old
    <3>3. QED
      BY <1>1, <2>2, <3>1, <3>2 DEF Phase, Old, New, Password
  <2>5. Coherent'
    BY <1>1, <1>4, <2>2, <2>4, CoherentMove
  <2>6. QED
    BY <2>3, <2>5
<1>5. QED
  BY <1>3, <1>4 DEF Save

\* The snapshot is replaced: everything agrees again.
LEMMA StoreStep == ASSUME Inv, NEW c \in Call, Store(c) PROVE Inv'
<1> USE DEF Inv
<1>1. /\ call[c].at = "store" /\ call[c] # Idle /\ call[c].at \in Apply \cup Password
      /\ UNCHANGED <<disk, auth, hosts, router, listener, dhcp, guard, rules, resolv, up>>
  BY DEF Store, core, wall, Idle, Apply, Password
<1>2. up /\ call[c] \in Busy /\ New(c) \in Config
  BY <1>1 DEF Types, Idle, Busy, New
<1>3. CASE Done(c) /\ UNCHANGED blame /\ config' = New(c)
  <2>1. /\ call' \in [Call -> {Idle} \cup Busy] /\ call'[c] = Idle
        /\ \A d \in Call : d # c => call'[d] = call[d]
    BY <1>3, DoneParts
  <2>2. Types' /\ NeverDeaf' /\ NoStrayRules' /\ ResolvRestored'
    BY <1>1, <1>2, <1>3, <2>1 DEF Types, NeverDeaf, NoStrayRules, ResolvRestored
  <2>3. ASSUME Phase(c) PROVE Agree'
    <3>1. ApplyPhase("store", New(c)) /\ router.hosts = hosts
      BY <1>1, <2>3 DEF Phase, New, Apply
    <3>2. QED
      BY <1>1, <1>3, <3>1 DEF ApplyPhase, Agree
  <2>4. Coherent'
    BY <1>1, <1>3, <2>1, <2>3, CoherentMove
  <2>5. QED
    BY <2>2, <2>4
<1>4. QED
  BY <1>3 DEF Store

\* Logins are checked against the new hash.
LEMMA StoreAuthStep == ASSUME Inv, NEW c \in Call, StoreAuth(c) PROVE Inv'
<1> USE DEF Inv
<1>1. /\ call[c].at = "auth" /\ call[c] # Idle /\ call[c].at \in Apply \cup Password
      /\ UNCHANGED <<disk, config, hosts, router, listener, dhcp, guard, rules, resolv, up>>
  BY DEF StoreAuth, core, wall, Idle, Apply, Password
<1>2. up /\ call[c] \in Busy /\ New(c) \in Config
  BY <1>1 DEF Types, Idle, Busy, New
<1>3. CASE GoTo(c, "write") /\ UNCHANGED blame /\ auth' = New(c).hash
  <2>1. "write" \in Apply \cup Password
    BY DEF Apply, Password
  <2>2. /\ call' \in [Call -> {Idle} \cup Busy] /\ call'[c] # Idle
        /\ call'[c].at = "write" /\ call'[c].old = call[c].old /\ call'[c].new = call[c].new
        /\ \A d \in Call : d # c => call'[d] = call[d]
    BY <1>1, <1>3, <2>1, GoToParts
  <2>3. Types' /\ NeverDeaf' /\ NoStrayRules' /\ ResolvRestored'
    BY <1>1, <1>2, <1>3, <2>2 DEF Types, NeverDeaf, NoStrayRules, ResolvRestored
  <2>4. ASSUME Phase(c) PROVE Phase(c)'
    <3>1. PasswordPhase("auth", New(c)) /\ Old(c) = config /\ router.hosts = hosts
      BY <1>1, <2>4 DEF Phase, Old, New, Password
    <3>2. PasswordPhase("write", New(c))'
      BY <1>1, <1>3, <2>2, <3>1 DEF PasswordPhase, New, Old
    <3>3. QED
      BY <1>1, <2>2, <3>1, <3>2 DEF Phase, Old, New, Apply
  <2>5. Coherent'
    BY <1>1, <1>3, <2>2, <2>4, CoherentMove
  <2>6. QED
    BY <2>3, <2>5
<1>4. QED
  BY <1>3 DEF StoreAuth

\* The file is written with the new hash, or is not.
LEMMA WritePasswordStep == ASSUME Inv, NEW c \in Call, WritePassword(c) PROVE Inv'
<1> USE DEF Inv
<1>1. /\ call[c].at = "write" /\ call[c] # Idle /\ call[c].at \in Apply \cup Password
      /\ UNCHANGED <<config, auth, hosts, router, listener, dhcp, guard, rules, resolv, up>>
  BY DEF WritePassword, core, wall, Idle, Apply, Password
<1>2. up /\ call[c] \in Busy /\ New(c) \in Config
  BY <1>1 DEF Types, Idle, Busy, New
<1>3. CASE Fails(c) /\ UNCHANGED disk
  <2>1. call' \in [Call -> {Idle} \cup Busy] /\ blame \subseteq blame'
    BY <1>3, DoneParts DEF Fails
  <2>2. Types' /\ NeverDeaf' /\ NoStrayRules' /\ ResolvRestored'
    BY <1>1, <1>2, <1>3, <2>1 DEF Types, NeverDeaf, NoStrayRules, ResolvRestored
  <2>3. QED
    BY <1>1, <1>3, <2>2, FailsStep DEF Fails
<1>4. CASE GoTo(c, "swap") /\ UNCHANGED blame /\ disk' = New(c)
  <2>1. "swap" \in Apply \cup Password
    BY DEF Apply, Password
  <2>2. /\ call' \in [Call -> {Idle} \cup Busy] /\ call'[c] # Idle
        /\ call'[c].at = "swap" /\ call'[c].old = call[c].old /\ call'[c].new = call[c].new
        /\ \A d \in Call : d # c => call'[d] = call[d]
    BY <1>1, <1>4, <2>1, GoToParts
  <2>3. Types' /\ NeverDeaf' /\ NoStrayRules' /\ ResolvRestored'
    BY <1>1, <1>2, <1>4, <2>2 DEF Types, NeverDeaf, NoStrayRules, ResolvRestored
  <2>4. ASSUME Phase(c) PROVE Phase(c)'
    <3>1. PasswordPhase("write", New(c)) /\ Old(c) = config /\ router.hosts = hosts
      BY <1>1, <2>4 DEF Phase, Old, New, Password
    <3>2. PasswordPhase("swap", New(c))'
      BY <1>1, <1>4, <2>2, <3>1 DEF PasswordPhase, New, Old
    <3>3. QED
      BY <1>1, <2>2, <3>1, <3>2 DEF Phase, Old, New, Apply
  <2>5. Coherent'
    BY <1>1, <1>4, <2>2, <2>4, CoherentMove
  <2>6. QED
    BY <2>3, <2>5
<1>5. QED
  BY <1>3, <1>4 DEF WritePassword

\* The snapshot has the new hash.
LEMMA StorePasswordStep == ASSUME Inv, NEW c \in Call, StorePassword(c) PROVE Inv'
<1> USE DEF Inv
<1>1. /\ call[c].at = "swap" /\ call[c] # Idle /\ call[c].at \in Apply \cup Password
      /\ UNCHANGED <<disk, auth, hosts, router, listener, dhcp, guard, rules, resolv, up>>
  BY DEF StorePassword, core, wall, Idle, Apply, Password
<1>2. up /\ call[c] \in Busy /\ New(c) \in Config
  BY <1>1 DEF Types, Idle, Busy, New
<1>3. CASE Done(c) /\ UNCHANGED blame /\ config' = New(c)
  <2>1. /\ call' \in [Call -> {Idle} \cup Busy] /\ call'[c] = Idle
        /\ \A d \in Call : d # c => call'[d] = call[d]
    BY <1>3, DoneParts
  <2>2. Types' /\ NeverDeaf' /\ NoStrayRules' /\ ResolvRestored'
    BY <1>1, <1>2, <1>3, <2>1 DEF Types, NeverDeaf, NoStrayRules, ResolvRestored
  <2>3. ASSUME Phase(c) PROVE Agree'
    <3>1. PasswordPhase("swap", New(c)) /\ router.hosts = hosts
      BY <1>1, <2>3 DEF Phase, New, Password
    <3>2. QED
      BY <1>1, <1>3, <3>1 DEF PasswordPhase, Agree
  <2>4. Coherent'
    BY <1>1, <1>3, <2>1, <2>3, CoherentMove
  <2>5. QED
    BY <2>2, <2>4
<1>4. QED
  BY <1>3 DEF StorePassword

\* A handler is dropped where it waits.
LEMMA AbandonStep == ASSUME Inv, NEW c \in Call, Abandon(c) PROVE Inv'
<1> USE DEF Inv
<1>1. /\ call[c] # Idle /\ Fails(c)
      /\ UNCHANGED <<disk, config, auth, hosts, router, listener, dhcp, guard, rules, resolv, up>>
  BY DEF Abandon, Waits, core, wall, Idle
<1>2. up
  BY <1>1 DEF Types
<1>3. call' \in [Call -> {Idle} \cup Busy] /\ blame \subseteq blame'
  BY <1>1, DoneParts DEF Fails
<1>4. Types' /\ NeverDeaf' /\ NoStrayRules' /\ ResolvRestored'
  BY <1>1, <1>2, <1>3 DEF Types, NeverDeaf, NoStrayRules, ResolvRestored
<1>5. QED
  BY <1>1, <1>4, FailsStep DEF Fails

\* Every step of the daemon keeps the invariant.
LEMMA InvStep == Inv /\ [Next]_vars => Inv'
<1> SUFFICES ASSUME Inv, [Next]_vars PROVE Inv'
  OBVIOUS
<1>1. CASE Start \/ StartFails \/ Exit \/ Crash
  BY <1>1, StartStep, StartFailsStep, EndStep
<1>2. ASSUME NEW c \in Call, NEW b \in Body, PutConfig(c, b) PROVE Inv'
  <2>1. With(b, config.hash) \in Config /\ With(b, config.hash).hash = config.hash
    BY ConfigParts DEF Inv, Types
  <2>2. QED
    BY <1>2, <2>1, BeginStep DEF PutConfig
<1>3. ASSUME NEW c \in Call, NEW h \in Hash, ChangePassword(c, h) PROVE Inv'
  <2> DEFINE new == [config EXCEPT !.hash = h]
  <2>1. /\ new \in Config /\ new.port = config.port /\ new.routing = config.routing
        /\ new.dhcp = config.dhcp
    BY ConfigParts DEF Inv, Types
  <2>2. Begin(c, "auth", new)
    BY <1>3 DEF ChangePassword
  <2> HIDE DEF new
  <2>3. QED
    BY <2>1, <2>2, BeginStep
<1>4. ASSUME NEW c \in Call, Handle(c) PROVE Inv'
  BY <1>4, RouteStep, ListenStep, WallStep, DhcpStep, SaveStep, StoreStep, StoreAuthStep,
     WritePasswordStep, StorePasswordStep, AbandonStep DEF Handle
<1>5. CASE UNCHANGED vars
  <2>1. UNCHANGED <<disk, config, auth, hosts, router, listener, dhcp, guard, rules, resolv, call,
                    up, blame>>
    BY <1>5 DEF vars, core, wall
  <2>2. Types' /\ NeverDeaf' /\ NoStrayRules' /\ ResolvRestored'
    BY <2>1 DEF Inv, Types, NeverDeaf, NoStrayRules, ResolvRestored
  <2>3. Coherent'
    BY <2>1 DEF Inv, Coherent, Agree, Phase, ApplyPhase, PasswordPhase
  <2>4. QED
    BY <2>2, <2>3 DEF Inv
<1>6. QED
  BY <1>1, <1>2, <1>3, <1>4, <1>5 DEF Next

---------------------------------------------------------------------------
(* Theorems *)

\* The invariant holds of every life of the daemon.
THEOREM Invariance == Spec => []Inv
<1>1. Inv /\ [Next]_vars => Inv'
  BY InvStep
<1>2. QED
  BY <1>1, InvInit, PTL DEF Spec

\* While the daemon runs something answers DNS, whatever updates fail or overlap:
\* rebind_dns_listener binds the new port before it stops the old listener.
THEOREM AlwaysAnswers == Spec => []NeverDeaf
<1>1. Inv => NeverDeaf
  BY DEF Inv
<1>2. QED
  BY <1>1, Invariance, PTL

\* After updates that came one at a time and succeeded, and after any start, file,
\* snapshot, listener, router, DHCP and password agree.
THEOREM UpdatesAgree == Spec => []SettledAgrees
<1>1. Inv => SettledAgrees
  BY DEF Inv, Coherent, Settled, SettledAgrees, Agree
<1>2. QED
  BY <1>1, Invariance, PTL

\* Without a crash and a firewall tool that fails no redirect rule is left that no
\* guard stands for, but for the LAN rules of iptables: reapply_firewall drops the
\* old guard after FirewallGuard::setup, also when that returns an error.
THEOREM RulesHaveGuards == Spec => []NoStrayRules
<1>1. Inv => NoStrayRules
  BY DEF Inv
<1>2. QED
  BY <1>1, Invariance, PTL

\* Without a crash and a write that fails resolv.conf is the user's whenever the
\* daemon is down.  Through crashes and failed writes the user's file is there, as
\* resolv.conf or as its backup, until ResolvConfGuard::install finds another one
\* in its place and copies that over the backup.
THEOREM ResolvComesBack == Spec => []ResolvRestored
<1>1. Inv => ResolvRestored
  BY DEF Inv
<1>2. QED
  BY <1>1, Invariance, PTL
=============================================================================
