------------------------------ MODULE Resolve ------------------------------
(***************************************************************************)
(* How one request is answered: dns/router.rs with the cache of            *)
(* dns/cache.rs, the names of dns/hosts.rs and the upstream groups of      *)
(* dns/upstream/mod.rs.  A request runs in a task of its own               *)
(* (dns/listener.rs); tasks share the cache, the round-robin counters and  *)
(* the table of names, each under a lock or an atomic of its own, and hold *)
(* none of them while they wait for a server.                              *)
(*                                                                         *)
(* A router is never changed: an update builds a new one, with an empty    *)
(* cache, from its configuration, and the listener is bound again with it. *)
(* Tasks that exist by then, a TCP connection with all its later requests  *)
(* among them, go on with the old router.                                  *)
(***************************************************************************)
EXTENDS Integers, Sequences, SequencesExt, FiniteSetsExt, Functions

CONSTANTS
  Reqs,      \* tasks that handle requests; each handles any number in turn
  Names,     \* domain names, letter case and the final dot aside
  Servers,   \* upstream servers
  Rcode,     \* those whose url is rcode://..., which answer by themselves
  Ttls,      \* times to live that records of upstream answers may have
  Timeout,   \* UPSTREAM_TIMEOUT, in ticks
  None,      \* no answer, no entry, no address
  Configs    \* the configurations of the routers, in the order they are built

Types == {"A", "AAAA"}
Keys == [name : Names, type : Types]
Routers == DOMAIN Configs

NoRecords == -1     \* the ttl of an answer without records

ASSUME RcodeAssumption == Rcode \subseteq Servers
ASSUME TtlsAssumption == Ttls \subseteq Nat
ASSUME TimeoutAssumption == Timeout \in Nat \ {0}

(***************************************************************************)
(* A configuration that passed Config::validate: there is a group default, *)
(* and every rule names a group.  DnsCache::new gives the cache a place.   *)
(***************************************************************************)
Groups(c) == DOMAIN c.groups

ASSUME ConfigAssumption ==
  /\ 1 \in Routers
  /\ \A r \in Routers : LET c == Configs[r] IN
       /\ "default" \in Groups(c)
       /\ c.rules \in Seq([match : SUBSET Names, group : Groups(c)])
       /\ \A g \in Groups(c) :
            /\ c.groups[g].mode \in {"round_robin", "fastest"}
            /\ c.groups[g].servers \in Seq(Servers)
            /\ IsInjective(c.groups[g].servers)
       /\ c.hosts \subseteq Keys
       /\ c.size \in Nat \ {0} /\ c.min \in Nat /\ c.max \in Nat

VARIABLES
  live,      \* the router the listener is bound with
  names,     \* DynamicHosts: the type of address a name has, or None
  cache,     \* cache[r][k]: the entry of router r for k, or None
  recent,    \* recent[r]: its keys, the most recently used first
  counter,   \* counter[r][g]: the counter of group g, modulo its size
  req        \* req[q]: what the task q is about

vars == <<live, names, cache, recent, counter, req>>

(***************************************************************************)
(* An answer is known by the servers it is made of, the key it answers,    *)
(* the least time to live of its records and the time since it was given.  *)
(***************************************************************************)
Answers == [by : SUBSET Servers, key : Keys, ttl : Ttls \cup {NoRecords}, age : Nat]

GroupNames == UNION {Groups(Configs[r]) : r \in Routers}

Entries == [ans : Answers, left : Nat, origin : GroupNames, blocked : BOOLEAN]

(***************************************************************************)
(* A leg is one UpstreamGroup::query: servers being asked, servers to ask  *)
(* if these fail, servers that failed, the time until those being asked    *)
(* time out, and the answer.                                               *)
(***************************************************************************)
Legs == [asked : SUBSET Servers, next : Seq(Servers), failed : SUBSET Servers,
         wait : Nat, ans : Answers \cup {None}]

Answered(ans) == [asked |-> {}, next |-> <<>>, failed |-> {}, wait |-> 0, ans |-> ans]

NoLeg == Answered(None)

(* A reply with its ResolveMeta; its ttl is what the records of a cached   *)
(* answer are given, and NoRecords if there are none to give it to.        *)
Sources == {"hosts", "strategy", "cache", "dynamic-hosts", "rule", "default", "error"}

Replies == [source : Sources, origin : Sources \cup GroupNames, blocked : BOOLEAN,
            ttl : Nat \cup {NoRecords}, ans : Answers \cup {None}]

ASSUME NoneAssumption ==
  None \notin Types /\ None \notin Keys /\ None \notin Answers /\ None \notin Entries

Phases == {"idle", "names", "asking", "done"}

Request(at, k, r) ==
  [at |-> at, key |-> k, rt |-> r, main |-> NoLeg, alt |-> NoLeg, reply |-> None]

Idle == Request("idle", None, 1)

Conf(q) == Configs[req[q].rt]

Init ==
  /\ live = 1
  /\ names = [n \in Names |-> None]
  /\ cache = [r \in Routers |-> [k \in Keys |-> None]]
  /\ recent = [r \in Routers |-> <<>>]
  /\ counter = [r \in Routers |-> [g \in Groups(Configs[r]) |-> 0]]
  /\ req = [q \in Reqs |-> Idle]

-----------------------------------------------------------------------------
(* The cache.                                                              *)

Fresh(e) == e # None /\ e.left > 0

(* A list of keys without k: each key has one place in it.                  *)
Without(s, k) ==
  IF k \in ToSet(s) THEN RemoveAt(s, CHOOSE i \in DOMAIN s : s[i] = k) ELSE s

Clamp(c, ttl) ==
  LET least == IF ttl = NoRecords THEN c.min ELSE ttl
  IN  Min({Max({least, c.min}), c.max})

(* DnsCache::insert: the entry is the most recent, the last goes if full.  *)
Insert(r, k, e) ==
  LET others == Without(recent[r], k)
      full == Len(others) >= Configs[r].size
      kept == IF full THEN Front(others) ELSE others
  IN  /\ recent' = [recent EXCEPT ![r] = <<k>> \o kept]
      /\ cache' = [cache EXCEPT ![r] = [x \in Keys |->
            IF x = k THEN e ELSE IF full /\ x = Last(others) THEN None ELSE @[x]]]

(* Slip: the mark rcode: is left off the origin. *)
PutUnmarked(r, k, ans, origin, blocked) ==
  LET c == Configs[r]
      left == Clamp(c, ans.ttl)
  IN  IF c.cache /\ left > 0
      THEN Insert(r, k, [ans |-> ans, left |-> left, origin |-> origin, blocked |-> FALSE])
      ELSE UNCHANGED <<cache, recent>>

(* Slip: a request that an update overtook fills the new router's cache. *)
PutInLive(r, k, ans, origin, blocked) ==
  LET c == Configs[live]
      left == Clamp(c, ans.ttl)
  IN  IF c.cache /\ left > 0
      THEN Insert(live, k, [ans |-> ans, left |-> left, origin |-> origin, blocked |-> blocked])
      ELSE UNCHANGED <<cache, recent>>

(* Slip: the maximum is forgotten. *)
PutUnclamped(r, k, ans, origin, blocked) ==
  LET c == Configs[r]
      left == Max({ans.ttl, c.min})
  IN  IF c.cache /\ left > 0
      THEN Insert(r, k, [ans |-> ans, left |-> left, origin |-> origin, blocked |-> blocked])
      ELSE UNCHANGED <<cache, recent>>

Put(r, k, ans, origin, blocked) ==
  LET c == Configs[r]
      left == Clamp(c, ans.ttl)
  IN  IF c.cache /\ left > 0
      THEN Insert(r, k, [ans |-> ans, left |-> left, origin |-> origin, blocked |-> blocked])
      ELSE UNCHANGED <<cache, recent>>

(* DnsCache::get: a fresh entry becomes the most recent, an expired one goes. *)
Get(r, k) ==
  LET e == cache[r][k]
  IN  /\ recent' = IF e = None THEN recent
                   ELSE [recent EXCEPT ![r] = (IF Fresh(e) THEN <<k>> ELSE <<>>) \o Without(@, k)]
      /\ cache' = IF Fresh(e) THEN cache ELSE [cache EXCEPT ![r][k] = None]

(***************************************************************************)
(* What is left is written into the answer and the additional section.  The *)
(* authority section is sent as it came, with the time to live of its SOA  *)
(* record, which says how long an answer without records may be kept.      *)
(***************************************************************************)
Told(e) == IF e.ans.ttl = NoRecords THEN NoRecords ELSE e.left

-----------------------------------------------------------------------------
(* The choice of a source.                                                 *)

Suppressed(c, k) == <<c.strategy, k.type>> \in {<<"only_ipv4", "AAAA">>, <<"only_ipv6", "A">>}

(* Both families are asked for. *)
Prefers(c) == c.strategy \in {"prefer_ipv4", "prefer_ipv6"}

Matching(c, n) == {i \in DOMAIN c.rules : n \in c.rules[i].match}

GroupFor(c, n) ==
  IF Matching(c, n) = {} THEN "default" ELSE c.rules[Min(Matching(c, n))].group

(* Only a group that a rule names is told to block. *)
Blocks(c, n) ==
  Matching(c, n) # {} /\ ToSet(c.groups[GroupFor(c, n)].servers) \subseteq Rcode

Done(rec, source, origin, blocked, ttl, ans) ==
  [rec EXCEPT !.at = "done",
              !.reply = [source |-> source, origin |-> origin, blocked |-> blocked,
                         ttl |-> ttl, ans |-> ans]]

Local(rec, source) == Done(rec, source, source, FALSE, 0, None)

(***************************************************************************)
(* resolve_with_meta up to the table of static names, with the router r    *)
(* that the task was given.  The strategy and that table never change, so  *)
(* the cache's lock is its one step.                                       *)
(***************************************************************************)
Accept(q, k, r) ==
  LET c == Configs[r]
      rec == Request("names", k, r)
      e == cache[r][k]
      static == IF k \in c.hosts THEN Local(rec, "hosts") ELSE rec
  IN  /\ req[q].at \in {"idle", "done"}
      /\ r <= live
      /\ \/ /\ Suppressed(c, k)
            /\ req' = [req EXCEPT ![q] = Local(rec, "strategy")]
            /\ UNCHANGED <<cache, recent>>
         \/ /\ ~Suppressed(c, k) /\ Fresh(e)
            /\ req' = [req EXCEPT ![q] = Done(rec, "cache", e.origin, e.blocked, Told(e), e.ans)]
            /\ Get(r, k)
         \/ /\ ~Suppressed(c, k) /\ ~Fresh(e)
            /\ req' = [req EXCEPT ![q] = static]
            /\ Get(r, k)
      /\ UNCHANGED <<live, names, counter>>

-----------------------------------------------------------------------------
(* Asking a group.                                                         *)

(* Slip: no server before the one the counter points at is asked. *)
RotatedShort(s, start) == SubSeq(s, start + 1, Len(s))

(* The servers from the one the counter points at, each once. *)
Rotated(s, start) == [i \in DOMAIN s |-> s[((start + i - 1) % Len(s)) + 1]]

NewLeg(grp, start) ==
  IF grp.mode = "fastest" \/ grp.servers = <<>>
  THEN [NoLeg EXCEPT !.asked = ToSet(grp.servers), !.wait = Timeout]
  ELSE LET turn == Rotated(grp.servers, start)
       IN  [NoLeg EXCEPT !.asked = {Head(turn)}, !.next = Tail(turn), !.wait = Timeout]

(* Slip: the counter is not taken modulo the number of servers. *)
AdvancedFar(grp, at, n) ==
  IF grp.mode = "fastest" \/ grp.servers = <<>> THEN at ELSE at + n

(* fetch_add, once for each of n queries. *)
Advanced(grp, at, n) ==
  IF grp.mode = "fastest" \/ grp.servers = <<>> THEN at ELSE (at + n) % Len(grp.servers)

(***************************************************************************)
(* The table of DHCP names, then the rules, up to the first await: the     *)
(* legs are begun.  With a prefer strategy the preferred family is begun   *)
(* first.                                                                  *)
(***************************************************************************)
LookUp(q) ==
  LET c == Conf(q)
      r == req[q].rt
      k == req[q].key
      g == GroupFor(c, k.name)
      grp == c.groups[g]
      mainFirst == <<c.strategy, k.type>> \notin {<<"prefer_ipv4", "AAAA">>, <<"prefer_ipv6", "A">>}
      start(i) == NewLeg(grp, Advanced(grp, counter[r][g], i))
  IN  /\ req[q].at = "names"
      /\ \/ /\ names[k.name] = k.type
            /\ req' = [req EXCEPT ![q] = Local(@, "dynamic-hosts")]
            /\ UNCHANGED counter
         \/ /\ names[k.name] # k.type
            /\ req' = [req EXCEPT ![q] = [@ EXCEPT
                  !.at = "asking",
                  !.main = start(IF mainFirst THEN 0 ELSE 1),
                  !.alt = IF Prefers(c) THEN start(IF mainFirst THEN 1 ELSE 0) ELSE NoLeg]]
            /\ counter' = [counter EXCEPT ![r][g] = Advanced(grp, @, IF Prefers(c) THEN 2 ELSE 1)]
      /\ UNCHANGED <<live, names, cache, recent>>

Sides == {"main", "alt"}

OtherType(t) == IF t = "A" THEN "AAAA" ELSE "A"

AskedKey(k, side) == IF side = "main" THEN k ELSE [k EXCEPT !.type = OtherType(@)]

(* A server answers; the others of a fastest group are dropped. *)
Answer(q, side, s, ttl) ==
  /\ req[q].at = "asking"
  /\ s \in req[q][side].asked
  /\ s \in Rcode => ttl = NoRecords
  /\ req' = [req EXCEPT ![q][side] = Answered(
               [by |-> {s}, key |-> AskedKey(req[q].key, side), ttl |-> ttl, age |-> 0])]
  /\ UNCHANGED <<live, names, cache, recent, counter>>

(* The leg l without s, which failed or timed out: on to the next server.  *)
Failed(l, s) ==
  IF l.asked = {s} /\ l.next # <<>>
  THEN [l EXCEPT !.asked = {Head(l.next)}, !.next = Tail(@), !.wait = Timeout,
                 !.failed = @ \cup {s}]
  ELSE [l EXCEPT !.asked = @ \ {s}, !.failed = @ \cup {s}]

Fail(q, side, s) ==
  /\ req[q].at = "asking"
  /\ s \in req[q][side].asked \ Rcode
  /\ req' = [req EXCEPT ![q][side] = Failed(@, s)]
  /\ UNCHANGED <<live, names, cache, recent, counter>>

Settled(q) == req[q].at = "asking" /\ req[q].main.asked = {} /\ req[q].alt.asked = {}

(* merge_responses. *)
Merged(a, b) ==
  IF b = None THEN a
  ELSE [a EXCEPT !.by = @ \cup b.by,
                 !.age = Max({@, b.age}),
                 !.ttl = IF {@, b.ttl} \ {NoRecords} = {} THEN NoRecords
                         ELSE Min({@, b.ttl} \ {NoRecords})]

(* The legs are joined: the answer is cached and sent, or there is none.   *)
Finish(q) ==
  LET c == Conf(q)
      k == req[q].key
      g == GroupFor(c, k.name)
      source == IF Matching(c, k.name) = {} THEN "default" ELSE "rule"
      ans == Merged(req[q].main.ans, req[q].alt.ans)
  IN  /\ Settled(q)
      /\ \/ /\ req[q].main.ans = None
            /\ req' = [req EXCEPT ![q] = Local(@, "error")]
            /\ UNCHANGED <<cache, recent>>
         \/ /\ req[q].main.ans # None
            /\ Put(req[q].rt, k, ans, g, Blocks(c, k.name))
            /\ req' = [req EXCEPT ![q] = Done(@, source, g, Blocks(c, k.name), 0, ans)]
      /\ UNCHANGED <<live, names, counter>>

-----------------------------------------------------------------------------
(* The surroundings.                                                       *)

(* DynamicHosts::insert and remove, called by the DHCP servers.  A name has *)
(* one address, so a lease of the other family replaces it.                *)
SetName(n, t) ==
  /\ names' = [names EXCEPT ![n] = t]
  /\ UNCHANGED <<live, cache, recent, counter, req>>

(* Slip: the new router takes the cache over. *)
RebindKeepingCache ==
  /\ live + 1 \in Routers
  /\ live' = live + 1
  /\ cache' = [cache EXCEPT ![live + 1] = cache[live]]
  /\ recent' = [recent EXCEPT ![live + 1] = recent[live]]
  /\ UNCHANGED <<names, counter, req>>

(* The listener is bound again, with the next router. *)
Rebind ==
  /\ live + 1 \in Routers
  /\ live' = live + 1
  /\ UNCHANGED <<names, cache, recent, counter, req>>

(***************************************************************************)
(* A tick.  Tasks that can run do so within the tick: none is ready, no    *)
(* timeout is due, and rcode:// servers have answered.                     *)
(***************************************************************************)
Waiting(l) == l.asked # {}

Quiet(q) ==
  /\ req[q].at # "names"
  /\ ~Settled(q)
  /\ req[q].at = "asking" => \A side \in Sides :
       LET l == req[q][side]
       IN  Waiting(l) => l.wait > 0 /\ l.asked \cap Rcode = {}

Older(a) == IF a = None THEN None ELSE [a EXCEPT !.age = @ + 1]

Elapse(l) == [l EXCEPT !.wait = IF Waiting(l) THEN @ - 1 ELSE 0, !.ans = Older(@)]

Aged(e) == IF Fresh(e) THEN [e EXCEPT !.left = @ - 1, !.ans = Older(@)] ELSE e

Tick ==
  /\ \A q \in Reqs : Quiet(q)
  /\ cache' = [r \in Routers |-> [k \in Keys |-> Aged(cache[r][k])]]
  /\ req' = [q \in Reqs |-> IF req[q].at = "asking"
                            THEN [req[q] EXCEPT !.main = Elapse(@), !.alt = Elapse(@)]
                            ELSE req[q]]
  /\ UNCHANGED <<live, names, recent, counter>>

Next ==
  \/ \E q \in Reqs :
       \/ \E k \in Keys, r \in Routers : Accept(q, k, r)
       \/ LookUp(q)
       \/ \E side \in Sides, s \in Servers :
            \/ \E ttl \in Ttls \cup {NoRecords} : Answer(q, side, s, ttl)
            \/ Fail(q, side, s)
       \/ Finish(q)
  \/ \E n \in Names, t \in Types \cup {None} : SetName(n, t)
  \/ Rebind
  \/ Tick

Spec == Init /\ [][Next]_vars

-----------------------------------------------------------------------------
(* Properties.                                                             *)

TypeOK ==
  /\ live \in Routers
  /\ names \in [Names -> Types \cup {None}]
  /\ \A r \in Routers :
       /\ cache[r] \in [Keys -> Entries \cup {None}]
       /\ recent[r] \in Seq(Keys) /\ IsInjective(recent[r])
       /\ ToSet(recent[r]) = {k \in Keys : cache[r][k] # None}
       /\ Len(recent[r]) <= Configs[r].size
       /\ counter[r] \in [Groups(Configs[r]) -> Nat]
       /\ \A g \in Groups(Configs[r]) :
            counter[r][g] < Max({1, Len(Configs[r].groups[g].servers)})
  /\ req \in [Reqs -> [at : Phases, key : Keys \cup {None},
                       rt : Routers, main : Legs, alt : Legs, reply : Replies \cup {None}]]

(* A step that replies to the request of task q, or gives it up. *)
Replied(q) == req'[q].at = "done" /\ req'[q] # req[q]

FromGroup(q) == Replied(q) /\ req'[q].reply.source \in {"cache", "rule", "default"}

(* An address in the table of static names is never overridden: not by an  *)
(* answer that another router cached before the table had the name, nor by *)
(* one that a request brought in meanwhile (dns/router.rs looks into the   *)
(* cache before the table).                                                *)
StaticNamesWin ==
  [][\A q \in Reqs : Replied(q) =>
       LET now == req'[q]
       IN  now.key \in Configs[now.rt].hosts => now.reply.source \in {"hosts", "strategy"}]_vars

(* The group of the first rule that matches the name, or default if none   *)
(* does, gave the answer, cached or not, and gave it to the question that  *)
(* was asked; this is what the statistics are told (original_upstream).    *)
(* The rules are those of the router that accepted the request, however    *)
(* many requests and updates overlap.                                      *)
Rules(c, n, g) ==
  \/ /\ g = "default"
     /\ \A i \in DOMAIN c.rules : n \notin c.rules[i].match
  \/ \E i \in DOMAIN c.rules :
       /\ n \in c.rules[i].match /\ g = c.rules[i].group
       /\ \A j \in 1..(i - 1) : n \notin c.rules[j].match

AnsweredByTheRules ==
  [][\A q \in Reqs : FromGroup(q) =>
       LET now == req'[q]
           c == Configs[now.rt]
       IN  /\ now.reply.ans.key = now.key
           /\ \E g \in Groups(c) :
                /\ Rules(c, now.key.name, g)
                /\ now.reply.origin = g
                /\ now.reply.ans.by \subseteq ToSet(c.groups[g].servers)]_vars

(* A cached answer counts as blocked exactly if the first one did: a rule  *)
(* chose a group of rcode:// servers only (the comments at dns/router.rs   *)
(* 36 and 188).  Such a group as the default does not block.               *)
BlockedIsRestored ==
  [][\A q \in Reqs : FromGroup(q) =>
       LET now == req'[q]
       IN  now.reply.blocked <=> Blocks(Configs[now.rt], now.key.name)]_vars

(* A request fails only after every server of its group has failed it,     *)
(* wherever the shared counter made it start and whatever other requests   *)
(* did to the counter meanwhile: a server that works is found.             *)
FailsOnlyIfAllFail ==
  [][\A q \in Reqs : Replied(q) /\ req'[q].reply.source = "error" =>
       LET now == req'[q]
           c == Configs[now.rt]
       IN  now.main.failed = ToSet(c.groups[GroupFor(c, now.key.name)].servers)]_vars

(* How long an answer may have waited for the one of the other family.     *)
Join(c, g) ==
  IF ~Prefers(c) THEN 0
  ELSE IF c.groups[g].mode = "fastest" THEN Timeout
  ELSE Timeout * Len(c.groups[g].servers)

(* A client is never told to keep the records of a cached answer beyond    *)
(* their clamped time to live, counted from when the server gave them,     *)
(* except for the time the answer waited to be merged (dns/cache.rs counts *)
(* from the insertion).  An answer without records is not handed out any   *)
(* longer than that either; but each client is told the server's own time  *)
(* for it, and counts it from then.                                        *)
KeptNoLonger ==
  [][\A q \in Reqs : Replied(q) /\ req'[q].reply.source = "cache" =>
       LET now == req'[q]
           c == Configs[now.rt]
           ans == now.reply.ans
           limit == Clamp(c, ans.ttl) + Join(c, now.reply.origin)
       IN  IF ans.ttl = NoRecords THEN ans.age < limit
           ELSE now.reply.ttl + ans.age <= limit]_vars
=============================================================================
