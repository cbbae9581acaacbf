--------------------------- MODULE ResolveProofs ---------------------------
(***************************************************************************)
(* Proofs about Resolve, for any number of requests, names, servers and    *)
(* configurations.                                                         *)
(*                                                                         *)
(* The properties speak of the step that replies, and rest on three        *)
(* invariants.                                                             *)
(*  - Inv: what every router's cache holds, whoever put it there and when, *)
(*    are answers of the group that the router's own rules choose, never   *)
(*    under a key of its static names (EntryOK); and what a request has    *)
(*    under way is as the rules say (RecOK).                               *)
(*  - WaitInv: a leg without an answer has asked, asks or will ask every   *)
(*    server of its group, and an answer waits no longer than the leg of   *)
(*    the other family still may take (PairOK); so the age of a cached     *)
(*    answer and the time it is kept add up (KeptOK).                      *)
(*  - TypeInv: a cache and its list of keys agree (ListOK).                *)
(***************************************************************************)
EXTENDS Resolve, SequenceTheorems, WellFoundedInduction, TLAPS

Typed ==
  /\ live \in Routers
  /\ cache \in [Routers -> [Keys -> Entries \cup {None}]]
  /\ counter = [r \in Routers |-> [g \in Groups(Configs[r]) |-> counter[r][g]]]
  /\ \A r \in Routers : \A g \in Groups(Configs[r]) : counter[r][g] \in Nat
  /\ req = [q \in Reqs |-> req[q]]

\* The servers that the rules of router r choose for the name n.
Chosen(r, n) == ToSet(Configs[r].groups[GroupFor(Configs[r], n)].servers)

AnswerOK(a, r, k) == a.key = k /\ a.by \subseteq Chosen(r, k.name)

EntryOK(r, k) ==
  LET e == cache[r][k]
  IN  e # None => /\ AnswerOK(e.ans, r, k)
                  /\ e.origin = GroupFor(Configs[r], k.name)
                  /\ e.blocked = Blocks(Configs[r], k.name)
                  /\ k \notin Configs[r].hosts

LegOK(l, r, n, k) ==
  /\ l.asked \subseteq Chosen(r, n)
  /\ ToSet(l.next) \subseteq Chosen(r, n)
  /\ l.ans # None => l.ans.key = k /\ l.ans.by \subseteq Chosen(r, n)

\* The record of a request.
RecShape(x) ==
  /\ x = [at |-> x.at, key |-> x.key, rt |-> x.rt, main |-> x.main, alt |-> x.alt,
          reply |-> x.reply]
  /\ x.at \in Phases /\ x.rt \in Routers /\ x.main \in Legs /\ x.alt \in Legs

\* What is under way in it, if the cache did not answer.
RecOK(x) ==
  /\ RecShape(x)
  /\ x.at \in {"names", "asking"} => x.key \in Keys /\ x.key \notin Configs[x.rt].hosts
  /\ x.at = "asking" => \A side \in Sides :
       LegOK(x[side], x.rt, x.key.name, AskedKey(x.key, side))

Inv ==
  /\ Typed
  /\ \A r \in Routers, k \in Keys : EntryOK(r, k)
  /\ \A q \in Reqs : RecOK(req[q])

-----------------------------------------------------------------------------
(* Operators.                                                              *)

(* A non-empty set of natural numbers has a least element, which Min        *)
(* chooses: the first rule that matches (dns/router.rs 235).               *)
LEMMA MinIsLeast ==
  ASSUME NEW S \in SUBSET Nat, S # {}
  PROVE  Min(S) \in S /\ \A x \in S : Min(S) <= x
<1>1. PICK x \in S : \A y \in S : ~(<<y, x>> \in OpToRel(<, Nat))
  BY NatLessThanWellFounded, WFMin
<1>2. \A y \in S : ~(y < x)
  BY <1>1, Zenon DEF OpToRel
<1>3. \A y \in S : x <= y
  BY <1>2
<1>. QED
  BY <1>3 DEF Min

(* Max and Min of two integers are one of them (the clamp of dns/cache.rs). *)
LEMMA OfTwo ==
  ASSUME NEW a \in Int, NEW b \in Int
  PROVE  Max({a, b}) \in {a, b} /\ Min({a, b}) \in {a, b}
<1>1. \E x \in {a, b} : \A y \in {a, b} : x >= y
  <2>1. CASE a >= b BY <2>1
  <2>2. CASE b >= a BY <2>2
  <2>. QED BY <2>1, <2>2
<1>2. \E x \in {a, b} : \A y \in {a, b} : x <= y
  <2>1. CASE a >= b BY <2>1
  <2>2. CASE b >= a BY <2>2
  <2>. QED BY <2>1, <2>2
<1>. QED BY <1>1, <1>2 DEF Max, Min

(* The group for a name exists and is the one the rules say.               *)
LEMMA GroupForRules ==
  ASSUME NEW r \in Routers, NEW n
  PROVE  /\ GroupFor(Configs[r], n) \in Groups(Configs[r])
         /\ Rules(Configs[r], n, GroupFor(Configs[r], n))
<1>1. PICK c : c = Configs[r]
  OBVIOUS
<1>2. /\ c.rules \in Seq([match : SUBSET Names, group : Groups(c)])
      /\ "default" \in Groups(c)
  BY <1>1, ConfigAssumption
<1>3. CASE Matching(c, n) = {}
  <2>1. GroupFor(c, n) = "default"
    BY <1>3 DEF GroupFor
  <2>2. \A i \in DOMAIN c.rules : n \notin c.rules[i].match
    BY <1>3 DEF Matching
  <2>. QED BY <1>1, <1>2, <2>1, <2>2 DEF Rules
<1>4. CASE Matching(c, n) # {}
  <2>1. PICK i : i = Min(Matching(c, n))
    OBVIOUS
  <2>2. Matching(c, n) \subseteq DOMAIN c.rules /\ DOMAIN c.rules = 1..Len(c.rules)
    BY <1>2 DEF Matching
  <2>3. i \in Matching(c, n) /\ \A x \in Matching(c, n) : i <= x
    BY <1>4, <2>1, <2>2, MinIsLeast
  <2>4. i \in DOMAIN c.rules /\ n \in c.rules[i].match
    BY <2>3 DEF Matching
  <2>5. c.rules[i].group \in Groups(c)
    <3>1. PICK R : R = [match : SUBSET Names, group : Groups(c)]
      OBVIOUS
    <3>2. c.rules \in Seq(R)
      BY <1>2, <3>1, Zenon
    <3>3. c.rules[i] \in R
      BY <2>4, <3>2
    <3>. QED BY <3>1, <3>3
  <2>6. \A j \in 1..(i - 1) : n \notin c.rules[j].match
    BY <2>2, <2>3, <2>4 DEF Matching
  <2>7. GroupFor(c, n) = c.rules[i].group
    BY <1>4, <2>1 DEF GroupFor
  <2>. QED BY <1>1, <2>4, <2>5, <2>6, <2>7 DEF Rules
<1>. QED BY <1>3, <1>4

(* The servers of a chosen group are servers.                              *)
LEMMA ChosenAreServers ==
  ASSUME NEW r \in Routers, NEW n
  PROVE  /\ Configs[r].groups[GroupFor(Configs[r], n)].servers \in Seq(Servers)
         /\ Chosen(r, n) \subseteq Servers
<1>1. PICK g : g = GroupFor(Configs[r], n)
  OBVIOUS
<1>2. g \in Groups(Configs[r])
  BY <1>1, GroupForRules
<1>3. Configs[r].groups[g].servers \in Seq(Servers)
  BY <1>2, ConfigAssumption
<1>. QED BY <1>1, <1>3 DEF Chosen, ToSet

(* An empty leg asks nobody. *)
LEMMA NoLegOK ==
  ASSUME NEW r, NEW n, NEW k
  PROVE  NoLeg \in Legs /\ LegOK(NoLeg, r, n, k)
BY DEF NoLeg, Answered, Legs, LegOK, ToSet

(* Turning the list of servers keeps it a list of the same servers.        *)
LEMMA RotatedServers ==
  ASSUME NEW s \in Seq(Servers), s # <<>>, NEW start \in Nat
  PROVE  LET turn == Rotated(s, start)
         IN  /\ turn \in Seq(Servers) /\ turn # <<>>
             /\ Head(turn) \in ToSet(s)
             /\ Tail(turn) \in Seq(Servers) /\ ToSet(Tail(turn)) \subseteq ToSet(s)
<1>1. PICK t : t = Rotated(s, start)
  OBVIOUS
<1>2. Len(s) \in Nat \ {0} /\ DOMAIN s = 1..Len(s)
  OBVIOUS
<1>3. \A i \in DOMAIN s : ((start + i - 1) % Len(s)) + 1 \in DOMAIN s
  BY <1>2
<1>4. \A i \in DOMAIN s : t[i] \in ToSet(s) /\ t[i] \in Servers
  BY <1>1, <1>3 DEF Rotated, ToSet
<1>5. t = [i \in 1..Len(s) |-> t[i]]
  BY <1>1, <1>2 DEF Rotated
<1>6. t \in Seq(Servers) /\ Len(t) = Len(s)
  <2>1. t \in [1..Len(s) -> Servers]
    BY <1>2, <1>4, <1>5
  <2>. QED BY <1>2, <2>1
<1>7. t # <<>> /\ Head(t) \in ToSet(s)
  BY <1>2, <1>4, <1>6
<1>8. Tail(t) \in Seq(Servers) /\ Len(Tail(t)) = Len(s) - 1
      /\ \A i \in 1..(Len(s) - 1) : Tail(t)[i] = t[i + 1]
  BY <1>2, <1>6, <1>7
<1>9. ToSet(Tail(t)) \subseteq ToSet(s)
  BY <1>2, <1>4, <1>8 DEF ToSet
<1>. QED BY <1>1, <1>6, <1>7, <1>8, <1>9

(* A new leg asks servers of the chosen group (dns/upstream/mod.rs 287-327). *)
LEMMA NewLegOK ==
  ASSUME NEW r \in Routers, NEW n, NEW k, NEW at \in Nat
  PROVE  LET l == NewLeg(Configs[r].groups[GroupFor(Configs[r], n)], at)
         IN  l \in Legs /\ LegOK(l, r, n, k)
<1>1. PICK grp : grp = Configs[r].groups[GroupFor(Configs[r], n)]
  OBVIOUS
<1>2. /\ grp.servers \in Seq(Servers)
      /\ Chosen(r, n) = ToSet(grp.servers)
      /\ Chosen(r, n) \subseteq Servers
  BY <1>1, ChosenAreServers DEF Chosen
<1>3. PICK l : l = NewLeg(grp, at)
  OBVIOUS
<1>4. Timeout \in Nat
  BY TimeoutAssumption
<1>5. CASE grp.mode = "fastest" \/ grp.servers = <<>>
  <2>1. l = [asked |-> ToSet(grp.servers), next |-> <<>>, failed |-> {},
             wait |-> Timeout, ans |-> None]
    BY <1>3, <1>5 DEF NewLeg, NoLeg, Answered
  <2>2. ToSet(<<>>) = {}
    BY DEF ToSet
  <2>. QED BY <1>1, <1>2, <1>3, <1>4, <2>1, <2>2 DEF Legs, LegOK
<1>6. CASE ~(grp.mode = "fastest" \/ grp.servers = <<>>)
  <2>1. PICK turn : turn = Rotated(grp.servers, at)
    OBVIOUS
  <2>2. l = [asked |-> {Head(turn)}, next |-> Tail(turn), failed |-> {},
             wait |-> Timeout, ans |-> None]
    BY <1>3, <1>6, <2>1 DEF NewLeg, NoLeg, Answered
  <2>3. /\ Head(turn) \in ToSet(grp.servers)
        /\ Tail(turn) \in Seq(Servers) /\ ToSet(Tail(turn)) \subseteq ToSet(grp.servers)
    BY <1>2, <1>6, <2>1, RotatedServers
  <2>. QED BY <1>1, <1>2, <1>3, <1>4, <2>2, <2>3 DEF Legs, LegOK
<1>. QED BY <1>5, <1>6

(* The counter stays a natural number. *)
LEMMA AdvancedNat ==
  ASSUME NEW r \in Routers, NEW g \in Groups(Configs[r]), NEW at \in Nat, NEW n \in Nat
  PROVE  Advanced(Configs[r].groups[g], at, n) \in Nat
<1>1. Configs[r].groups[g].servers \in Seq(Servers)
  BY ConfigAssumption
<1>2. CASE Configs[r].groups[g].servers = <<>>
  BY <1>2 DEF Advanced
<1>3. CASE Configs[r].groups[g].servers # <<>>
  <2>1. PICK m : m = Len(Configs[r].groups[g].servers)
    OBVIOUS
  <2>2. m \in Nat \ {0}
    BY <1>1, <1>3, <2>1, SMTT(30)
  <2>3. (at + n) % m \in Nat
    BY <2>2
  <2>. QED BY <2>1, <2>3 DEF Advanced
<1>. QED BY <1>2, <1>3

(* A leg goes on within its group when a server fails. *)
LEMMA FailedOK ==
  ASSUME NEW l \in Legs, NEW s \in Servers, NEW r \in Routers, NEW n, NEW k, LegOK(l, r, n, k)
  PROVE  Failed(l, s) \in Legs /\ LegOK(Failed(l, s), r, n, k)
<1>. Timeout \in Nat /\ Chosen(r, n) \subseteq Servers
  BY TimeoutAssumption, ChosenAreServers
<1>1. CASE l.asked = {s} /\ l.next # <<>>
  <2>1. Failed(l, s) = [asked |-> {Head(l.next)}, next |-> Tail(l.next),
                        failed |-> l.failed \cup {s}, wait |-> Timeout, ans |-> l.ans]
    BY <1>1 DEF Failed, Legs
  <2>2. l.next \in Seq(Servers) /\ s \in Servers /\ DOMAIN l.next = 1..Len(l.next)
    BY <1>1 DEF Legs
  <2>3. Head(l.next) \in ToSet(l.next) /\ Head(l.next) \in Servers
        /\ Tail(l.next) \in Seq(Servers) /\ ToSet(Tail(l.next)) \subseteq ToSet(l.next)
    BY <1>1, <2>2 DEF ToSet
  <2>. QED BY <2>1, <2>2, <2>3 DEF Legs, LegOK
<1>2. CASE ~(l.asked = {s} /\ l.next # <<>>) /\ s \in Servers
  BY <1>2 DEF Failed, Legs, LegOK
<1>. QED BY <1>1, <1>2

(* A merged answer is one to the question, of the servers of both legs     *)
(* (merge_responses, dns/router.rs 370).                                   *)
LEMMA MergedAnswer ==
  ASSUME NEW a \in Answers, NEW b \in Answers \cup {None}
  PROVE  /\ Merged(a, b) \in Answers
         /\ Merged(a, b).key = a.key
         /\ Merged(a, b).by \subseteq a.by \cup (IF b = None THEN {} ELSE b.by)
<1>1. CASE b = None
  BY <1>1 DEF Merged
<1>2. CASE b # None
  <2>0. b \in Answers
    BY <1>2
  <2>1. PICK age : age = Max({a.age, b.age})
    OBVIOUS
  <2>2. PICK both : both = {a.ttl, b.ttl} \ {NoRecords}
    OBVIOUS
  <2>3. PICK ttl : ttl = IF both = {} THEN NoRecords ELSE Min(both)
    OBVIOUS
  <2>4. age \in Nat
    BY <2>0, <2>1, OfTwo DEF Answers
  <2>5. ttl \in Ttls \cup {NoRecords}
    <3>1. a.ttl \in Ttls \cup {NoRecords} /\ b.ttl \in Ttls \cup {NoRecords} /\ Ttls \subseteq Nat
      BY <2>0, TtlsAssumption DEF Answers
    <3>2. CASE both = {}
      BY <2>3, <3>2
    <3>3. CASE both # {}
      <4>1. \E x, y \in Ttls : both = {x, y}
        BY <2>2, <3>1, <3>3, ZenonT(30)
      <4>2. Min(both) \in both
        BY <3>1, <4>1, OfTwo
      <4>. QED BY <2>2, <2>3, <3>1, <3>3, <4>2
    <3>. QED BY <3>2, <3>3
  <2>6. Merged(a, b) = [by |-> a.by \cup b.by, key |-> a.key, ttl |-> ttl, age |-> age]
    BY <1>2, <2>0, <2>1, <2>2, <2>3 DEF Merged, Answers
  <2>. QED BY <1>2, <2>0, <2>4, <2>5, <2>6 DEF Answers
<1>. QED BY <1>1, <1>2

(* The time to live of an entry is a natural number. *)
LEMMA ClampNat ==
  ASSUME NEW r \in Routers, NEW ttl \in Ttls \cup {NoRecords}
  PROVE  Clamp(Configs[r], ttl) \in Nat
<1>1. PICK low, high : low = Configs[r].min /\ high = Configs[r].max
  OBVIOUS
<1>2. low \in Nat /\ high \in Nat
  BY <1>1, ConfigAssumption
<1>3. PICK least : least = IF ttl = NoRecords THEN low ELSE ttl
  OBVIOUS
<1>4. least \in Nat
  BY <1>2, <1>3, TtlsAssumption
<1>5. PICK raised : raised = Max({least, low})
  OBVIOUS
<1>6. raised \in Nat
  BY <1>2, <1>4, <1>5, OfTwo
<1>7. Min({raised, high}) \in Nat
  BY <1>2, <1>6, OfTwo
<1>. QED BY <1>1, <1>3, <1>5, <1>7 DEF Clamp

(* Time leaves answers, legs and entries what they are. *)
LEMMA OlderAnswer ==
  ASSUME NEW a \in Answers \cup {None}
  PROVE  /\ Older(a) \in Answers \cup {None}
         /\ a = None <=> Older(a) = None
         /\ a # None => Older(a).key = a.key /\ Older(a).by = a.by
BY NoneAssumption DEF Older, Answers

(* A tick leaves a leg its servers and its answer, and the time that is    *)
(* left is not below zero: a leg that is due lets no tick pass.            *)
LEMMA ElapsedLeg ==
  ASSUME NEW l \in Legs, Waiting(l) => l.wait > 0
  PROVE  /\ Elapse(l) \in Legs
         /\ \A r, n, k : LegOK(l, r, n, k) => LegOK(Elapse(l), r, n, k)
<1>1. PICK wait : wait = IF Waiting(l) THEN l.wait - 1 ELSE 0
  OBVIOUS
<1>2. Elapse(l) = [asked |-> l.asked, next |-> l.next, failed |-> l.failed,
                   wait |-> wait, ans |-> Older(l.ans)]
  <2>1. Elapse(l) = [l EXCEPT !.wait = wait, !.ans = Older(l.ans)]
    BY <1>1, Zenon DEF Elapse
  <2>. QED BY <2>1 DEF Legs
<1>3. l.ans \in Answers \cup {None} /\ l.wait \in Nat
  BY DEF Legs
<1>4. wait \in Nat
  BY <1>1, <1>3
<1>5. /\ Older(l.ans) \in Answers \cup {None}
      /\ l.ans = None <=> Older(l.ans) = None
      /\ l.ans # None => Older(l.ans).key = l.ans.key /\ Older(l.ans).by = l.ans.by
  BY <1>3, OlderAnswer
<1>6. Elapse(l) \in Legs
  BY <1>2, <1>4, <1>5 DEF Legs
<1>. QED BY <1>2, <1>5, <1>6 DEF LegOK

(* A tick leaves a cache entry what it answers and how it was found.       *)
LEMMA AgedEntry ==
  ASSUME NEW e \in Entries \cup {None}
  PROVE  /\ Aged(e) \in Entries \cup {None}
         /\ e = None <=> Aged(e) = None
         /\ e # None => /\ Aged(e).ans.key = e.ans.key /\ Aged(e).ans.by = e.ans.by
                        /\ Aged(e).origin = e.origin /\ Aged(e).blocked = e.blocked
<1>1. CASE ~Fresh(e)
  BY <1>1 DEF Aged
<1>2. CASE Fresh(e)
  <2>1. e \in Entries /\ e # None /\ e.left \in Nat /\ e.left > 0 /\ e.ans \in Answers
    BY <1>2 DEF Fresh, Entries
  <2>2. Aged(e) = [ans |-> Older(e.ans), left |-> e.left - 1,
                   origin |-> e.origin, blocked |-> e.blocked]
    BY <1>2, <2>1 DEF Aged, Entries
  <2>3. e.ans # None
    BY <2>1, NoneAssumption
  <2>4. /\ Older(e.ans) \in Answers
        /\ Older(e.ans).key = e.ans.key /\ Older(e.ans).by = e.ans.by
    BY <2>1, <2>3, OlderAnswer
  <2>5. Aged(e) \in Entries
    BY <2>1, <2>2, <2>4 DEF Entries
  <2>. QED BY <2>1, <2>2, <2>4, <2>5, NoneAssumption
<1>. QED BY <1>1, <1>2

-----------------------------------------------------------------------------
(* Steps.                                                                  *)

(* A record that a step gives to one request keeps the facts about all.    *)
LEMMA OneRequest ==
  ASSUME req = [p \in Reqs |-> req[p]], \A p \in Reqs : RecOK(req[p]),
         NEW q \in Reqs, NEW x, RecOK(x), req' = [req EXCEPT ![q] = x]
  PROVE  /\ req' = [p \in Reqs |-> req'[p]] /\ \A p \in Reqs : RecOK(req'[p])
         /\ req'[q] = x /\ \A p \in Reqs \ {q} : req'[p] = req[p]
OBVIOUS

(* A request that is done keeps what it was asked, and by which router. *)
LEMMA DoneRecord ==
  ASSUME NEW x, NEW source, NEW origin, NEW blocked, NEW ttl, NEW ans,
         RecShape(x)
  PROVE  LET d == Done(x, source, origin, blocked, ttl, ans)
         IN  /\ RecOK(d) /\ d.at = "done" /\ d.key = x.key /\ d.rt = x.rt
             /\ d.main = x.main
             /\ d.reply.source = source /\ d.reply.origin = origin
             /\ d.reply.blocked = blocked /\ d.reply.ttl = ttl /\ d.reply.ans = ans
<1>1. PICK reply : reply = [source |-> source, origin |-> origin, blocked |-> blocked,
                            ttl |-> ttl, ans |-> ans]
  OBVIOUS
<1>2. PICK d : d = [x EXCEPT !.at = "done", !.reply = reply]
  OBVIOUS
<1>3. d = [at |-> "done", key |-> x.key, rt |-> x.rt, main |-> x.main, alt |-> x.alt,
           reply |-> reply]
  BY <1>2 DEF RecShape
<1>4. RecOK(d)
  BY <1>3 DEF RecOK, RecShape, Phases
<1>. QED BY <1>1, <1>2, <1>3, <1>4 DEF Done

(* So does one that needs no group: hosts, strategy or error.              *)
LEMMA LocalRecord ==
  ASSUME NEW x, NEW source, RecShape(x)
  PROVE  LET d == Local(x, source)
         IN  /\ RecOK(d) /\ d.at = "done" /\ d.key = x.key /\ d.rt = x.rt
             /\ d.main = x.main /\ d.reply.source = source
<1>1. PICK no : no = FALSE
  OBVIOUS
<1>2. PICK d : d = Done(x, source, source, no, 0, None)
  OBVIOUS
<1>3. /\ RecOK(d) /\ d.at = "done" /\ d.key = x.key /\ d.rt = x.rt
      /\ d.main = x.main /\ d.reply.source = source
  BY <1>2, DoneRecord
<1>. QED BY <1>1, <1>2, <1>3, Zenon DEF Local

(* Getting from the cache changes no entry but by removing it. *)
LEMMA GetKeeps ==
  ASSUME Inv, NEW r \in Routers, NEW k \in Keys, Get(r, k)
  PROVE  /\ cache' \in [Routers -> [Keys -> Entries \cup {None}]]
         /\ \A s \in Routers, j \in Keys : EntryOK(s, j)'
<1>1. \A s \in Routers, j \in Keys : cache'[s][j] \in {cache[s][j], None}
  BY DEF Get, Inv, Typed
<1>2. cache' \in [Routers -> [Keys -> Entries \cup {None}]]
  BY DEF Get, Inv, Typed
<1>3. ASSUME NEW s \in Routers, NEW j \in Keys
      PROVE  EntryOK(s, j)'
  BY <1>1 DEF Inv, EntryOK, AnswerOK, Chosen
<1>. QED BY <1>2, <1>3

(* So does putting an answer of the chosen group in. *)
LEMMA PutKeeps ==
  ASSUME Inv, NEW r \in Routers, NEW k \in Keys, k \notin Configs[r].hosts,
         NEW ans \in Answers, AnswerOK(ans, r, k),
         Put(r, k, ans, GroupFor(Configs[r], k.name), Blocks(Configs[r], k.name))
  PROVE  /\ cache' \in [Routers -> [Keys -> Entries \cup {None}]]
         /\ \A s \in Routers, j \in Keys : EntryOK(s, j)'
<1>1. PICK left : left = Clamp(Configs[r], ans.ttl)
  OBVIOUS
<1>2. left \in Nat
  BY <1>1, ClampNat DEF Answers
<1>3. PICK e : e = [ans |-> ans, left |-> left, origin |-> GroupFor(Configs[r], k.name),
                    blocked |-> Blocks(Configs[r], k.name)]
  OBVIOUS
<1>4. GroupFor(Configs[r], k.name) \in GroupNames
  BY GroupForRules DEF GroupNames
<1>5. Blocks(Configs[r], k.name) \in BOOLEAN
  BY DEF Blocks
<1>6. e \in Entries
  BY <1>2, <1>3, <1>4, <1>5 DEF Entries
<1>7. \/ UNCHANGED cache
      \/ Insert(r, k, e)
  BY <1>1, <1>3 DEF Put
<1>8. CASE UNCHANGED cache
  BY <1>8 DEF Inv, Typed, EntryOK
<1>9. CASE Insert(r, k, e)
  <2>. DEFINE others == Without(recent[r], k)
              out == Len(others) >= Configs[r].size
              row == [x \in Keys |-> IF x = k THEN e
                        ELSE IF out /\ x = Last(others) THEN None ELSE cache[r][x]]
  <2>0. cache' = [cache EXCEPT ![r] = row]
    BY <1>9 DEF Insert
  <2>1. /\ cache' = [cache EXCEPT ![r] = row]
        /\ row \in [Keys -> Entries \cup {None}]
        /\ row[k] = e
        /\ \A j \in Keys \ {k} : row[j] \in {cache[r][j], None}
    <3>. HIDE DEF others, out
    <3>. QED BY <1>6, <2>0 DEF Inv, Typed
  <2>. HIDE DEF row
  <2>2. cache' \in [Routers -> [Keys -> Entries \cup {None}]]
    BY <2>1 DEF Inv, Typed
  <2>3. ASSUME NEW s \in Routers, NEW j \in Keys
        PROVE  EntryOK(s, j)'
    <3>1. CASE s = r /\ j = k
      BY <1>3, <2>1, <3>1 DEF EntryOK, Inv, Typed, AnswerOK, Chosen
    <3>2. CASE ~(s = r /\ j = k)
      BY <2>1, <3>2 DEF EntryOK, Inv, Typed, AnswerOK, Chosen
    <3>. QED BY <3>1, <3>2
  <2>. QED BY <2>2, <2>3
<1>. QED BY <1>7, <1>8, <1>9

(* Accepting a request. *)
LEMMA AcceptKeeps ==
  ASSUME Inv, NEW q \in Reqs, NEW k \in Keys, NEW r \in Routers, Accept(q, k, r)
  PROVE  Inv'
<1>. DEFINE rec == Request("names", k, r)
<1>1. /\ live \in Routers /\ live' = live /\ counter' = counter
      /\ req = [p \in Reqs |-> req[p]]
  BY DEF Inv, Typed, Accept
<1>2. RecShape(rec) /\ rec.key = k /\ rec.rt = r /\ rec.at = "names"
  <2>1. rec = [at |-> "names", key |-> k, rt |-> r, main |-> NoLeg, alt |-> NoLeg,
               reply |-> None]
    BY DEF Request
  <2>2. NoLeg \in Legs
    BY NoLegOK
  <2>. QED BY <1>1, <2>1, <2>2 DEF RecShape, Phases
<1>. HIDE DEF rec
<1>3. RecOK(Local(rec, "hosts"))
  BY <1>2, LocalRecord
<1>4. RecOK(Local(rec, "strategy"))
  BY <1>2, LocalRecord
<1>5. k \notin Configs[r].hosts => RecOK(rec)
  BY <1>2 DEF RecOK
<1>6. \A e : RecOK(Done(rec, "cache", e.origin, e.blocked, Told(e), e.ans))
  BY <1>2, DoneRecord
<1>7. PICK x : RecOK(x) /\ req' = [req EXCEPT ![q] = x]
  <2>1. CASE req' = [req EXCEPT ![q] = Local(rec, "strategy")]
    BY <1>4, <2>1
  <2>2. CASE Fresh(cache[r][k]) /\ LET e == cache[r][k] IN
               req' = [req EXCEPT ![q] = Done(rec, "cache", e.origin, e.blocked, Told(e), e.ans)]
    BY <1>6, <2>2
  <2>3. CASE req' = [req EXCEPT ![q] = IF k \in Configs[r].hosts
                                       THEN Local(rec, "hosts") ELSE rec]
    BY <1>2, <1>3, <1>5, <2>3
  <2>. QED BY <2>1, <2>2, <2>3 DEF Accept, rec
<1>8. req' = [p \in Reqs |-> req'[p]] /\ \A p \in Reqs : RecOK(req'[p])
  BY <1>1, <1>7, OneRequest DEF Inv
<1>9. /\ cache' \in [Routers -> [Keys -> Entries \cup {None}]]
       /\ \A s \in Routers, j \in Keys : EntryOK(s, j)'
  <2>1. CASE UNCHANGED <<cache, recent>>
    BY <2>1 DEF Inv, Typed, EntryOK
  <2>2. CASE Get(r, k)
    BY <1>1, <2>2, GetKeeps
  <2>. QED BY <2>1, <2>2 DEF Accept
<1>. QED BY <1>1, <1>8, <1>9 DEF Inv, Typed, RecOK, RecShape

(* Looking a name up and asking the group. *)
LEMMA LookUpKeeps ==
  ASSUME Inv, NEW q \in Reqs, LookUp(q)
  PROVE  Inv'
<1>. DEFINE r == req[q].rt
            k == req[q].key
            g == GroupFor(Configs[r], k.name)
            grp == Configs[r].groups[g]
            to(i) == Advanced(grp, counter[r][g], i)
<1>1. /\ live' = live /\ cache' = cache
      /\ req = [p \in Reqs |-> req[p]] /\ RecOK(req[q])
      /\ req[q].at = "names"
  BY DEF Inv, Typed, LookUp
<1>2. r \in Routers /\ k \in Keys /\ k \notin Configs[r].hosts
  BY <1>1 DEF RecShape, RecOK
<1>3. g \in Groups(Configs[r]) /\ counter[r][g] \in Nat
  BY <1>2, GroupForRules DEF Inv, Typed
<1>4. \A i \in {0, 1, 2} : to(i) \in Nat
  BY <1>2, <1>3, AdvancedNat
<1>5. CASE req' = [req EXCEPT ![q] = Local(@, "dynamic-hosts")] /\ counter' = counter
  <2>1. RecOK(Local(req[q], "dynamic-hosts"))
    BY <1>1, LocalRecord DEF RecOK
  <2>2. req' = [p \in Reqs |-> req'[p]] /\ \A p \in Reqs : RecOK(req'[p])
    BY <1>1, <1>5, <2>1, OneRequest DEF Inv
  <2>. QED BY <1>1, <1>5, <2>2 DEF Inv, Typed, EntryOK, RecOK, RecShape
<1>6. CASE /\ \E i, j \in {0, 1} : req' = [req EXCEPT ![q] = [@ EXCEPT
                !.at = "asking", !.main = NewLeg(grp, to(i)),
                !.alt = IF Prefers(Configs[r]) THEN NewLeg(grp, to(j)) ELSE NoLeg]]
           /\ \E i \in {1, 2} : counter' = [counter EXCEPT ![r][g] = to(i)]
  <2>1. PICK i \in {0, 1}, j \in {0, 1}, l \in {1, 2} :
          /\ req' = [req EXCEPT ![q] = [@ EXCEPT
                !.at = "asking", !.main = NewLeg(grp, to(i)),
                !.alt = IF Prefers(Configs[r]) THEN NewLeg(grp, to(j)) ELSE NoLeg]]
          /\ counter' = [counter EXCEPT ![r][g] = to(l)]
    BY <1>6
  <2>2. PICK main : main = NewLeg(grp, to(i))
    OBVIOUS
  <2>3. PICK alt : alt = IF Prefers(Configs[r]) THEN NewLeg(grp, to(j)) ELSE NoLeg
    OBVIOUS
  <2>4. \A y : main \in Legs /\ LegOK(main, r, k.name, y)
    BY <1>2, <1>4, <2>2, NewLegOK
  <2>5. \A y : alt \in Legs /\ LegOK(alt, r, k.name, y)
    BY <1>2, <1>4, <2>3, NewLegOK, NoLegOK
  <2>6. PICK x : x = [req[q] EXCEPT !.at = "asking", !.main = main, !.alt = alt]
    OBVIOUS
  <2>7. x = [at |-> "asking", key |-> k, rt |-> r, main |-> main, alt |-> alt,
             reply |-> req[q].reply]
    BY <1>1, <2>6 DEF RecOK, RecShape
  <2>8. RecShape(x)
    BY <1>1, <1>2, <2>4, <2>5, <2>7 DEF RecShape, Phases
  <2>9. RecOK(x)
    BY <1>2, <2>4, <2>5, <2>7, <2>8 DEF RecOK, Sides
  <2>10. req' = [req EXCEPT ![q] = x]
    BY <1>1, <2>1, <2>2, <2>3, <2>6
  <2>11. req' = [p \in Reqs |-> req'[p]] /\ \A p \in Reqs : RecOK(req'[p])
    BY <1>1, <2>8, <2>9, <2>10, OneRequest DEF Inv
  <2>12. PICK n \in Nat : counter' = [counter EXCEPT ![r][g] = n]
    BY <1>4, <2>1
  <2>13. /\ counter' = [s \in Routers |-> [h \in Groups(Configs[s]) |-> counter'[s][h]]]
         /\ \A s \in Routers : \A h \in Groups(Configs[s]) : counter'[s][h] \in Nat
    <3>. HIDE DEF r, g
    <3>1. counter = [s \in Routers |-> [h \in Groups(Configs[s]) |-> counter[s][h]]]
          /\ \A s \in Routers : \A h \in Groups(Configs[s]) : counter[s][h] \in Nat
      BY DEF Inv, Typed
    <3>2. counter' = [s \in Routers |-> [h \in Groups(Configs[s]) |->
                        IF s = r /\ h = g THEN n ELSE counter[s][h]]]
      BY <1>2, <1>3, <2>12, <3>1
    <3>. QED BY <3>1, <3>2
  <2>. QED BY <1>1, <2>11, <2>13 DEF Inv, Typed, EntryOK, RecOK, RecShape
<1>. QED BY <1>5, <1>6 DEF LookUp, Conf

(* The record of a request in which one leg was replaced. *)
LEMMA OneLeg ==
  ASSUME Inv, NEW q \in Reqs, req[q].at = "asking", NEW side \in Sides, NEW l \in Legs,
         LegOK(l, req[q].rt, req[q].key.name, AskedKey(req[q].key, side)),
         req' = [req EXCEPT ![q][side] = l],
         UNCHANGED <<live, names, cache, recent, counter>>
  PROVE  Inv'
<1>1. req = [p \in Reqs |-> req[p]] /\ RecOK(req[q])
  BY DEF Inv, Typed
<1>2. PICK x : x = [req[q] EXCEPT ![side] = l]
  OBVIOUS
<1>3. \/ /\ side = "main"
         /\ x = [at |-> req[q].at, key |-> req[q].key, rt |-> req[q].rt,
                 main |-> l, alt |-> req[q].alt, reply |-> req[q].reply]
      \/ /\ side = "alt"
         /\ x = [at |-> req[q].at, key |-> req[q].key, rt |-> req[q].rt,
                 main |-> req[q].main, alt |-> l, reply |-> req[q].reply]
  BY <1>1, <1>2 DEF RecOK, RecShape, Sides
<1>4. RecShape(x)
  BY <1>1, <1>3 DEF RecOK, RecShape
<1>5. x.at = "asking" /\ x.key = req[q].key /\ x.rt = req[q].rt
  BY <1>3
<1>6. \A s \in Sides : LegOK(x[s], x.rt, x.key.name, AskedKey(x.key, s))
  BY <1>1, <1>3, <1>5 DEF RecOK, Sides
<1>7. RecOK(x)
  BY <1>1, <1>4, <1>5, <1>6 DEF RecOK
<1>8. req' = [req EXCEPT ![q] = x]
  BY <1>1, <1>2
<1>9. req' = [p \in Reqs |-> req'[p]] /\ \A p \in Reqs : RecOK(req'[p])
  BY <1>1, <1>7, <1>8, OneRequest DEF Inv
<1>10. \A r \in Routers, k \in Keys : EntryOK(r, k)'
  BY DEF Inv, EntryOK
<1>11. Typed'
  BY <1>9 DEF Inv, Typed
<1>. QED BY <1>9, <1>10, <1>11 DEF Inv, RecOK, RecShape

(* The answer of a server that was asked (dns/upstream/mod.rs 294).         *)
LEMMA AnswerKeeps ==
  ASSUME Inv, NEW q \in Reqs, NEW side \in Sides, NEW s \in Servers,
         NEW ttl \in Ttls \cup {NoRecords}, Answer(q, side, s, ttl)
  PROVE  Inv'
<1>. DEFINE k == AskedKey(req[q].key, side)
            ans == [by |-> {s}, key |-> k, ttl |-> ttl, age |-> 0]
            l == Answered(ans)
<1>1. RecOK(req[q]) /\ req[q].at = "asking" /\ s \in req[q][side].asked
  BY DEF Inv, Answer
<1>2. req[q].key \in Keys /\ s \in Chosen(req[q].rt, req[q].key.name)
  BY <1>1 DEF RecOK, LegOK
<1>3. k \in Keys
  BY <1>2 DEF AskedKey, OtherType, Keys, Types
<1>4. ans \in Answers /\ ans.key = k /\ ans.by \subseteq Chosen(req[q].rt, req[q].key.name)
  BY <1>2, <1>3 DEF Answers
<1>. HIDE DEF ans, k
<1>5. l = [asked |-> {}, next |-> <<>>, failed |-> {}, wait |-> 0, ans |-> ans]
  BY DEF Answered
<1>6. l \in Legs /\ LegOK(l, req[q].rt, req[q].key.name, k)
  <2>1. ToSet(<<>>) = {}
    BY DEF ToSet
  <2>. HIDE DEF l
  <2>. QED BY <1>4, <1>5, <2>1 DEF Legs, LegOK
<1>. HIDE DEF l
<1>7. /\ req' = [req EXCEPT ![q][side] = l]
      /\ UNCHANGED <<live, names, cache, recent, counter>>
  BY DEF Answer, l, ans, k
<1>. QED BY <1>1, <1>6, <1>7, OneLeg DEF k

(* Going on to the next server of the group. *)
LEMMA FailKeeps ==
  ASSUME Inv, NEW q \in Reqs, NEW side \in Sides, NEW s \in Servers, Fail(q, side, s)
  PROVE  Inv'
<1>1. RecOK(req[q]) /\ req[q].at = "asking"
  BY DEF Inv, Fail
<1>2. /\ req[q].rt \in Routers /\ req[q][side] \in Legs
      /\ LegOK(req[q][side], req[q].rt, req[q].key.name, AskedKey(req[q].key, side))
  BY <1>1 DEF RecOK, RecShape, Sides
<1>3. PICK l : l = Failed(req[q][side], s)
  OBVIOUS
<1>4. l \in Legs /\ LegOK(l, req[q].rt, req[q].key.name, AskedKey(req[q].key, side))
  BY <1>2, <1>3, FailedOK
<1>5. /\ req' = [req EXCEPT ![q][side] = l]
      /\ UNCHANGED <<live, names, cache, recent, counter>>
  BY <1>3 DEF Fail
<1>. QED BY <1>1, <1>4, <1>5, OneLeg

(* What Finish caches and sends answers the request, by the chosen servers. *)
LEMMA FinishedAnswer ==
  ASSUME Inv, NEW q \in Reqs, req[q].at = "asking", req[q].main.ans # None
  PROVE  LET ans == Merged(req[q].main.ans, req[q].alt.ans)
         IN  /\ req[q].rt \in Routers /\ req[q].key \in Keys
             /\ req[q].key \notin Configs[req[q].rt].hosts
             /\ ans \in Answers /\ AnswerOK(ans, req[q].rt, req[q].key)
<1>1. /\ RecOK(req[q]) /\ req[q].rt \in Routers
      /\ req[q].key \in Keys /\ req[q].key \notin Configs[req[q].rt].hosts
      /\ req[q].main \in Legs /\ req[q].alt \in Legs
  BY DEF Inv, RecOK, RecShape
<1>2. req[q].main.ans \in Answers /\ req[q].alt.ans \in Answers \cup {None}
  BY <1>1 DEF Legs
<1>3. /\ req[q].main.ans.key = req[q].key
      /\ req[q].main.ans.by \subseteq Chosen(req[q].rt, req[q].key.name)
      /\ req[q].alt.ans # None =>
           req[q].alt.ans.by \subseteq Chosen(req[q].rt, req[q].key.name)
  BY <1>1 DEF RecOK, LegOK, AskedKey, Sides
<1>. QED BY <1>1, <1>2, <1>3, MergedAnswer DEF AnswerOK

(* Caching and sending the answer, or giving the request up. *)
LEMMA FinishKeeps ==
  ASSUME Inv, NEW q \in Reqs, Finish(q)
  PROVE  Inv'
<1>. DEFINE r == req[q].rt
            k == req[q].key
            g == GroupFor(Configs[r], k.name)
            ans == Merged(req[q].main.ans, req[q].alt.ans)
<1>1. /\ req = [p \in Reqs |-> req[p]] /\ RecOK(req[q]) /\ req[q].at = "asking"
      /\ UNCHANGED <<live, counter>>
  BY DEF Inv, Typed, Finish, Settled
<1>2. PICK x : RecOK(x) /\ req' = [req EXCEPT ![q] = x]
  <2>1. CASE req' = [req EXCEPT ![q] = Local(@, "error")]
    BY <1>1, <2>1, LocalRecord DEF RecOK
  <2>2. CASE \E source, origin, blocked, ttl, a :
               req' = [req EXCEPT ![q] = Done(@, source, origin, blocked, ttl, a)]
    BY <1>1, <2>2, DoneRecord DEF RecOK
  <2>. QED BY <2>1, <2>2 DEF Finish
<1>3. req' = [p \in Reqs |-> req'[p]] /\ \A p \in Reqs : RecOK(req'[p])
  BY <1>1, <1>2, OneRequest DEF Inv
<1>4. /\ cache' \in [Routers -> [Keys -> Entries \cup {None}]]
      /\ \A s \in Routers, j \in Keys : EntryOK(s, j)'
  <2>1. CASE UNCHANGED <<cache, recent>>
    BY <2>1 DEF Inv, Typed, EntryOK
  <2>2. CASE req[q].main.ans # None /\ Put(r, k, ans, g, Blocks(Configs[r], k.name))
    <3>1. /\ r \in Routers /\ k \in Keys /\ k \notin Configs[r].hosts
          /\ ans \in Answers /\ AnswerOK(ans, r, k)
      BY <1>1, <2>2, FinishedAnswer
    <3>. HIDE DEF r, k, ans
    <3>. QED BY <2>2, <3>1, PutKeeps DEF g
  <2>. QED BY <2>1, <2>2 DEF Finish, Conf
<1>. QED BY <1>1, <1>3, <1>4 DEF Inv, Typed, RecOK, RecShape

(* DHCP's names and the update of the listener touch no router.            *)
LEMMA SurroundingsKeep ==
  ASSUME Inv, (\E n \in Names, t \in Types \cup {None} : SetName(n, t)) \/ Rebind
  PROVE  Inv'
<1>1. UNCHANGED <<cache, counter, req>> /\ live' \in Routers
  BY DEF SetName, Rebind, Inv, Typed
<1>. QED BY <1>1 DEF Inv, Typed, EntryOK, RecOK, RecShape

(* Time passes only for entries and for legs that are not due.             *)
LEMMA TickKeeps ==
  ASSUME Inv, Tick
  PROVE  Inv'
<1>1. /\ UNCHANGED <<live, counter>>
      /\ cache' = [r \in Routers |-> [k \in Keys |-> Aged(cache[r][k])]]
  BY DEF Tick
<1>2. \A r \in Routers, k \in Keys : cache[r][k] \in Entries \cup {None}
  BY DEF Inv, Typed
<1>3. cache' \in [Routers -> [Keys -> Entries \cup {None}]]
  <2>1. \A r \in Routers, k \in Keys : Aged(cache[r][k]) \in Entries \cup {None}
    BY <1>2, AgedEntry
  <2>. QED BY <1>1, <2>1
<1>4. ASSUME NEW r \in Routers, NEW k \in Keys
      PROVE  EntryOK(r, k)'
  <2>1. PICK e : e = cache[r][k]
    OBVIOUS
  <2>2. cache'[r][k] = Aged(e)
    BY <1>1, <2>1
  <2>3. /\ e = None <=> Aged(e) = None
        /\ e # None => /\ Aged(e).ans.key = e.ans.key /\ Aged(e).ans.by = e.ans.by
                       /\ Aged(e).origin = e.origin /\ Aged(e).blocked = e.blocked
    BY <1>2, <2>1, AgedEntry
  <2>4. EntryOK(r, k)
    BY DEF Inv
  <2>. QED BY <2>1, <2>2, <2>3, <2>4, Zenon DEF EntryOK, AnswerOK, Chosen
<1>5. ASSUME NEW q \in Reqs
      PROVE  RecOK(req'[q])
  <2>1. RecOK(req[q]) /\ Quiet(q)
    BY DEF Inv, Tick
  <2>2. CASE req[q].at # "asking"
    <3>1. req'[q] = req[q]
      BY <2>2 DEF Tick
    <3>. QED BY <2>1, <3>1
  <2>3. CASE req[q].at = "asking"
    <3>1. PICK main, alt : main = Elapse(req[q].main) /\ alt = Elapse(req[q].alt)
      OBVIOUS
    <3>2. req'[q] = [req[q] EXCEPT !.main = main, !.alt = alt]
      BY <2>3, <3>1 DEF Tick
    <3>3. req'[q] = [at |-> "asking", key |-> req[q].key, rt |-> req[q].rt,
                     main |-> main, alt |-> alt, reply |-> req[q].reply]
      BY <2>1, <2>3, <3>2 DEF RecOK, RecShape
    <3>4. /\ req[q].main \in Legs /\ (Waiting(req[q].main) => req[q].main.wait > 0)
          /\ req[q].alt \in Legs /\ (Waiting(req[q].alt) => req[q].alt.wait > 0)
      BY <2>1, <2>3 DEF RecOK, RecShape, Quiet, Sides
    <3>5. /\ main \in Legs /\ alt \in Legs
          /\ \A r, n, k : LegOK(req[q].main, r, n, k) => LegOK(main, r, n, k)
          /\ \A r, n, k : LegOK(req[q].alt, r, n, k) => LegOK(alt, r, n, k)
      BY <3>1, <3>4, ElapsedLeg
    <3>. QED BY <2>1, <2>3, <3>3, <3>5 DEF RecOK, RecShape, Sides
  <2>. QED BY <2>2, <2>3
<1>6. req' = [q \in Reqs |-> req'[q]]
  BY DEF Tick
<1>7. counter' = [r \in Routers |-> [g \in Groups(Configs[r]) |-> counter'[r][g]]]
  BY <1>1 DEF Inv, Typed
<1>. QED BY <1>1, <1>3, <1>4, <1>5, <1>6, <1>7 DEF Inv, Typed, RecOK, RecShape

(* Every router begins with an empty cache, every task with nothing to do. *)
LEMMA InitHolds == Init => Inv
<1>. SUFFICES ASSUME Init PROVE Inv
  OBVIOUS
<1>1. Typed
  BY ConfigAssumption DEF Init, Typed
<1>2. \A r \in Routers, k \in Keys : EntryOK(r, k)
  BY DEF Init, EntryOK
<1>3. RecOK(Idle)
  <2>1. NoLeg \in Legs
    BY NoLegOK
  <2>. QED BY <2>1, ConfigAssumption DEF Idle, Request, RecOK, RecShape, Phases
<1>. QED BY <1>1, <1>2, <1>3 DEF Init, Inv

(* Every step, of any task, keeps the invariant.                           *)
LEMMA NextKeeps ==
  ASSUME Inv, [Next]_vars
  PROVE  Inv'
<1>1. ASSUME NEW q \in Reqs, NEW k \in Keys, NEW r \in Routers, Accept(q, k, r)
      PROVE  Inv'
  BY <1>1, AcceptKeeps
<1>2. ASSUME NEW q \in Reqs, LookUp(q)
      PROVE  Inv'
  BY <1>2, LookUpKeeps
<1>3. ASSUME NEW q \in Reqs, NEW side \in Sides, NEW s \in Servers,
             NEW ttl \in Ttls \cup {NoRecords}, Answer(q, side, s, ttl)
      PROVE  Inv'
  BY <1>3, AnswerKeeps
<1>4. ASSUME NEW q \in Reqs, NEW side \in Sides, NEW s \in Servers, Fail(q, side, s)
      PROVE  Inv'
  BY <1>4, FailKeeps
<1>5. ASSUME NEW q \in Reqs, Finish(q)
      PROVE  Inv'
  BY <1>5, FinishKeeps
<1>6. CASE (\E n \in Names, t \in Types \cup {None} : SetName(n, t)) \/ Rebind
  BY <1>6, SurroundingsKeep
<1>7. CASE Tick
  BY <1>7, TickKeeps
<1>8. CASE UNCHANGED vars
  BY <1>8 DEF vars, Inv, Typed, EntryOK, RecOK, RecShape
<1>. QED BY <1>1, <1>2, <1>3, <1>4, <1>5, <1>6, <1>7, <1>8 DEF Next

(* The invariant holds in every reachable state: what a router's cache has *)
(* and what its requests have under way obeys its own rules and names.     *)
THEOREM Invariance == Spec => []Inv
<1>. QED BY InitHolds, NextKeeps, PTL DEF Spec

-----------------------------------------------------------------------------
(* Replies.                                                                *)

(* A reply with the answer of a group: the one that the rules choose.      *)
GroupReply(x) ==
  /\ x.rt \in Routers
  /\ x.reply.origin = GroupFor(Configs[x.rt], x.key.name)
  /\ x.reply.blocked = Blocks(Configs[x.rt], x.key.name)
  /\ AnswerOK(x.reply.ans, x.rt, x.key)

SentOK(x) ==
  \/ x.reply.source \in {"hosts", "strategy"}
  \/ /\ x.key \notin Configs[x.rt].hosts
     /\ x.reply.source \in {"dynamic-hosts", "error"} \/ GroupReply(x)

(* What Accept replies: the strategy's, the table's or the cache's answer. *)
LEMMA AcceptReplies ==
  ASSUME Inv, NEW q \in Reqs, NEW k \in Keys, NEW r \in Routers, Accept(q, k, r), Replied(q)
  PROVE  SentOK(req'[q])
<1>. DEFINE rec == Request("names", k, r)
            e == cache[r][k]
<1>1. live \in Routers /\ req = [p \in Reqs |-> req[p]]
  BY DEF Inv, Typed
<1>2. RecShape(rec) /\ rec.key = k /\ rec.rt = r /\ rec.at = "names"
  <2>1. rec = [at |-> "names", key |-> k, rt |-> r, main |-> NoLeg, alt |-> NoLeg,
               reply |-> None]
    BY DEF Request
  <2>2. NoLeg \in Legs
    BY NoLegOK
  <2>. QED BY <1>1, <2>1, <2>2 DEF RecShape, Phases
<1>. HIDE DEF rec
<1>3. CASE req' = [req EXCEPT ![q] = Local(rec, "strategy")]
  <2>1. req'[q].reply.source = "strategy"
    BY <1>1, <1>2, <1>3, LocalRecord
  <2>. QED BY <2>1 DEF SentOK
<1>4. CASE /\ Fresh(e)
           /\ req' = [req EXCEPT ![q] = Done(rec, "cache", e.origin, e.blocked, Told(e), e.ans)]
  <2>1. PICK d : d = Done(rec, "cache", e.origin, e.blocked, Told(e), e.ans)
    OBVIOUS
  <2>2. /\ d.key = k /\ d.rt = r
        /\ d.reply.origin = e.origin /\ d.reply.blocked = e.blocked /\ d.reply.ans = e.ans
    BY <1>2, <2>1, DoneRecord
  <2>3. /\ AnswerOK(e.ans, r, k) /\ k \notin Configs[r].hosts
        /\ e.origin = GroupFor(Configs[r], k.name)
        /\ e.blocked = Blocks(Configs[r], k.name)
    BY <1>1, <1>4 DEF Inv, EntryOK, Fresh
  <2>4. req'[q] = d
    BY <1>1, <1>4, <2>1
  <2>. QED BY <1>1, <2>2, <2>3, <2>4, Zenon DEF SentOK, GroupReply
<1>5. CASE req' = [req EXCEPT ![q] = IF k \in Configs[r].hosts
                                     THEN Local(rec, "hosts") ELSE rec]
  <2>1. req'[q] = Local(rec, "hosts")
    BY <1>1, <1>2, <1>5 DEF Replied
  <2>2. req'[q].reply.source = "hosts"
    BY <1>2, <2>1, LocalRecord
  <2>. QED BY <2>2 DEF SentOK
<1>. QED BY <1>3, <1>4, <1>5 DEF Accept, rec

(* What Finish replies: the answer of the group, or an error.              *)
LEMMA FinishReplies ==
  ASSUME Inv, NEW q \in Reqs, Finish(q)
  PROVE  SentOK(req'[q])
<1>. DEFINE r == req[q].rt
            k == req[q].key
            g == GroupFor(Configs[r], k.name)
            ans == Merged(req[q].main.ans, req[q].alt.ans)
<1>1. /\ req = [p \in Reqs |-> req[p]] /\ RecOK(req[q]) /\ req[q].at = "asking"
      /\ RecShape(req[q]) /\ k \notin Configs[r].hosts
  BY DEF Inv, Typed, Finish, Settled, RecOK
<1>2. CASE req' = [req EXCEPT ![q] = Local(@, "error")]
  <2>1. PICK d : d = Local(req[q], "error")
    OBVIOUS
  <2>2. d.reply.source = "error" /\ d.key = k /\ d.rt = r
    BY <1>1, <2>1, LocalRecord
  <2>3. req'[q] = d
    BY <1>1, <1>2, <2>1
  <2>. QED BY <1>1, <2>2, <2>3 DEF SentOK
<1>3. CASE /\ req[q].main.ans # None
           /\ \E source : req' = [req EXCEPT ![q] =
                Done(@, source, g, Blocks(Configs[r], k.name), 0, ans)]
  <2>1. PICK source : req' = [req EXCEPT ![q] =
                        Done(@, source, g, Blocks(Configs[r], k.name), 0, ans)]
    BY <1>3
  <2>2. PICK d : d = Done(req[q], source, g, Blocks(Configs[r], k.name), 0, ans)
    OBVIOUS
  <2>3. /\ d.key = k /\ d.rt = r /\ d.reply.ans = ans
        /\ d.reply.origin = g /\ d.reply.blocked = Blocks(Configs[r], k.name)
    BY <1>1, <2>2, DoneRecord
  <2>4. r \in Routers /\ AnswerOK(ans, r, k)
    BY <1>1, <1>3, FinishedAnswer
  <2>5. req'[q] = d
    BY <1>1, <2>1, <2>2
  <2>. QED BY <1>1, <2>3, <2>4, <2>5, Zenon DEF SentOK, GroupReply
<1>. QED BY <1>2, <1>3 DEF Finish, Conf

(* A step of one task replies to no other's request.                       *)
LEMMA OthersWait ==
  ASSUME Inv, NEW p \in Reqs, NEW q \in Reqs, Replied(q),
         \/ \E k \in Keys, r \in Routers : Accept(p, k, r)
         \/ LookUp(p)
         \/ \E side \in Sides, s \in Servers :
              \/ \E ttl \in Ttls \cup {NoRecords} : Answer(p, side, s, ttl)
              \/ Fail(p, side, s)
         \/ Finish(p)
  PROVE  p = q
<1>1. \E x : req' = [req EXCEPT ![p] = x]
  BY DEF Accept, LookUp, Answer, Fail, Finish
<1>2. p # q => req'[q] = req[q]
  BY <1>1 DEF Inv, Typed
<1>. QED BY <1>2 DEF Replied

(* What replies to a request: the cache or a table, or the end of its legs. *)
LEMMA WhoReplies ==
  ASSUME Inv, [Next]_vars, NEW q \in Reqs, Replied(q)
  PROVE  \/ \E k \in Keys, r \in Routers : Accept(q, k, r)
         \/ LookUp(q) /\ req' = [req EXCEPT ![q] = Local(@, "dynamic-hosts")]
         \/ Finish(q)
<1>1. ASSUME NEW p \in Reqs, NEW k \in Keys, NEW r \in Routers, Accept(p, k, r)
      PROVE  Accept(q, k, r)
  BY <1>1, OthersWait
<1>2. ASSUME NEW p \in Reqs, LookUp(p)
      PROVE  LookUp(q) /\ req' = [req EXCEPT ![q] = Local(@, "dynamic-hosts")]
  <2>. DEFINE r == req[q].rt
              g == GroupFor(Configs[r], req[q].key.name)
              grp == Configs[r].groups[g]
              to(i) == Advanced(grp, counter[r][g], i)
  <2>1. p = q
    BY <1>2, OthersWait
  <2>2. req = [x \in Reqs |-> req[x]] /\ RecShape(req[q])
    BY DEF Inv, Typed, RecOK
  <2>3. CASE \E i, j \in {0, 1} : req' = [req EXCEPT ![q] = [@ EXCEPT
               !.at = "asking", !.main = NewLeg(grp, to(i)),
               !.alt = IF Prefers(Configs[r]) THEN NewLeg(grp, to(j)) ELSE NoLeg]]
    <3>1. PICK main, alt : req' = [req EXCEPT ![q] =
            [@ EXCEPT !.at = "asking", !.main = main, !.alt = alt]]
      <4>. HIDE DEF grp, to, r
      <4>. QED BY <2>3
    <3>2. req'[q] = [at |-> "asking", key |-> req[q].key, rt |-> req[q].rt,
                     main |-> main, alt |-> alt, reply |-> req[q].reply]
      BY <2>2, <3>1 DEF RecShape
    <3>. QED BY <3>2 DEF Replied
  <2>. QED BY <1>2, <2>1, <2>3 DEF LookUp, Conf
<1>3. ASSUME NEW p \in Reqs, NEW side \in Sides, NEW l,
             req[p].at = "asking", req' = [req EXCEPT ![p][side] = l], p = q
      PROVE  FALSE
  <2>1. req = [x \in Reqs |-> req[x]] /\ RecShape(req[q])
    BY DEF Inv, Typed, RecOK
  <2>2. req'[q] = [req[q] EXCEPT ![side] = l]
    BY <1>3, <2>1
  <2>3. req'[q].at = "asking"
    BY <1>3, <2>1, <2>2 DEF RecShape, Sides
  <2>. QED BY <2>3 DEF Replied
<1>4. ASSUME NEW p \in Reqs, NEW side \in Sides, NEW s \in Servers,
             NEW ttl \in Ttls \cup {NoRecords}, Answer(p, side, s, ttl)
      PROVE  FALSE
  BY <1>3, <1>4, OthersWait DEF Answer
<1>5. ASSUME NEW p \in Reqs, NEW side \in Sides, NEW s \in Servers, Fail(p, side, s)
      PROVE  FALSE
  BY <1>3, <1>5, OthersWait DEF Fail
<1>6. ASSUME NEW p \in Reqs, Finish(p)
      PROVE  Finish(q)
  BY <1>6, OthersWait
<1>7. ~UNCHANGED req
  BY DEF Replied
<1>8. ~Tick
  <2>1. SUFFICES ASSUME Tick PROVE FALSE
    OBVIOUS
  <2>2. CASE req[q].at # "asking"
    BY <2>1, <2>2 DEF Tick, Replied
  <2>3. CASE req[q].at = "asking"
    <3>1. PICK main, alt : main = Elapse(req[q].main) /\ alt = Elapse(req[q].alt)
      OBVIOUS
    <3>2. req'[q] = [req[q] EXCEPT !.main = main, !.alt = alt]
      BY <2>1, <2>3, <3>1 DEF Tick
    <3>3. req'[q].at = "asking"
      BY <2>3, <3>2 DEF Inv, RecOK, RecShape
    <3>. QED BY <3>3 DEF Replied
  <2>. QED BY <2>2, <2>3
<1>. QED BY <1>1, <1>2, <1>4, <1>5, <1>6, <1>7, <1>8 DEF Next, SetName, Rebind, vars

(* Whatever step replies to a request, the reply is as it should be.       *)
LEMMA StepReplies ==
  ASSUME Inv, [Next]_vars, NEW q \in Reqs, Replied(q)
  PROVE  SentOK(req'[q])
<1>1. ASSUME NEW k \in Keys, NEW r \in Routers, Accept(q, k, r)
      PROVE  SentOK(req'[q])
  BY <1>1, AcceptReplies
<1>2. CASE LookUp(q) /\ req' = [req EXCEPT ![q] = Local(@, "dynamic-hosts")]
  <2>1. /\ req = [x \in Reqs |-> req[x]] /\ RecShape(req[q])
        /\ req[q].key \notin Configs[req[q].rt].hosts
    BY <1>2 DEF Inv, Typed, RecOK, LookUp
  <2>2. PICK d : d = Local(req[q], "dynamic-hosts")
    OBVIOUS
  <2>3. d.reply.source = "dynamic-hosts" /\ d.key = req[q].key /\ d.rt = req[q].rt
    BY <2>1, <2>2, LocalRecord
  <2>4. req'[q] = d
    BY <1>2, <2>1, <2>2
  <2>. QED BY <2>1, <2>3, <2>4 DEF SentOK
<1>3. CASE Finish(q)
  BY <1>3, FinishReplies
<1>. QED BY <1>1, <1>2, <1>3, WhoReplies

(* A static name is answered from its router's own table, whatever is or   *)
(* was cached under it.                                                    *)
THEOREM StaticNamesAlwaysWin == Spec => StaticNamesWin
<1>1. ASSUME Inv, [Next]_vars, NEW q \in Reqs, Replied(q),
             req'[q].key \in Configs[req'[q].rt].hosts
      PROVE  req'[q].reply.source \in {"hosts", "strategy"}
  BY <1>1, StepReplies DEF SentOK
<1>2. Inv /\ [Next]_vars => [\A q \in Reqs : Replied(q) =>
        LET now == req'[q]
        IN  now.key \in Configs[now.rt].hosts => now.reply.source \in {"hosts", "strategy"}]_vars
  BY <1>1
<1>. QED BY <1>2, Invariance, PTL DEF Spec, StaticNamesWin

(* The rules of the router that accepted a request say which group         *)
(* answers it, whether the answer is its own or one of the cache.          *)
THEOREM RulesAreFollowed == Spec => AnsweredByTheRules
<1>1. ASSUME Inv, [Next]_vars, NEW q \in Reqs, FromGroup(q)
      PROVE  LET now == req'[q]
                 c == Configs[now.rt]
             IN  /\ now.reply.ans.key = now.key
                 /\ \E g \in Groups(c) :
                      /\ Rules(c, now.key.name, g)
                      /\ now.reply.origin = g
                      /\ now.reply.ans.by \subseteq ToSet(c.groups[g].servers)
  <2>1. GroupReply(req'[q])
    BY <1>1, StepReplies DEF FromGroup, SentOK
  <2>2. PICK c : c = Configs[req'[q].rt]
    OBVIOUS
  <2>3. PICK g : g = GroupFor(c, req'[q].key.name)
    OBVIOUS
  <2>4. g \in Groups(c) /\ Rules(c, req'[q].key.name, g)
    BY <2>1, <2>2, <2>3, GroupForRules DEF GroupReply
  <2>5. /\ req'[q].reply.ans.key = req'[q].key /\ req'[q].reply.origin = g
        /\ req'[q].reply.ans.by \subseteq ToSet(c.groups[g].servers)
    BY <2>1, <2>2, <2>3 DEF GroupReply, AnswerOK, Chosen
  <2>. QED BY <2>2, <2>4, <2>5, Zenon
<1>2. Inv /\ [Next]_vars => [\A q \in Reqs : FromGroup(q) =>
        LET now == req'[q]
            c == Configs[now.rt]
        IN  /\ now.reply.ans.key = now.key
            /\ \E g \in Groups(c) :
                 /\ Rules(c, now.key.name, g)
                 /\ now.reply.origin = g
                 /\ now.reply.ans.by \subseteq ToSet(c.groups[g].servers)]_vars
  BY <1>1, Zenon
<1>. QED BY <1>2, Invariance, PTL DEF Spec, AnsweredByTheRules

(* A cached answer is marked as blocked exactly if the first one was.      *)
THEOREM MarksAreRestored == Spec => BlockedIsRestored
<1>1. ASSUME Inv, [Next]_vars, NEW q \in Reqs, FromGroup(q)
      PROVE  req'[q].reply.blocked <=> Blocks(Configs[req'[q].rt], req'[q].key.name)
  <2>1. GroupReply(req'[q])
    BY <1>1, StepReplies DEF FromGroup, SentOK
  <2>. QED BY <2>1, Zenon DEF GroupReply
<1>2. Inv /\ [Next]_vars => [\A q \in Reqs : FromGroup(q) =>
        LET now == req'[q]
        IN  now.reply.blocked <=> Blocks(Configs[now.rt], now.key.name)]_vars
  BY <1>1, Zenon
<1>. QED BY <1>2, Invariance, PTL DEF Spec, BlockedIsRestored

-----------------------------------------------------------------------------
(* Failing and waiting.  A leg that has no answer has asked, asks or will   *)
(* ask every server of the group; an answer waits no longer than the other *)
(* leg still takes.                                                        *)

Covered(l, S) ==
  l.ans = None => /\ l.asked \cup ToSet(l.next) \cup l.failed = S
                  /\ l.asked = {} => l.next = <<>>

\* How long a leg may still take.
Remaining(l) == IF Waiting(l) THEN l.wait + Timeout * Len(l.next) ELSE 0

InTime(l, other, most) ==
  l.ans # None => l.asked = {} /\ l.ans.age + Remaining(other) <= most

Budget(r, n) == Join(Configs[r], GroupFor(Configs[r], n))

PairOK(main, alt, r, n) ==
  /\ Covered(main, Chosen(r, n))
  /\ InTime(main, alt, Budget(r, n)) /\ InTime(alt, main, Budget(r, n))
  /\ IF Prefers(Configs[r])
     THEN Remaining(main) <= Budget(r, n) /\ Remaining(alt) <= Budget(r, n)
     ELSE alt = NoLeg

PendingOK(x) == x.at = "asking" => PairOK(x.main, x.alt, x.rt, x.key.name)

\* An entry is kept for its clamped time to live since it was put in.
KeptOK(r, k) ==
  LET e == cache[r][k]
  IN  Fresh(e) => e.left + e.ans.age <= Clamp(Configs[r], e.ans.ttl) + Join(Configs[r], e.origin)

WaitInv ==
  /\ \A q \in Reqs : PendingOK(req[q])
  /\ \A r \in Routers, k \in Keys : KeptOK(r, k)

(* A number is a multiple of n and its remainder, in one way.              *)
LEMMA Remainder ==
  ASSUME NEW n \in Nat \ {0}, NEW d \in Int, NEW j \in 0..(n - 1)
  PROVE  (d * n + j) % n = j
<1>. DEFINE x == d * n + j
            e == x \div n
            r == x % n
<1>1. d * n \in Int
  OBVIOUS
<1>2. x \in Int
  BY <1>1
<1>3. e \in Int /\ r \in 0..(n - 1) /\ x = n * e + r
  BY <1>2
<1>4. n * (d - e) = r - j
  BY <1>1, <1>2, <1>3
<1>. HIDE DEF x, e, r
<1>5. CASE d - e >= 1
  <2>1. n * (d - e) >= n
    BY <1>3, <1>5
  <2>. QED BY <1>3, <1>4, <2>1
<1>6. CASE d - e <= -1
  <2>1. n * (d - e) <= -n
    BY <1>3, <1>6
  <2>. QED BY <1>3, <1>4, <2>1
<1>7. CASE d = e
  BY <1>3, <1>4, <1>7 DEF x, r
<1>. QED BY <1>3, <1>5, <1>6, <1>7

(* Turning the list of servers leaves none out: every one has its turn.    *)
LEMMA RotatedCovers ==
  ASSUME NEW s \in Seq(Servers), s # <<>>, NEW start \in Nat
  PROVE  LET turn == Rotated(s, start)
         IN  /\ {Head(turn)} \cup ToSet(Tail(turn)) = ToSet(s)
             /\ Len(Tail(turn)) = Len(s) - 1
<1>1. PICK t : t = Rotated(s, start)
  OBVIOUS
<1>2. PICK n : n = Len(s)
  OBVIOUS
<1>3. n \in Nat \ {0} /\ DOMAIN s = 1..n
  BY <1>2
<1>4. t = [i \in 1..n |-> s[((start + i - 1) % n) + 1]]
  BY <1>1, <1>2, <1>3 DEF Rotated
<1>5. t \in Seq(Servers) /\ Len(t) = n
  <2>1. \A i \in 1..n : ((start + i - 1) % n) + 1 \in 1..n
    BY <1>3
  <2>2. t \in [1..n -> Servers]
    BY <1>3, <1>4, <2>1
  <2>. QED BY <1>3, <2>2
<1>6. ASSUME NEW j \in 1..n
      PROVE  \E i \in 1..n : t[i] = s[j]
  <2>. DEFINE r == start % n
              d == start \div n
  <2>1. /\ r \in 0..(n - 1) /\ d \in Int /\ start = n * d + r /\ n * d \in Int
        /\ j - 1 \in 0..(n - 1)
    BY <1>3
  <2>. HIDE DEF r, d
  <2>2. \E i \in 1..n : (start + i - 1) % n = j - 1
    <3>1. CASE j - 1 >= r
      <4>1. start + (j - r) - 1 = d * n + (j - 1)
        BY <1>3, <2>1
      <4>2. (start + (j - r) - 1) % n = j - 1
        BY <1>3, <2>1, <4>1, Remainder
      <4>3. j - r \in 1..n
        BY <1>3, <2>1, <3>1
      <4>. QED BY <4>2, <4>3
    <3>2. CASE j - 1 < r
      <4>1. start + (j - r + n) - 1 = (d + 1) * n + (j - 1)
        BY <1>3, <2>1
      <4>2. (start + (j - r + n) - 1) % n = j - 1
        BY <1>3, <2>1, <4>1, Remainder
      <4>3. j - r + n \in 1..n
        BY <1>3, <2>1, <3>2
      <4>. QED BY <4>2, <4>3
    <3>. QED BY <1>3, <2>1, <3>1, <3>2
  <2>. QED BY <1>4, <2>1, <2>2, SMTT(30)
<1>7. ToSet(s) \subseteq {t[i] : i \in 1..n} /\ {t[i] : i \in 1..n} \subseteq ToSet(s)
  <2>1. ToSet(s) = {s[j] : j \in 1..n}
    BY <1>3 DEF ToSet
  <2>2. \A i \in 1..n : ((start + i - 1) % n) + 1 \in 1..n
    BY <1>3
  <2>. QED BY <1>4, <1>6, <2>1, <2>2
<1>8. Tail(t) \in Seq(Servers) /\ Len(Tail(t)) = n - 1
      /\ \A i \in 1..(n - 1) : Tail(t)[i] = t[i + 1]
  BY <1>3, <1>5
<1>9. {Head(t)} \cup ToSet(Tail(t)) = {t[i] : i \in 1..n}
  <2>1. Head(t) = t[1]
    BY <1>3, <1>5
  <2>2. ToSet(Tail(t)) = {t[i + 1] : i \in 1..(n - 1)}
    <3>1. PICK u : u = Tail(t)
      OBVIOUS
    <3>2. u \in Seq(Servers) /\ Len(u) = n - 1 /\ \A i \in 1..(n - 1) : u[i] = t[i + 1]
      BY <1>8, <3>1
    <3>3. ToSet(u) = {u[i] : i \in 1..(n - 1)}
      BY <1>3, <3>2 DEF ToSet
    <3>. QED BY <3>1, <3>2, <3>3
  <2>3. \A i \in 1..n : i = 1 \/ (i - 1 \in 1..(n - 1) /\ i = (i - 1) + 1)
    BY <1>3
  <2>4. \A i \in 1..(n - 1) : i + 1 \in 1..n
    BY <1>3
  <2>5. 1 \in 1..n
    BY <1>3
  <2>. QED BY <2>1, <2>2, <2>3, <2>4, <2>5
<1>. QED BY <1>1, <1>2, <1>7, <1>8, <1>9


LEMMA RemainingNat == ASSUME NEW l \in Legs PROVE Remaining(l) \in Nat
<1>1. Timeout \in Nat /\ l.wait \in Nat /\ Len(l.next) \in Nat
  BY TimeoutAssumption DEF Legs
<1>2. Timeout * Len(l.next) \in Nat
  BY <1>1
<1>. QED BY <1>1, <1>2 DEF Remaining

LEMMA NoLegIdle == NoLeg \in Legs /\ NoLeg.asked = {} /\ NoLeg.ans = None /\ Remaining(NoLeg) = 0
BY NoLegOK DEF NoLeg, Answered, Remaining, Waiting

(* The time that a group's turn may take.                                  *)
Longest(grp) == IF grp.mode = "fastest" THEN Timeout ELSE Timeout * Len(grp.servers)

LEMMA BudgetIs ==
  ASSUME NEW r \in Routers, NEW n
  PROVE  /\ Longest(Configs[r].groups[GroupFor(Configs[r], n)]) \in Nat
         /\ Budget(r, n) = IF Prefers(Configs[r])
                           THEN Longest(Configs[r].groups[GroupFor(Configs[r], n)]) ELSE 0
<1>1. PICK grp : grp = Configs[r].groups[GroupFor(Configs[r], n)]
  OBVIOUS
<1>2. grp.servers \in Seq(Servers)
  BY <1>1, ChosenAreServers
<1>3. Timeout \in Nat /\ Len(grp.servers) \in Nat
  BY <1>2, TimeoutAssumption
<1>4. Longest(grp) \in Nat
  <2>1. Timeout * Len(grp.servers) \in Nat
    BY <1>3
  <2>. QED BY <1>3, <2>1 DEF Longest
<1>5. Budget(r, n) = IF Prefers(Configs[r]) THEN Longest(grp) ELSE 0
  BY <1>1 DEF Budget, Join, Longest
<1>. QED BY <1>1, <1>4, <1>5

(* A new leg is to ask every server of the group, one after the other or   *)
(* at once, wherever the shared counter points.                            *)
LEMMA NewLegWaits ==
  ASSUME NEW r \in Routers, NEW n, NEW at \in Nat
  PROVE  LET grp == Configs[r].groups[GroupFor(Configs[r], n)]
             l == NewLeg(grp, at)
         IN  l.ans = None /\ Covered(l, Chosen(r, n)) /\ Remaining(l) <= Longest(grp)
<1>1. PICK grp : grp = Configs[r].groups[GroupFor(Configs[r], n)]
  OBVIOUS
<1>2. /\ grp.servers \in Seq(Servers) /\ Chosen(r, n) = ToSet(grp.servers)
      /\ Longest(grp) \in Nat
  BY <1>1, ChosenAreServers, BudgetIs DEF Chosen
<1>3. PICK l : l = NewLeg(grp, at)
  OBVIOUS
<1>4. Timeout \in Nat /\ Len(grp.servers) \in Nat /\ Len(<<>>) = 0 /\ ToSet(<<>>) = {}
  BY <1>2, TimeoutAssumption DEF ToSet
<1>5. CASE grp.mode = "fastest" \/ grp.servers = <<>>
  <2>1. l = [asked |-> ToSet(grp.servers), next |-> <<>>, failed |-> {},
             wait |-> Timeout, ans |-> None]
    BY <1>3, <1>5 DEF NewLeg, NoLeg, Answered
  <2>2. Covered(l, Chosen(r, n))
    BY <1>2, <1>4, <2>1 DEF Covered
  <2>3. Timeout * 0 = 0
    BY <1>4
  <2>4. Remaining(l) <= Longest(grp)
    BY <1>2, <1>4, <1>5, <2>1, <2>3 DEF Remaining, Longest, Waiting
  <2>. QED BY <1>1, <1>3, <2>1, <2>2, <2>4
<1>6. CASE ~(grp.mode = "fastest" \/ grp.servers = <<>>)
  <2>1. PICK turn : turn = Rotated(grp.servers, at)
    OBVIOUS
  <2>2. l = [asked |-> {Head(turn)}, next |-> Tail(turn), failed |-> {},
             wait |-> Timeout, ans |-> None]
    BY <1>3, <1>6, <2>1 DEF NewLeg, NoLeg, Answered
  <2>3. /\ {Head(turn)} \cup ToSet(Tail(turn)) = ToSet(grp.servers)
        /\ Len(Tail(turn)) = Len(grp.servers) - 1
    BY <1>2, <1>6, <2>1, RotatedCovers
  <2>4. Covered(l, Chosen(r, n))
    BY <1>2, <2>2, <2>3 DEF Covered
  <2>5. Timeout + Timeout * (Len(grp.servers) - 1) = Timeout * Len(grp.servers)
    BY <1>4
  <2>6. Remaining(l) = Timeout * Len(grp.servers)
    BY <2>2, <2>3, <2>5 DEF Remaining, Waiting
  <2>7. Remaining(l) <= Longest(grp)
    BY <1>2, <1>6, <2>6 DEF Longest
  <2>. QED BY <1>1, <1>3, <2>2, <2>4, <2>7
<1>. QED BY <1>5, <1>6

(* A leg that goes on: it leaves no server out and takes no longer.        *)
GoesOn(l, old) ==
  /\ \A S : Covered(old, S) => Covered(l, S)
  /\ Remaining(l) <= Remaining(old)
  /\ l.ans # None => l.asked = {} /\ l.ans.age = 0

LEMMA FailedGoesOn ==
  ASSUME NEW l \in Legs, NEW s \in l.asked, l.ans = None
  PROVE  GoesOn(Failed(l, s), l)
<1>1. PICK f : f = Failed(l, s)
  OBVIOUS
<1>2. /\ l.next \in Seq(Servers) /\ l.wait \in Nat /\ Timeout \in Nat
      /\ Len(l.next) \in Nat /\ DOMAIN l.next = 1..Len(l.next)
  BY TimeoutAssumption DEF Legs
<1>3. CASE l.asked = {s} /\ l.next # <<>>
  <2>1. f = [asked |-> {Head(l.next)}, next |-> Tail(l.next),
             failed |-> l.failed \cup {s}, wait |-> Timeout, ans |-> None]
    BY <1>1, <1>3 DEF Failed, Legs
  <2>2. ToSet(l.next) = {Head(l.next)} \cup ToSet(Tail(l.next))
    <3>1. PICK next : next = l.next
      OBVIOUS
    <3>2. PICK m : m = Len(next)
      OBVIOUS
    <3>3. next \in Seq(Servers) /\ next # <<>> /\ m \in Nat \ {0}
      BY <1>2, <1>3, <3>1, <3>2
    <3>4. PICK u : u = Tail(next)
      OBVIOUS
    <3>5. /\ u \in Seq(Servers) /\ Len(u) = m - 1
          /\ \A i \in 1..(m - 1) : u[i] = next[i + 1]
          /\ Head(next) = next[1]
      BY <3>2, <3>3, <3>4
    <3>6. ToSet(u) = {u[i] : i \in 1..(m - 1)} /\ ToSet(next) = {next[i] : i \in 1..m}
      BY <3>2, <3>3, <3>5 DEF ToSet
    <3>7. /\ \A i \in 1..m : i = 1 \/ (i - 1 \in 1..(m - 1) /\ i = (i - 1) + 1)
          /\ \A i \in 1..(m - 1) : i + 1 \in 1..m
          /\ 1 \in 1..m
      BY <3>3
    <3>. QED BY <3>1, <3>4, <3>5, <3>6, <3>7
  <2>3. ASSUME NEW S, Covered(l, S)
        PROVE  Covered(f, S)
    BY <1>3, <2>1, <2>2, <2>3 DEF Covered
  <2>4. Len(Tail(l.next)) = Len(l.next) - 1
    BY <1>2, <1>3
  <2>5. Timeout + Timeout * (Len(l.next) - 1) = Timeout * Len(l.next)
        /\ Timeout * Len(l.next) \in Nat
    BY <1>2
  <2>6. Remaining(f) = Timeout * Len(l.next)
    BY <2>1, <2>4, <2>5 DEF Remaining, Waiting
  <2>7. Remaining(l) = l.wait + Timeout * Len(l.next)
    BY <1>3 DEF Remaining, Waiting
  <2>8. Remaining(f) <= Remaining(l)
    BY <1>2, <2>5, <2>6, <2>7
  <2>9. f.ans = None
    BY <2>1
  <2>10. GoesOn(f, l)
    BY <2>3, <2>8, <2>9, Zenon DEF GoesOn
  <2>. QED BY <1>1, <2>10
<1>4. CASE ~(l.asked = {s} /\ l.next # <<>>)
  <2>1. f = [asked |-> l.asked \ {s}, next |-> l.next,
             failed |-> l.failed \cup {s}, wait |-> l.wait, ans |-> None]
    BY <1>1, <1>4 DEF Failed, Legs
  <2>2. ASSUME NEW S, Covered(l, S)
        PROVE  Covered(f, S)
    <3>1. l.asked \cup ToSet(l.next) \cup l.failed = S
      BY <2>2 DEF Covered
    <3>2. f.asked = {} => f.next = <<>>
      BY <1>4, <2>1
    <3>3. f.asked \cup ToSet(f.next) \cup f.failed = S
      BY <2>1, <3>1
    <3>. QED BY <3>2, <3>3 DEF Covered
  <2>3. Remaining(f) <= Remaining(l)
    <3>1. Remaining(l) \in Nat
      BY RemainingNat
    <3>. QED BY <2>1, <3>1 DEF Remaining, Waiting
  <2>. QED BY <1>1, <2>1, <2>2, <2>3 DEF GoesOn
<1>. QED BY <1>3, <1>4

LEMMA AnsweredGoesOn ==
  ASSUME NEW l \in Legs, NEW ans, ans # None, ans.age = 0
  PROVE  GoesOn(Answered(ans), l)
<1>1. PICK f : f = Answered(ans)
  OBVIOUS
<1>2. f.asked = {} /\ f.ans = ans
  BY <1>1 DEF Answered
<1>3. Remaining(f) = 0 /\ Remaining(l) \in Nat
  BY <1>2, RemainingNat DEF Remaining, Waiting
<1>. QED BY <1>1, <1>2, <1>3 DEF GoesOn, Covered

(* A leg that goes on keeps the pair it is in.                             *)
LEMMA PairGoesOn ==
  ASSUME NEW r \in Routers, NEW n, NEW old \in Legs, NEW other \in Legs, NEW l \in Legs,
         old.asked # {}, GoesOn(l, old)
  PROVE  /\ PairOK(old, other, r, n) => PairOK(l, other, r, n)
         /\ PairOK(other, old, r, n) => PairOK(other, l, r, n)
<1>1. /\ Remaining(old) \in Nat /\ Remaining(other) \in Nat /\ Remaining(l) \in Nat
      /\ Remaining(l) <= Remaining(old) /\ Budget(r, n) \in Nat
  BY RemainingNat, BudgetIs DEF GoesOn
<1>2. /\ NoLeg.asked = {} /\ Remaining(NoLeg) = 0
      /\ other.ans # None => other.ans.age \in Nat
  BY NoLegIdle DEF Legs, Answers
<1>3. ASSUME InTime(other, old, Budget(r, n))
      PROVE  InTime(other, l, Budget(r, n))
  <2>. SUFFICES ASSUME other.ans # None
                PROVE  other.asked = {} /\ other.ans.age + Remaining(l) <= Budget(r, n)
    BY DEF InTime
  <2>1. other.asked = {} /\ other.ans.age + Remaining(old) <= Budget(r, n)
    BY <1>3 DEF InTime
  <2>. QED BY <1>1, <1>2, <2>1
<1>4. ASSUME Remaining(other) <= Budget(r, n)
      PROVE  InTime(l, other, Budget(r, n))
  BY <1>1, <1>4 DEF GoesOn, InTime
<1>5. ASSUME PairOK(old, other, r, n)
      PROVE  PairOK(l, other, r, n)
  <2>1. Covered(l, Chosen(r, n)) /\ InTime(other, old, Budget(r, n))
    BY <1>5 DEF PairOK, GoesOn
  <2>2. CASE Prefers(Configs[r])
    <3>1. Remaining(old) <= Budget(r, n) /\ Remaining(other) <= Budget(r, n)
      BY <1>5, <2>2 DEF PairOK
    <3>2. Remaining(l) <= Budget(r, n)
      BY <1>1, <3>1
    <3>. QED BY <1>3, <1>4, <2>1, <2>2, <3>1, <3>2 DEF PairOK
  <2>3. CASE ~Prefers(Configs[r])
    <3>1. other = NoLeg
      BY <1>5, <2>3 DEF PairOK
    <3>2. Remaining(other) <= Budget(r, n)
      BY <1>1, <1>2, <3>1
    <3>. QED BY <1>3, <1>4, <2>1, <2>3, <3>1, <3>2 DEF PairOK
  <2>. QED BY <2>2, <2>3
<1>6. ASSUME PairOK(other, old, r, n)
      PROVE  PairOK(other, l, r, n)
  <2>1. Prefers(Configs[r])
    BY <1>2, <1>6 DEF PairOK
  <2>2. /\ Covered(other, Chosen(r, n)) /\ InTime(other, old, Budget(r, n))
        /\ Remaining(other) <= Budget(r, n) /\ Remaining(old) <= Budget(r, n)
    BY <1>6, <2>1 DEF PairOK
  <2>3. Remaining(l) <= Budget(r, n)
    BY <1>1, <2>2
  <2>. QED BY <1>3, <1>4, <2>1, <2>2, <2>3 DEF PairOK
<1>. QED BY <1>5, <1>6


(* A leg that goes on takes its request along.                             *)
LEMMA OneLegWaits ==
  ASSUME Inv, WaitInv, NEW q \in Reqs, req[q].at = "asking", NEW side \in Sides,
         NEW l \in Legs, req[q][side].asked # {}, GoesOn(l, req[q][side]),
         req' = [req EXCEPT ![q][side] = l], UNCHANGED cache
  PROVE  WaitInv'
<1>1. /\ req = [p \in Reqs |-> req[p]] /\ RecShape(req[q])
      /\ PairOK(req[q].main, req[q].alt, req[q].rt, req[q].key.name)
  BY DEF Inv, Typed, RecOK, WaitInv, PendingOK
<1>2. PICK x : x = [req[q] EXCEPT ![side] = l]
  OBVIOUS
<1>3. req[q].main \in Legs /\ req[q].alt \in Legs /\ req[q].rt \in Routers
  BY <1>1 DEF RecShape
<1>4. PendingOK(x)
  <2>1. CASE side = "main"
    <3>1. x = [at |-> req[q].at, key |-> req[q].key, rt |-> req[q].rt,
               main |-> l, alt |-> req[q].alt, reply |-> req[q].reply]
      BY <1>1, <1>2, <2>1 DEF RecShape
    <3>2. req[q].main.asked # {} /\ GoesOn(l, req[q].main)
      BY <2>1
    <3>3. PairOK(l, req[q].alt, req[q].rt, req[q].key.name)
      BY <1>1, <1>3, <3>2, PairGoesOn
    <3>. QED BY <3>1, <3>3 DEF PendingOK
  <2>2. CASE side = "alt"
    <3>1. x = [at |-> req[q].at, key |-> req[q].key, rt |-> req[q].rt,
               main |-> req[q].main, alt |-> l, reply |-> req[q].reply]
      BY <1>1, <1>2, <2>2 DEF RecShape
    <3>2. req[q].alt.asked # {} /\ GoesOn(l, req[q].alt)
      BY <2>2
    <3>3. PairOK(req[q].main, l, req[q].rt, req[q].key.name)
      BY <1>1, <1>3, <3>2, PairGoesOn
    <3>. QED BY <3>1, <3>3 DEF PendingOK
  <2>. QED BY <2>1, <2>2 DEF Sides
<1>5. req'[q] = x /\ \A p \in Reqs \ {q} : req'[p] = req[p]
  BY <1>1, <1>2
<1>6. \A p \in Reqs : PendingOK(req'[p])
  BY <1>4, <1>5 DEF WaitInv
<1>7. \A r \in Routers, k \in Keys : KeptOK(r, k)'
  BY DEF WaitInv, KeptOK
<1>. QED BY <1>6, <1>7, Zenon DEF WaitInv, PendingOK

(* The answer of a server that was asked.                                  *)
LEMMA AnswerWaits ==
  ASSUME Inv, WaitInv, NEW q \in Reqs, NEW side \in Sides, NEW s \in Servers,
         NEW ttl \in Ttls \cup {NoRecords}, Answer(q, side, s, ttl)
  PROVE  WaitInv'
<1>1. RecOK(req[q]) /\ req[q].at = "asking" /\ s \in req[q][side].asked
  BY DEF Inv, Answer
<1>2. req[q].key \in Keys /\ req[q][side] \in Legs
  BY <1>1 DEF RecOK, RecShape, Sides
<1>3. PICK k : k = AskedKey(req[q].key, side)
  OBVIOUS
<1>4. k \in Keys
  BY <1>2, <1>3 DEF AskedKey, OtherType, Keys, Types
<1>5. PICK ans : ans = [by |-> {s}, key |-> k, ttl |-> ttl, age |-> 0]
  OBVIOUS
<1>6. ans \in Answers /\ ans # None /\ ans.age = 0
  BY <1>4, <1>5, NoneAssumption DEF Answers
<1>7. PICK l : l = Answered(ans)
  OBVIOUS
<1>8. l \in Legs
  BY <1>6, <1>7 DEF Legs, Answered
<1>9. GoesOn(l, req[q][side])
  BY <1>2, <1>6, <1>7, AnsweredGoesOn
<1>10. req' = [req EXCEPT ![q][side] = l] /\ UNCHANGED cache
  BY <1>3, <1>5, <1>7 DEF Answer
<1>. QED BY <1>1, <1>8, <1>9, <1>10, OneLegWaits

(* Going on to the next server: nobody is left out.                        *)
LEMMA FailWaits ==
  ASSUME Inv, WaitInv, NEW q \in Reqs, NEW side \in Sides, NEW s \in Servers, Fail(q, side, s)
  PROVE  WaitInv'
<1>1. /\ RecOK(req[q]) /\ req[q].at = "asking" /\ s \in req[q][side].asked
      /\ PairOK(req[q].main, req[q].alt, req[q].rt, req[q].key.name)
  BY DEF Inv, Fail, WaitInv, PendingOK
<1>2. /\ req[q].rt \in Routers /\ req[q][side] \in Legs
      /\ LegOK(req[q][side], req[q].rt, req[q].key.name, AskedKey(req[q].key, side))
  BY <1>1 DEF RecOK, RecShape, Sides
<1>3. req[q][side].ans = None
  BY <1>1 DEF PairOK, InTime, Sides
<1>4. PICK l : l = Failed(req[q][side], s)
  OBVIOUS
<1>5. l \in Legs
  BY <1>2, <1>4, FailedOK
<1>6. GoesOn(l, req[q][side])
  BY <1>1, <1>2, <1>3, <1>4, FailedGoesOn
<1>7. req' = [req EXCEPT ![q][side] = l] /\ UNCHANGED cache
  BY <1>4 DEF Fail
<1>. QED BY <1>1, <1>5, <1>6, <1>7, OneLegWaits

(* Looking a name up begins the legs of the group.                         *)
LEMMA LookUpWaits ==
  ASSUME Inv, WaitInv, NEW q \in Reqs, LookUp(q)
  PROVE  WaitInv'
<1>. DEFINE r == req[q].rt
            n == req[q].key.name
            g == GroupFor(Configs[r], n)
            grp == Configs[r].groups[g]
            to(i) == Advanced(grp, counter[r][g], i)
<1>1. /\ cache' = cache /\ req = [p \in Reqs |-> req[p]] /\ RecShape(req[q]) /\ r \in Routers
  BY DEF Inv, Typed, LookUp, RecOK, RecShape
<1>2. g \in Groups(Configs[r]) /\ counter[r][g] \in Nat
  BY <1>1, GroupForRules DEF Inv, Typed
<1>3. \A i \in {0, 1} : to(i) \in Nat
  BY <1>1, <1>2, AdvancedNat
<1>4. PICK x : PendingOK(x) /\ req' = [req EXCEPT ![q] = x]
  <2>1. CASE req' = [req EXCEPT ![q] = Local(@, "dynamic-hosts")]
    <3>1. PICK d : d = Local(req[q], "dynamic-hosts")
      OBVIOUS
    <3>2. d.at = "done"
      BY <1>1, <3>1, LocalRecord
    <3>. QED BY <2>1, <3>1, <3>2 DEF PendingOK
  <2>2. CASE \E i, j \in {0, 1} : req' = [req EXCEPT ![q] = [@ EXCEPT
                !.at = "asking", !.main = NewLeg(grp, to(i)),
                !.alt = IF Prefers(Configs[r]) THEN NewLeg(grp, to(j)) ELSE NoLeg]]
    <3>1. PICK i \in {0, 1}, j \in {0, 1} : req' = [req EXCEPT ![q] = [@ EXCEPT
                !.at = "asking", !.main = NewLeg(grp, to(i)),
                !.alt = IF Prefers(Configs[r]) THEN NewLeg(grp, to(j)) ELSE NoLeg]]
      BY <2>2
    <3>2. PICK one : one = NewLeg(grp, to(i))
      OBVIOUS
    <3>3. PICK two : two = NewLeg(grp, to(j))
      OBVIOUS
    <3>4. PICK alt : alt = IF Prefers(Configs[r]) THEN two ELSE NoLeg
      OBVIOUS
    <3>5. one \in Legs /\ two \in Legs
      BY <1>1, <1>3, <3>2, <3>3, NewLegOK
    <3>6. /\ one.ans = None /\ Covered(one, Chosen(r, n)) /\ Remaining(one) <= Longest(grp)
          /\ two.ans = None /\ Remaining(two) <= Longest(grp)
      BY <1>1, <1>3, <3>2, <3>3, NewLegWaits
    <3>7. alt.ans = None
      BY <3>4, <3>6, NoLegIdle
    <3>8. PairOK(one, alt, r, n)
      BY <1>1, <3>4, <3>6, <3>7, BudgetIs DEF PairOK, InTime
    <3>9. PICK x : x = [req[q] EXCEPT !.at = "asking", !.main = one, !.alt = alt]
      OBVIOUS
    <3>10. x = [at |-> "asking", key |-> req[q].key, rt |-> r, main |-> one, alt |-> alt,
                reply |-> req[q].reply]
      BY <1>1, <3>9 DEF RecShape
    <3>11. PendingOK(x)
      BY <3>8, <3>10 DEF PendingOK
    <3>12. req' = [req EXCEPT ![q] = x]
      BY <1>1, <3>1, <3>2, <3>3, <3>4, <3>9
    <3>. QED BY <3>11, <3>12
  <2>. QED BY <2>1, <2>2 DEF LookUp, Conf
<1>5. \A p \in Reqs : PendingOK(req'[p])
  BY <1>1, <1>4 DEF WaitInv
<1>6. \A s \in Routers, k \in Keys : KeptOK(s, k)'
  BY <1>1 DEF WaitInv, KeptOK
<1>. QED BY <1>5, <1>6, Zenon DEF WaitInv, PendingOK

(* Accepting a request asks nobody, and getting from the cache changes no  *)
(* entry but by removing it.                                               *)
LEMMA AcceptWaits ==
  ASSUME Inv, WaitInv, NEW q \in Reqs, NEW k \in Keys, NEW r \in Routers, Accept(q, k, r)
  PROVE  WaitInv'
<1>. DEFINE rec == Request("names", k, r)
<1>1. req = [p \in Reqs |-> req[p]]
  BY DEF Inv, Typed
<1>2. RecShape(rec) /\ rec.at = "names"
  <2>1. rec = [at |-> "names", key |-> k, rt |-> r, main |-> NoLeg, alt |-> NoLeg,
               reply |-> None]
    BY DEF Request
  <2>2. NoLeg \in Legs
    BY NoLegOK
  <2>. QED BY <2>1, <2>2 DEF RecShape, Phases
<1>. HIDE DEF rec
<1>3. PendingOK(rec)
  BY <1>2 DEF PendingOK
<1>4. \A source : PendingOK(Local(rec, source))
  BY <1>2, LocalRecord DEF PendingOK
<1>5. \A e : PendingOK(Done(rec, "cache", e.origin, e.blocked, Told(e), e.ans))
  BY <1>2, DoneRecord DEF PendingOK
<1>6. PICK x : PendingOK(x) /\ req' = [req EXCEPT ![q] = x]
  <2>1. CASE req' = [req EXCEPT ![q] = Local(rec, "strategy")]
    BY <1>4, <2>1
  <2>2. CASE LET e == cache[r][k] IN
               req' = [req EXCEPT ![q] = Done(rec, "cache", e.origin, e.blocked, Told(e), e.ans)]
    BY <1>5, <2>2
  <2>3. CASE req' = [req EXCEPT ![q] = IF k \in Configs[r].hosts
                                       THEN Local(rec, "hosts") ELSE rec]
    BY <1>3, <1>4, <2>3
  <2>. QED BY <2>1, <2>2, <2>3 DEF Accept, rec
<1>7. \A p \in Reqs : PendingOK(req'[p])
  BY <1>1, <1>6 DEF WaitInv
<1>8. \A s \in Routers, j \in Keys : cache'[s][j] \in {cache[s][j], None}
  <2>1. CASE UNCHANGED <<cache, recent>>
    BY <2>1
  <2>2. CASE Get(r, k)
    BY <2>2 DEF Get, Inv, Typed
  <2>. QED BY <2>1, <2>2 DEF Accept
<1>9. \A s \in Routers, j \in Keys : KeptOK(s, j)'
  BY <1>8 DEF WaitInv, KeptOK, Fresh
<1>. QED BY <1>7, <1>9, Zenon DEF WaitInv, PendingOK


(* The ages of a merged answer: the greater one.                           *)
LEMMA MergedAge ==
  ASSUME NEW a \in Answers, NEW b \in Answers \cup {None}, NEW most \in Nat,
         a.age <= most, b # None => b.age <= most
  PROVE  Merged(a, b).age <= most
<1>1. CASE b = None
  BY <1>1 DEF Merged
<1>2. CASE b # None
  <2>1. PICK age : age = Max({a.age, b.age})
    OBVIOUS
  <2>2. a.age \in Nat /\ b.age \in Nat
    BY <1>2 DEF Answers
  <2>3. age \in {a.age, b.age}
    BY <2>1, <2>2, OfTwo
  <2>4. PICK ttl : ttl = IF {a.ttl, b.ttl} \ {NoRecords} = {} THEN NoRecords
                         ELSE Min({a.ttl, b.ttl} \ {NoRecords})
    OBVIOUS
  <2>5. Merged(a, b) = [by |-> a.by \cup b.by, key |-> a.key, ttl |-> ttl, age |-> age]
    BY <1>2, <2>1, <2>4 DEF Merged, Answers
  <2>6. Merged(a, b).age = age
    BY <2>5
  <2>. QED BY <1>2, <2>3, <2>6
<1>. QED BY <1>1, <1>2

(* An answer that is put in is kept for its clamped time from then on; it  *)
(* has waited no longer than the legs of its request take.                 *)
LEMMA FinishWaits ==
  ASSUME Inv, WaitInv, NEW q \in Reqs, Finish(q)
  PROVE  WaitInv'
<1>. DEFINE r == req[q].rt
            k == req[q].key
            g == GroupFor(Configs[r], k.name)
            ans == Merged(req[q].main.ans, req[q].alt.ans)
<1>1. /\ req = [p \in Reqs |-> req[p]] /\ RecShape(req[q])
      /\ req[q].at = "asking" /\ r \in Routers
      /\ req[q].main \in Legs /\ req[q].alt \in Legs
      /\ PairOK(req[q].main, req[q].alt, r, k.name)
  BY DEF Inv, Typed, Finish, Settled, RecOK, RecShape, WaitInv, PendingOK
<1>2. PICK x : PendingOK(x) /\ req' = [req EXCEPT ![q] = x]
  <2>1. CASE req' = [req EXCEPT ![q] = Local(@, "error")]
    <3>1. PICK d : d = Local(req[q], "error")
      OBVIOUS
    <3>2. d.at = "done"
      BY <1>1, <3>1, LocalRecord
    <3>. QED BY <2>1, <3>1, <3>2 DEF PendingOK
  <2>2. CASE \E source, origin, blocked, ttl, a :
               req' = [req EXCEPT ![q] = Done(@, source, origin, blocked, ttl, a)]
    <3>1. PICK source, origin, blocked, ttl, a :
             req' = [req EXCEPT ![q] = Done(@, source, origin, blocked, ttl, a)]
      BY <2>2
    <3>2. PICK d : d = Done(req[q], source, origin, blocked, ttl, a)
      OBVIOUS
    <3>3. d.at = "done"
      BY <1>1, <3>2, DoneRecord
    <3>. QED BY <3>1, <3>2, <3>3 DEF PendingOK
  <2>. QED BY <2>1, <2>2 DEF Finish
<1>3. \A p \in Reqs : PendingOK(req'[p])
  BY <1>1, <1>2 DEF WaitInv
<1>4. ASSUME NEW s \in Routers, NEW j \in Keys
      PROVE  KeptOK(s, j)'
  <2>1. KeptOK(s, j)
    BY DEF WaitInv
  <2>2. CASE UNCHANGED <<cache, recent>>
    BY <2>1, <2>2 DEF KeptOK
  <2>3. CASE req[q].main.ans # None /\ Put(r, k, ans, g, Blocks(Configs[r], k.name))
    <3>1. k \in Keys /\ ans \in Answers
      BY <1>1, <2>3, FinishedAnswer
    <3>2. ans.age <= Budget(r, k.name)
      <4>1. /\ Remaining(req[q].main) = 0 /\ Remaining(req[q].alt) = 0
            /\ Budget(r, k.name) \in Nat
        BY <1>1, BudgetIs DEF Finish, Settled, Remaining, Waiting
      <4>2. /\ req[q].main.ans \in Answers /\ req[q].alt.ans \in Answers \cup {None}
        BY <1>1, <2>3 DEF Legs
      <4>3. req[q].main.ans.age <= Budget(r, k.name)
        BY <1>1, <2>3, <4>1, <4>2 DEF PairOK, InTime, Answers
      <4>4. req[q].alt.ans # None => req[q].alt.ans.age <= Budget(r, k.name)
        BY <1>1, <4>1, <4>2 DEF PairOK, InTime, Answers
      <4>. QED BY <4>1, <4>2, <4>3, <4>4, MergedAge
    <3>3. PICK a : a = ans
      OBVIOUS
    <3>4. PICK left : left = Clamp(Configs[r], a.ttl)
      OBVIOUS
    <3>5. left \in Nat
      BY <1>1, <3>1, <3>3, <3>4, ClampNat DEF Answers
    <3>6. PICK e : e = [ans |-> a, left |-> left, origin |-> g,
                        blocked |-> Blocks(Configs[r], k.name)]
      OBVIOUS
    <3>7. UNCHANGED cache \/ Insert(r, k, e)
      <4>. HIDE DEF ans, g
      <4>. QED BY <2>3, <3>3, <3>4, <3>6 DEF Put
    <3>8. CASE UNCHANGED cache
      BY <2>1, <3>8 DEF KeptOK
    <3>9. CASE Insert(r, k, e)
      <4>2. cache'[s][j] \in {cache[s][j], None} \/ (s = r /\ j = k /\ cache'[s][j] = e)
        <5>. DEFINE others == Without(recent[r], k)
                    out == Len(others) >= Configs[r].size
                    row == [z \in Keys |-> IF z = k THEN e
                              ELSE IF out /\ z = Last(others) THEN None ELSE cache[r][z]]
        <5>0. cache' = [cache EXCEPT ![r] = row]
          BY <3>9 DEF Insert
        <5>1. row[k] = e /\ \A z \in Keys \ {k} : row[z] \in {cache[r][z], None}
          <6>. HIDE DEF others, out
          <6>. QED BY <3>1
        <5>. HIDE DEF row
        <5>. QED BY <1>1, <5>0, <5>1 DEF Inv, Typed
      <4>3. CASE cache'[s][j] \in {cache[s][j], None}
        BY <2>1, <4>3 DEF KeptOK, Fresh
      <4>4. CASE s = r /\ j = k /\ cache'[s][j] = e
        <5>1. e.left = left /\ e.ans = a /\ e.origin = g
          BY <3>6
        <5>2. a.age \in Nat /\ Join(Configs[r], g) \in Nat /\ a.age <= Join(Configs[r], g)
          BY <1>1, <3>1, <3>2, <3>3, BudgetIs DEF Budget, Answers
        <5>3. left + a.age <= Clamp(Configs[r], a.ttl) + Join(Configs[r], g)
          BY <3>4, <3>5, <5>2
        <5>. QED BY <4>4, <5>1, <5>3 DEF KeptOK
      <4>. QED BY <4>2, <4>3, <4>4
    <3>. QED BY <3>7, <3>8, <3>9
  <2>. QED BY <2>2, <2>3 DEF Finish, Conf
<1>. QED BY <1>3, <1>4, Zenon DEF WaitInv, PendingOK

(* A tick changes a leg's clock and its answer's age, nothing else.         *)
LEMMA ElapsedRecord ==
  ASSUME NEW l \in Legs, NEW wait, wait = IF Waiting(l) THEN l.wait - 1 ELSE 0
  PROVE  Elapse(l) = [asked |-> l.asked, next |-> l.next, failed |-> l.failed,
                      wait |-> wait, ans |-> Older(l.ans)]
<1>1. Elapse(l) = [l EXCEPT !.wait = wait, !.ans = Older(l.ans)]
  BY Zenon DEF Elapse
<1>. QED BY <1>1 DEF Legs

(* A tick takes a leg that waits as much nearer to its end as its answer,  *)
(* or the other leg's, gets older.                                         *)
LEMMA ElapsedWaits ==
  ASSUME NEW l \in Legs, Waiting(l) => l.wait > 0
  PROVE  /\ Elapse(l).asked = l.asked
         /\ \A S : Covered(l, S) => Covered(Elapse(l), S)
         /\ Remaining(Elapse(l)) = IF Waiting(l) THEN Remaining(l) - 1 ELSE 0
         /\ l.ans = None <=> Elapse(l).ans = None
         /\ l.ans # None => Elapse(l).ans.age = l.ans.age + 1
<1>1. PICK wait : wait = IF Waiting(l) THEN l.wait - 1 ELSE 0
  OBVIOUS
<1>2. PICK f : f = Elapse(l)
  OBVIOUS
<1>3. f = [asked |-> l.asked, next |-> l.next, failed |-> l.failed,
           wait |-> wait, ans |-> Older(l.ans)]
  BY <1>1, <1>2, ElapsedRecord
<1>4. /\ l.ans \in Answers \cup {None} /\ l.wait \in Nat
      /\ Timeout \in Nat /\ Len(l.next) \in Nat
  BY TimeoutAssumption DEF Legs
<1>5. l.ans = None <=> f.ans = None
  BY <1>3, <1>4, OlderAnswer
<1>6. l.ans # None => f.ans.age = l.ans.age + 1
  BY <1>3, <1>4 DEF Older, Answers
<1>7. ASSUME NEW S, Covered(l, S)
      PROVE  Covered(f, S)
  BY <1>3, <1>5, <1>7 DEF Covered
<1>8. Remaining(f) = IF Waiting(l) THEN Remaining(l) - 1 ELSE 0
  <2>1. Timeout * Len(l.next) \in Nat
    BY <1>4
  <2>2. CASE Waiting(l)
    <3>1. Remaining(f) = (l.wait - 1) + Timeout * Len(l.next)
      BY <1>1, <1>3, <2>2 DEF Remaining, Waiting
    <3>2. Remaining(l) = l.wait + Timeout * Len(l.next)
      BY <2>2 DEF Remaining
    <3>. QED BY <1>4, <2>1, <2>2, <3>1, <3>2
  <2>3. CASE ~Waiting(l)
    BY <1>3, <2>3 DEF Remaining, Waiting
  <2>. QED BY <2>2, <2>3
<1>9. f.asked = l.asked
  BY <1>3
<1>. QED BY <1>2, <1>5, <1>6, <1>7, <1>8, <1>9

(* An answer still has to wait only while the other leg does.              *)
LEMMA InTimeElapsed ==
  ASSUME NEW l \in Legs, NEW other \in Legs, NEW most \in Nat, InTime(l, other, most),
         Waiting(l) \/ Waiting(other),
         Waiting(l) => l.wait > 0, Waiting(other) => other.wait > 0
  PROVE  InTime(Elapse(l), Elapse(other), most)
<1>1. PICK f, o : f = Elapse(l) /\ o = Elapse(other)
  OBVIOUS
<1>2. SUFFICES ASSUME f.ans # None
               PROVE  f.asked = {} /\ f.ans.age + Remaining(o) <= most
  BY <1>1 DEF InTime
<1>3. l.ans # None /\ f.ans.age = l.ans.age + 1 /\ f.asked = l.asked
  BY <1>1, <1>2, ElapsedWaits
<1>4. l.asked = {} /\ l.ans.age + Remaining(other) <= most /\ l.ans.age \in Nat
  BY <1>3 DEF InTime, Legs, Answers
<1>5. Waiting(other)
  BY <1>4 DEF Waiting
<1>6. Remaining(o) = Remaining(other) - 1 /\ Remaining(other) \in Nat
  BY <1>1, <1>5, ElapsedWaits, RemainingNat
<1>. QED BY <1>3, <1>4, <1>6

LEMMA PairElapsed ==
  ASSUME NEW main \in Legs, NEW alt \in Legs, NEW r \in Routers, NEW n,
         PairOK(main, alt, r, n), Waiting(main) \/ Waiting(alt),
         Waiting(main) => main.wait > 0, Waiting(alt) => alt.wait > 0
  PROVE  PairOK(Elapse(main), Elapse(alt), r, n)
<1>1. Budget(r, n) \in Nat
  BY BudgetIs
<1>2. Covered(Elapse(main), Chosen(r, n))
  BY ElapsedWaits DEF PairOK
<1>3. /\ InTime(Elapse(main), Elapse(alt), Budget(r, n))
      /\ InTime(Elapse(alt), Elapse(main), Budget(r, n))
  BY <1>1, InTimeElapsed DEF PairOK
<1>4. CASE Prefers(Configs[r])
  <2>1. /\ Remaining(main) <= Budget(r, n) /\ Remaining(alt) <= Budget(r, n)
        /\ Remaining(main) \in Nat /\ Remaining(alt) \in Nat
    BY <1>4, RemainingNat DEF PairOK
  <2>2. Remaining(Elapse(main)) \in {Remaining(main) - 1, 0}
        /\ Remaining(Elapse(alt)) \in {Remaining(alt) - 1, 0}
    BY ElapsedWaits
  <2>3. Remaining(Elapse(main)) <= Budget(r, n) /\ Remaining(Elapse(alt)) <= Budget(r, n)
    BY <1>1, <2>1, <2>2
  <2>. QED BY <1>2, <1>3, <1>4, <2>3 DEF PairOK
<1>5. CASE ~Prefers(Configs[r])
  <2>1. alt = NoLeg
    BY <1>5 DEF PairOK
  <2>2. Elapse(NoLeg) = NoLeg
    <3>1. ~Waiting(NoLeg) /\ Older(NoLeg.ans) = None
      BY DEF NoLeg, Answered, Waiting, Older
    <3>2. PICK wait, ans : /\ wait = (IF Waiting(NoLeg) THEN NoLeg.wait - 1 ELSE 0)
                           /\ ans = Older(NoLeg.ans)
      OBVIOUS
    <3>3. Elapse(NoLeg) = [asked |-> NoLeg.asked, next |-> NoLeg.next,
                           failed |-> NoLeg.failed, wait |-> wait, ans |-> ans]
      BY <3>2, NoLegOK, ElapsedRecord
    <3>4. wait = 0 /\ ans = None
      BY <3>1, <3>2
    <3>. QED BY <3>3, <3>4 DEF NoLeg, Answered
  <2>. QED BY <1>2, <1>3, <1>5, <2>1, <2>2 DEF PairOK
<1>. QED BY <1>4, <1>5

(* An entry loses as much time as its answer gets older.                   *)
LEMMA AgedKept ==
  ASSUME NEW e \in Entries \cup {None}, Fresh(Aged(e))
  PROVE  /\ Fresh(e) /\ e \in Entries
         /\ Aged(e).left = e.left - 1 /\ Aged(e).ans.age = e.ans.age + 1
         /\ Aged(e).ans.ttl = e.ans.ttl /\ Aged(e).origin = e.origin
<1>1. Fresh(e)
  BY DEF Aged
<1>2. e \in Entries /\ e.left \in Nat /\ e.ans \in Answers /\ e.ans # None
  BY <1>1, NoneAssumption DEF Fresh, Entries
<1>3. PICK a : a = [by |-> e.ans.by, key |-> e.ans.key, ttl |-> e.ans.ttl, age |-> e.ans.age + 1]
  OBVIOUS
<1>4. Older(e.ans) = a
  BY <1>2, <1>3 DEF Older, Answers
<1>5. Aged(e) = [ans |-> a, left |-> e.left - 1, origin |-> e.origin, blocked |-> e.blocked]
  BY <1>1, <1>2, <1>4 DEF Aged, Entries
<1>. QED BY <1>1, <1>2, <1>3, <1>5

(* Time passes only while some leg of every pending request waits.         *)
LEMMA TickWaits ==
  ASSUME Inv, WaitInv, Tick
  PROVE  WaitInv'
<1>1. ASSUME NEW q \in Reqs
      PROVE  PendingOK(req'[q])
  <2>1. /\ RecShape(req[q]) /\ Quiet(q) /\ PendingOK(req[q])
    BY DEF Inv, RecOK, Tick, WaitInv
  <2>2. CASE req[q].at # "asking"
    <3>1. req'[q] = req[q]
      BY <2>2 DEF Tick
    <3>. QED BY <2>1, <3>1
  <2>3. CASE req[q].at = "asking"
    <3>1. PICK main, alt : main = Elapse(req[q].main) /\ alt = Elapse(req[q].alt)
      OBVIOUS
    <3>2. req'[q] = [req[q] EXCEPT !.main = main, !.alt = alt]
      BY <2>3, <3>1 DEF Tick
    <3>3. req'[q] = [at |-> "asking", key |-> req[q].key, rt |-> req[q].rt,
                     main |-> main, alt |-> alt, reply |-> req[q].reply]
      BY <2>1, <2>3, <3>2 DEF RecShape
    <3>4. /\ req[q].main \in Legs /\ (Waiting(req[q].main) => req[q].main.wait > 0)
          /\ req[q].alt \in Legs /\ (Waiting(req[q].alt) => req[q].alt.wait > 0)
          /\ req[q].rt \in Routers
      BY <2>1, <2>3 DEF RecShape, Quiet, Sides
    <3>5. Waiting(req[q].main) \/ Waiting(req[q].alt)
      BY <2>1, <2>3 DEF Quiet, Settled, Waiting
    <3>6. PairOK(req[q].main, req[q].alt, req[q].rt, req[q].key.name)
      BY <2>1, <2>3 DEF PendingOK
    <3>7. PairOK(main, alt, req[q].rt, req[q].key.name)
      BY <3>1, <3>4, <3>5, <3>6, PairElapsed
    <3>. QED BY <3>3, <3>7 DEF PendingOK
  <2>. QED BY <2>2, <2>3
<1>2. ASSUME NEW r \in Routers, NEW k \in Keys
      PROVE  KeptOK(r, k)'
  <2>1. PICK e : e = cache[r][k]
    OBVIOUS
  <2>2. e \in Entries \cup {None} /\ KeptOK(r, k)
    BY <2>1 DEF Inv, Typed, WaitInv
  <2>3. PICK f : f = Aged(e)
    OBVIOUS
  <2>4. cache'[r][k] = f
    BY <2>1, <2>3 DEF Tick
  <2>5. CASE ~Fresh(f)
    BY <2>4, <2>5 DEF KeptOK
  <2>6. CASE Fresh(f)
    <3>1. /\ Fresh(e) /\ e \in Entries
          /\ f.left = e.left - 1 /\ f.ans.age = e.ans.age + 1
          /\ f.ans.ttl = e.ans.ttl /\ f.origin = e.origin
      BY <2>2, <2>3, <2>6, AgedKept
    <3>2. e.left \in Nat /\ e.ans.age \in Nat
      BY <3>1 DEF Entries, Answers
    <3>3. e.left + e.ans.age <= Clamp(Configs[r], e.ans.ttl) + Join(Configs[r], e.origin)
      BY <2>1, <2>2, <3>1 DEF KeptOK
    <3>4. f.left + f.ans.age = e.left + e.ans.age
      BY <3>1, <3>2
    <3>. QED BY <2>4, <3>1, <3>3, <3>4 DEF KeptOK
  <2>. QED BY <2>5, <2>6
<1>. QED BY <1>1, <1>2, Zenon DEF WaitInv, PendingOK


LEMMA WaitInit == Init => WaitInv
<1>. SUFFICES ASSUME Init PROVE WaitInv
  OBVIOUS
<1>1. \A q \in Reqs : req[q].at = "idle"
  BY DEF Init, Idle, Request
<1>2. \A r \in Routers, k \in Keys : cache[r][k] = None
  BY DEF Init
<1>. QED BY <1>1, <1>2 DEF WaitInv, PendingOK, KeptOK, Fresh

LEMMA WaitStep ==
  ASSUME Inv, WaitInv, [Next]_vars
  PROVE  WaitInv'
<1>1. ASSUME NEW q \in Reqs, NEW k \in Keys, NEW r \in Routers, Accept(q, k, r)
      PROVE  WaitInv'
  BY <1>1, AcceptWaits
<1>2. ASSUME NEW q \in Reqs, LookUp(q)
      PROVE  WaitInv'
  BY <1>2, LookUpWaits
<1>3. ASSUME NEW q \in Reqs, NEW side \in Sides, NEW s \in Servers,
             NEW ttl \in Ttls \cup {NoRecords}, Answer(q, side, s, ttl)
      PROVE  WaitInv'
  BY <1>3, AnswerWaits
<1>4. ASSUME NEW q \in Reqs, NEW side \in Sides, NEW s \in Servers, Fail(q, side, s)
      PROVE  WaitInv'
  BY <1>4, FailWaits
<1>5. ASSUME NEW q \in Reqs, Finish(q)
      PROVE  WaitInv'
  BY <1>5, FinishWaits
<1>6. ASSUME UNCHANGED <<cache, req>>
      PROVE  WaitInv'
  BY <1>6 DEF WaitInv, PendingOK, KeptOK
<1>7. CASE Tick
  BY <1>7, TickWaits
<1>. QED BY <1>1, <1>2, <1>3, <1>4, <1>5, <1>6, <1>7 DEF Next, SetName, Rebind, vars

(* The waiting holds in every reachable state, beside the rules.           *)
THEOREM WaitingInvariance == Spec => [](Inv /\ WaitInv)
<1>1. Init => Inv /\ WaitInv
  BY InitHolds, WaitInit
<1>2. Inv /\ WaitInv /\ [Next]_vars => (Inv /\ WaitInv)'
  BY NextKeeps, WaitStep
<1>. QED BY <1>1, <1>2, PTL DEF Spec

(* An error ends a request whose every server has failed it.               *)
LEMMA ErrorReplies ==
  ASSUME Inv, WaitInv, NEW q \in Reqs, Finish(q), req'[q].reply.source = "error"
  PROVE  req'[q].main.failed = Chosen(req'[q].rt, req'[q].key.name)
<1>1. /\ req = [p \in Reqs |-> req[p]] /\ RecShape(req[q])
      /\ PairOK(req[q].main, req[q].alt, req[q].rt, req[q].key.name)
      /\ req[q].main.asked = {}
  BY DEF Inv, Typed, Finish, Settled, RecOK, WaitInv, PendingOK
<1>2. CASE req[q].main.ans = None /\ req' = [req EXCEPT ![q] = Local(@, "error")]
  <2>1. PICK d : d = Local(req[q], "error")
    OBVIOUS
  <2>2. d.key = req[q].key /\ d.rt = req[q].rt /\ d.main = req[q].main
    BY <1>1, <2>1, LocalRecord
  <2>3. ToSet(<<>>) = {}
    BY DEF ToSet
  <2>4. req[q].main.failed = Chosen(req[q].rt, req[q].key.name)
    BY <1>1, <1>2, <2>3 DEF PairOK, Covered
  <2>5. req'[q] = d
    BY <1>1, <1>2, <2>1
  <2>. QED BY <2>2, <2>4, <2>5
<1>3. CASE \E source \in {"default", "rule"} : \E origin, blocked, ttl, a :
             req' = [req EXCEPT ![q] = Done(@, source, origin, blocked, ttl, a)]
  <2>0. PICK source \in {"default", "rule"} : \E origin, blocked, ttl, a :
           req' = [req EXCEPT ![q] = Done(@, source, origin, blocked, ttl, a)]
    BY <1>3
  <2>1. PICK origin, blocked, ttl, a :
           req' = [req EXCEPT ![q] = Done(@, source, origin, blocked, ttl, a)]
    BY <2>0
  <2>2. PICK d : d = Done(req[q], source, origin, blocked, ttl, a)
    OBVIOUS
  <2>3. d.reply.source = source
    BY <1>1, <2>2, DoneRecord
  <2>4. req'[q] = d
    BY <1>1, <2>1, <2>2
  <2>. QED BY <2>1, <2>3, <2>4
<1>. QED BY <1>2, <1>3 DEF Finish

(* A cached reply as KeptNoLonger wants it.                                *)
KeptReply(now) ==
  LET c == Configs[now.rt]
      ans == now.reply.ans
      limit == Clamp(c, ans.ttl) + Join(c, now.reply.origin)
  IN  IF ans.ttl = NoRecords THEN ans.age < limit ELSE now.reply.ttl + ans.age <= limit

(* What Accept replies is an error never, and an entry of the cache only   *)
(* while it is fresh.                                                      *)
LEMMA CacheReplies ==
  ASSUME Inv, WaitInv, NEW q \in Reqs, NEW k \in Keys, NEW r \in Routers,
         Accept(q, k, r), Replied(q)
  PROVE  /\ req'[q].reply.source # "error"
         /\ req'[q].reply.source = "cache" => KeptReply(req'[q])
<1>. DEFINE rec == Request("names", k, r)
            e == cache[r][k]
<1>1. req = [p \in Reqs |-> req[p]]
  BY DEF Inv, Typed
<1>2. RecShape(rec) /\ rec.key = k /\ rec.rt = r /\ rec.at = "names"
  <2>1. rec = [at |-> "names", key |-> k, rt |-> r, main |-> NoLeg, alt |-> NoLeg,
               reply |-> None]
    BY DEF Request
  <2>2. NoLeg \in Legs
    BY NoLegOK
  <2>. QED BY <2>1, <2>2 DEF RecShape, Phases
<1>. HIDE DEF rec
<1>3. CASE \E source \in {"strategy", "hosts"} : req' = [req EXCEPT ![q] = Local(rec, source)]
  <2>1. PICK source \in {"strategy", "hosts"} : req' = [req EXCEPT ![q] = Local(rec, source)]
    BY <1>3
  <2>2. req'[q].reply.source = source
    BY <1>1, <1>2, <2>1, LocalRecord
  <2>. QED BY <2>1, <2>2
<1>4. CASE /\ Fresh(e)
           /\ req' = [req EXCEPT ![q] = Done(rec, "cache", e.origin, e.blocked, Told(e), e.ans)]
  <2>1. PICK d : d = Done(rec, "cache", e.origin, e.blocked, Told(e), e.ans)
    OBVIOUS
  <2>2. /\ d.rt = r /\ d.reply.source = "cache" /\ d.reply.ttl = Told(e)
        /\ d.reply.origin = e.origin /\ d.reply.ans = e.ans
    BY <1>2, <2>1, DoneRecord
  <2>3. PICK limit : limit = Clamp(Configs[r], e.ans.ttl) + Join(Configs[r], e.origin)
    OBVIOUS
  <2>4. e.left + e.ans.age <= limit
    BY <1>4, <2>3 DEF WaitInv, KeptOK
  <2>5. IF e.ans.ttl = NoRecords THEN e.ans.age < limit ELSE Told(e) + e.ans.age <= limit
    <3>1. e \in Entries /\ e.left > 0 /\ e.origin = GroupFor(Configs[r], k.name)
      BY <1>4 DEF Inv, Typed, Fresh, EntryOK
    <3>2. e.left \in Nat /\ e.ans \in Answers
      BY <3>1 DEF Entries
    <3>3. e.ans.age \in Nat /\ e.ans.ttl \in Ttls \cup {NoRecords}
      BY <3>2 DEF Answers
    <3>4. Join(Configs[r], e.origin) \in Nat
      BY <3>1, BudgetIs DEF Budget
    <3>5. Clamp(Configs[r], e.ans.ttl) \in Nat
      BY <3>3, ClampNat
    <3>6. limit \in Nat
      BY <2>3, <3>4, <3>5
    <3>. QED BY <2>4, <3>1, <3>2, <3>3, <3>6 DEF Told
  <2>6. KeptReply(d)
    BY <2>2, <2>3, <2>5 DEF KeptReply
  <2>7. req'[q] = d
    BY <1>1, <1>4, <2>1
  <2>. QED BY <2>2, <2>6, <2>7
<1>5. CASE req' = [req EXCEPT ![q] = IF k \in Configs[r].hosts
                                     THEN Local(rec, "hosts") ELSE rec]
  <2>1. req'[q] = IF k \in Configs[r].hosts THEN Local(rec, "hosts") ELSE rec
    BY <1>1, <1>5
  <2>2. req'[q] # rec
    BY <1>2 DEF Replied
  <2>3. req' = [req EXCEPT ![q] = Local(rec, "hosts")]
    BY <1>5, <2>1, <2>2
  <2>. QED BY <1>3, <2>3
<1>. QED BY <1>3, <1>4, <1>5 DEF Accept, rec

(* The end of a request's legs does not reply from the cache.              *)
LEMMA FinishIsNoHit ==
  ASSUME Inv, NEW q \in Reqs, Finish(q)
  PROVE  req'[q].reply.source # "cache"
<1>1. req = [p \in Reqs |-> req[p]] /\ RecShape(req[q])
  BY DEF Inv, Typed, RecOK
<1>2. CASE req' = [req EXCEPT ![q] = Local(@, "error")]
  BY <1>1, <1>2, LocalRecord
<1>3. CASE \E source \in {"default", "rule"} : \E origin, blocked, ttl, a :
             req' = [req EXCEPT ![q] = Done(@, source, origin, blocked, ttl, a)]
  <2>0. PICK source \in {"default", "rule"} : \E origin, blocked, ttl, a :
           req' = [req EXCEPT ![q] = Done(@, source, origin, blocked, ttl, a)]
    BY <1>3
  <2>1. PICK origin, blocked, ttl, a :
           req' = [req EXCEPT ![q] = Done(@, source, origin, blocked, ttl, a)]
    BY <2>0
  <2>2. PICK d : d = Done(req[q], source, origin, blocked, ttl, a)
    OBVIOUS
  <2>3. d.reply.source = source
    BY <1>1, <2>2, DoneRecord
  <2>4. req'[q] = d
    BY <1>1, <2>1, <2>2
  <2>. QED BY <2>1, <2>3, <2>4
<1>. QED BY <1>2, <1>3 DEF Finish

(* A request that the table of DHCP's names answers is told so.            *)
LEMMA NameReplies ==
  ASSUME Inv, NEW q \in Reqs, req' = [req EXCEPT ![q] = Local(@, "dynamic-hosts")]
  PROVE  req'[q].reply.source = "dynamic-hosts"
<1>1. req = [p \in Reqs |-> req[p]] /\ RecShape(req[q])
  BY DEF Inv, Typed, RecOK
<1>. QED BY <1>1, LocalRecord

(* A request fails only after every server of its group failed it: the     *)
(* shared counter, however other requests move it, leaves none out.        *)
THEOREM NobodyIsLeftOut == Spec => FailsOnlyIfAllFail
<1>1. ASSUME Inv, WaitInv, [Next]_vars, NEW q \in Reqs, Replied(q),
             req'[q].reply.source = "error"
      PROVE  req'[q].main.failed = Chosen(req'[q].rt, req'[q].key.name)
  <2>1. ASSUME NEW k \in Keys, NEW r \in Routers, Accept(q, k, r)
        PROVE  FALSE
    BY <1>1, <2>1, CacheReplies
  <2>2. ~(req' = [req EXCEPT ![q] = Local(@, "dynamic-hosts")])
    BY <1>1, NameReplies
  <2>3. Finish(q)
    BY <1>1, <2>1, <2>2, WhoReplies
  <2>. QED BY <1>1, <2>3, ErrorReplies
<1>2. Inv /\ WaitInv /\ [Next]_vars =>
        [\A q \in Reqs : Replied(q) /\ req'[q].reply.source = "error" =>
           LET now == req'[q]
               c == Configs[now.rt]
           IN  now.main.failed = ToSet(c.groups[GroupFor(c, now.key.name)].servers)]_vars
  BY <1>1, Zenon DEF Chosen
<1>. QED BY <1>2, WaitingInvariance, PTL DEF Spec, FailsOnlyIfAllFail

(* A client never keeps the records of a cached answer beyond their        *)
(* clamped time to live, but for the time the answer waited for the other  *)
(* family's, and is handed no answer without records after that time.      *)
THEOREM AnswersGrowOld == Spec => KeptNoLonger
<1>1. ASSUME Inv, WaitInv, [Next]_vars, NEW q \in Reqs, Replied(q),
             req'[q].reply.source = "cache"
      PROVE  KeptReply(req'[q])
  <2>1. ~Finish(q)
    BY <1>1, FinishIsNoHit
  <2>2. ~(req' = [req EXCEPT ![q] = Local(@, "dynamic-hosts")])
    BY <1>1, NameReplies
  <2>3. PICK k \in Keys, r \in Routers : Accept(q, k, r)
    BY <1>1, <2>1, <2>2, WhoReplies
  <2>. QED BY <1>1, <2>3, CacheReplies
<1>2. Inv /\ WaitInv /\ [Next]_vars =>
        [\A q \in Reqs : Replied(q) /\ req'[q].reply.source = "cache" =>
           LET now == req'[q]
               c == Configs[now.rt]
               ans == now.reply.ans
               limit == Clamp(c, ans.ttl) + Join(c, now.reply.origin)
           IN  IF ans.ttl = NoRecords THEN ans.age < limit
               ELSE now.reply.ttl + ans.age <= limit]_vars
  BY <1>1, Zenon DEF KeptReply
<1>. QED BY <1>2, WaitingInvariance, PTL DEF Spec, KeptNoLonger

-----------------------------------------------------------------------------
(* Types.  The cache of a router and the list of its keys, the most         *)
(* recently used first, are changed together: the list has each key of the *)
(* cache once, and never more than the configured size.                    *)

ListOK(s, row, size) ==
  /\ s \in Seq(Keys) /\ IsInjective(s)
  /\ ToSet(s) = {k \in Keys : row[k] # None}
  /\ Len(s) <= size

Listed ==
  /\ recent = [r \in Routers |-> recent[r]]
  /\ \A r \in Routers : ListOK(recent[r], cache[r], Configs[r].size)

Counted ==
  \A r \in Routers : \A g \in Groups(Configs[r]) :
    counter[r][g] < Max({1, Len(Configs[r].groups[g].servers)})

SaidOK(x) == x.key \in Keys \cup {None} /\ x.reply \in Replies \cup {None}

Said ==
  /\ names \in [Names -> Types \cup {None}]
  /\ \A q \in Reqs : SaidOK(req[q])

TypeInv == Listed /\ Counted /\ Said

(* Taking a key out of a list leaves the others once each.                 *)
LEMMA WithoutKey ==
  ASSUME NEW s \in Seq(Keys), IsInjective(s), NEW k
  PROVE  LET u == Without(s, k)
         IN  /\ u \in Seq(Keys) /\ IsInjective(u) /\ ToSet(u) = ToSet(s) \ {k}
             /\ Len(u) = IF k \in ToSet(s) THEN Len(s) - 1 ELSE Len(s)
<1>1. PICK n : n = Len(s)
  OBVIOUS
<1>2. n \in Nat /\ DOMAIN s = 1..n /\ \A i \in 1..n : s[i] \in Keys
  BY <1>1
<1>3. \A i, j \in 1..n : s[i] = s[j] => i = j
  BY <1>2 DEF IsInjective
<1>4. ToSet(s) = {s[i] : i \in 1..n}
  BY <1>2 DEF ToSet
<1>5. CASE k \notin ToSet(s)
  BY <1>5 DEF Without
<1>6. CASE k \in ToSet(s)
  <2>1. PICK p : p = CHOOSE i \in DOMAIN s : s[i] = k
    OBVIOUS
  <2>2. p \in 1..n /\ s[p] = k
    BY <1>2, <1>4, <1>6, <2>1
  <2>3. PICK u : u = RemoveAt(s, p)
    OBVIOUS
  <2>4. u \in Seq(Keys) /\ Len(u) = n - 1
        /\ \A j \in 1..(n - 1) : u[j] = IF j < p THEN s[j] ELSE s[j + 1]
    <3>1. PICK a, b : a = SubSeq(s, 1, p - 1) /\ b = SubSeq(s, p + 1, n)
      OBVIOUS
    <3>2. /\ a \in Seq(Keys) /\ Len(a) = p - 1
          /\ \A j \in 1..(p - 1) : a[j] = s[j]
      BY <1>2, <2>2, <3>1
    <3>3. /\ b \in Seq(Keys) /\ Len(b) = n - p
          /\ \A j \in 1..(n - p) : b[j] = s[j + p]
      BY <1>2, <2>2, <3>1
    <3>4. u = a \o b
      BY <1>1, <2>3, <3>1 DEF RemoveAt
    <3>5. /\ u \in Seq(Keys) /\ Len(u) = n - 1
          /\ \A j \in 1..(p - 1) : u[j] = a[j]
          /\ \A j \in p..(n - 1) : u[j] = b[j - (p - 1)]
      <4>1. /\ a \o b \in Seq(Keys) /\ Len(a \o b) = Len(a) + Len(b)
            /\ \A j \in 1..Len(a) + Len(b) :
                 (a \o b)[j] = IF j <= Len(a) THEN a[j] ELSE b[j - Len(a)]
        BY <3>2, <3>3, ConcatProperties
      <4>2. Len(a) + Len(b) = n - 1
        BY <1>2, <2>2, <3>2, <3>3
      <4>3. ASSUME NEW j \in 1..(p - 1)
            PROVE  u[j] = a[j]
        <5>1. j \in 1..(n - 1) /\ j <= p - 1
          BY <1>2, <2>2
        <5>. QED BY <3>2, <3>4, <4>1, <4>2, <5>1
      <4>4. ASSUME NEW j \in p..(n - 1)
            PROVE  u[j] = b[j - (p - 1)]
        <5>1. j \in 1..(n - 1) /\ ~(j <= p - 1)
          BY <1>2, <2>2
        <5>. QED BY <3>2, <3>4, <4>1, <4>2, <5>1
      <4>. QED BY <3>4, <4>1, <4>2, <4>3, <4>4
    <3>6. ASSUME NEW j \in 1..(n - 1)
          PROVE  u[j] = IF j < p THEN s[j] ELSE s[j + 1]
      <4>1. CASE j < p
        BY <1>2, <2>2, <3>2, <3>5, <4>1
      <4>2. CASE ~(j < p)
        <5>1. j - (p - 1) \in 1..(n - p) /\ j \in p..(n - 1) /\ (j - (p - 1)) + p = j + 1
          BY <1>2, <2>2, <4>2
        <5>. QED BY <3>3, <3>5, <4>2, <5>1
      <4>. QED BY <4>1, <4>2
    <3>. QED BY <3>5, <3>6
  <2>5. DOMAIN u = 1..(n - 1)
    BY <1>2, <2>2, <2>4
  <2>6. IsInjective(u)
    <3>. SUFFICES ASSUME NEW i \in 1..(n - 1), NEW j \in 1..(n - 1), u[i] = u[j]
                  PROVE  i = j
      BY <2>5 DEF IsInjective
    <3>1. i \in 1..n /\ j \in 1..n /\ i + 1 \in 1..n /\ j + 1 \in 1..n
      BY <1>2
    <3>2. CASE i < p /\ j < p
      BY <1>3, <2>4, <3>1, <3>2
    <3>3. CASE i < p /\ ~(j < p)
      <4>1. s[i] = s[j + 1]
        BY <2>4, <3>3
      <4>. QED BY <1>3, <2>2, <3>1, <3>3, <4>1
    <3>4. CASE ~(i < p) /\ j < p
      <4>1. s[i + 1] = s[j]
        BY <2>4, <3>4
      <4>. QED BY <1>3, <2>2, <3>1, <3>4, <4>1
    <3>5. CASE ~(i < p) /\ ~(j < p)
      <4>1. s[i + 1] = s[j + 1]
        BY <2>4, <3>5
      <4>. QED BY <1>3, <3>1, <4>1
    <3>. QED BY <3>2, <3>3, <3>4, <3>5
  <2>7. ToSet(u) = {u[j] : j \in 1..(n - 1)}
    BY <2>5 DEF ToSet
  <2>8. ASSUME NEW j \in 1..(n - 1)
        PROVE  u[j] \in ToSet(s) \ {k}
    <3>1. j \in 1..n /\ j + 1 \in 1..n
      BY <1>2
    <3>2. CASE j < p
      BY <1>3, <1>4, <2>2, <2>4, <3>1, <3>2
    <3>3. CASE ~(j < p)
      BY <1>3, <1>4, <2>2, <2>4, <3>1, <3>3
    <3>. QED BY <3>2, <3>3
  <2>9. ASSUME NEW i \in 1..n, s[i] # k
        PROVE  \E j \in 1..(n - 1) : u[j] = s[i]
    <3>1. CASE i < p
      <4>1. i \in 1..(n - 1) /\ u[i] = s[i]
        BY <1>2, <2>2, <2>4, <3>1
      <4>. QED BY <4>1
    <3>2. CASE i > p
      <4>1. i - 1 \in 1..(n - 1) /\ ~(i - 1 < p) /\ (i - 1) + 1 = i
        BY <1>2, <2>2, <3>2
      <4>2. u[i - 1] = s[i]
        BY <2>4, <4>1
      <4>. QED BY <4>1, <4>2
    <3>. QED BY <2>2, <2>9, <3>1, <3>2
  <2>10. ToSet(u) = ToSet(s) \ {k}
    BY <1>4, <2>7, <2>8, <2>9
  <2>11. u = Without(s, k)
    BY <1>6, <2>1, <2>3 DEF Without
  <2>. QED BY <1>1, <1>6, <2>4, <2>6, <2>10, <2>11
<1>. QED BY <1>5, <1>6

(* Leaving out the last, the least recently used.                          *)
LEMMA FrontKeys ==
  ASSUME NEW s \in Seq(Keys), IsInjective(s), s # <<>>
  PROVE  /\ Front(s) \in Seq(Keys) /\ IsInjective(Front(s))
         /\ ToSet(Front(s)) = ToSet(s) \ {Last(s)} /\ Last(s) \in ToSet(s)
         /\ Len(Front(s)) = Len(s) - 1
<1>1. PICK n : n = Len(s)
  OBVIOUS
<1>2. n \in Nat \ {0} /\ DOMAIN s = 1..n
  BY <1>1
<1>3. \A i, j \in 1..n : s[i] = s[j] => i = j
  BY <1>2 DEF IsInjective
<1>4. PICK u : u = SubSeq(s, 1, n - 1)
  OBVIOUS
<1>5. u \in Seq(Keys) /\ Len(u) = n - 1 /\ \A j \in 1..(n - 1) : u[j] = s[j]
  BY <1>1, <1>2, <1>4
<1>6. DOMAIN u = 1..(n - 1) /\ \A j \in 1..(n - 1) : j \in 1..n /\ j # n
  BY <1>2, <1>5
<1>7. IsInjective(u)
  BY <1>3, <1>5, <1>6 DEF IsInjective
<1>8. ToSet(u) = {s[j] : j \in 1..(n - 1)} /\ ToSet(s) = {s[j] : j \in 1..n}
  BY <1>2, <1>5, <1>6 DEF ToSet
<1>9. \A j \in 1..n : j = n \/ j \in 1..(n - 1)
  BY <1>2
<1>10. n \in 1..n
  BY <1>2
<1>11. ToSet(u) = ToSet(s) \ {s[n]} /\ s[n] \in ToSet(s)
  BY <1>3, <1>6, <1>8, <1>9, <1>10
<1>12. u = Front(s) /\ s[n] = Last(s)
  BY <1>1, <1>4 DEF Front, Last
<1>. QED BY <1>1, <1>5, <1>7, <1>11, <1>12

(* Putting a key first.                                                    *)
LEMMA FirstKey ==
  ASSUME NEW s \in Seq(Keys), IsInjective(s), NEW k \in Keys, k \notin ToSet(s)
  PROVE  LET u == <<k>> \o s
         IN  /\ u \in Seq(Keys) /\ IsInjective(u) /\ ToSet(u) = ToSet(s) \cup {k}
             /\ Len(u) = Len(s) + 1
<1>1. PICK n : n = Len(s)
  OBVIOUS
<1>2. n \in Nat /\ DOMAIN s = 1..n /\ ToSet(s) = {s[j] : j \in 1..n}
  BY <1>1 DEF ToSet
<1>3. \A i, j \in 1..n : s[i] = s[j] => i = j
  BY <1>2 DEF IsInjective
<1>4. PICK u : u = <<k>> \o s
  OBVIOUS
<1>5. /\ u \in Seq(Keys) /\ Len(u) = n + 1 /\ u[1] = k
      /\ \A j \in 2..(n + 1) : u[j] = s[j - 1]
  BY <1>1, <1>2, <1>4
<1>6. DOMAIN u = 1..(n + 1)
  BY <1>2, <1>5
<1>7. \A j \in 1..(n + 1) : j = 1 \/ (j \in 2..(n + 1) /\ j - 1 \in 1..n)
  BY <1>2
<1>8. \A j \in 1..n : j + 1 \in 2..(n + 1) /\ j + 1 \in 1..(n + 1) /\ (j + 1) - 1 = j
  BY <1>2
<1>9. 1 \in 1..(n + 1)
  BY <1>2
<1>10. IsInjective(u)
  <2>. SUFFICES ASSUME NEW i \in 1..(n + 1), NEW j \in 1..(n + 1), u[i] = u[j]
                PROVE  i = j
    BY <1>6 DEF IsInjective
  <2>1. CASE i = 1 /\ j = 1
    BY <2>1
  <2>2. CASE i # 1 /\ j # 1
    <3>1. s[i - 1] = s[j - 1] /\ i - 1 \in 1..n /\ j - 1 \in 1..n
      BY <1>5, <1>7, <2>2
    <3>2. i - 1 = j - 1
      BY <1>3, <3>1
    <3>. QED BY <3>2
  <2>3. CASE (i = 1) # (j = 1)
    <3>1. \A m \in 1..(n + 1) : m # 1 => u[m] # k
      BY <1>2, <1>5, <1>7
    <3>. QED BY <1>5, <2>3, <3>1
  <2>. QED BY <2>1, <2>2, <2>3
<1>11. ToSet(u) = {u[j] : j \in 1..(n + 1)}
  BY <1>6 DEF ToSet
<1>12. \A j \in 1..(n + 1) : u[j] \in ToSet(s) \cup {k}
  BY <1>2, <1>5, <1>7
<1>13. \A j \in 1..n : s[j] = u[j + 1]
  BY <1>5, <1>8
<1>14. ToSet(u) = ToSet(s) \cup {k}
  BY <1>2, <1>5, <1>8, <1>9, <1>11, <1>12, <1>13
<1>. QED BY <1>1, <1>4, <1>5, <1>10, <1>14


(* The greater of one and another is at least each.                        *)
LEMMA MaxIsGreatest ==
  ASSUME NEW a \in Int, NEW b \in Int
  PROVE  Max({a, b}) \in Int /\ Max({a, b}) >= a /\ Max({a, b}) >= b
<1>1. \E x \in {a, b} : \A y \in {a, b} : x >= y
  <2>1. CASE a >= b BY <2>1
  <2>2. CASE b >= a BY <2>2
  <2>. QED BY <2>1, <2>2
<1>. QED BY <1>1 DEF Max

(* The counter of a group stays below its size (the remainder taken in     *)
(* dns/upstream/mod.rs).                                                   *)
LEMMA AdvancedBelow ==
  ASSUME NEW r \in Routers, NEW g \in Groups(Configs[r]), NEW at \in Nat, NEW n \in Nat,
         at < Max({1, Len(Configs[r].groups[g].servers)})
  PROVE  Advanced(Configs[r].groups[g], at, n) < Max({1, Len(Configs[r].groups[g].servers)})
<1>1. PICK grp : grp = Configs[r].groups[g]
  OBVIOUS
<1>2. grp.servers \in Seq(Servers)
  BY <1>1, ConfigAssumption
<1>3. PICK m : m = Len(grp.servers)
  OBVIOUS
<1>4. m \in Nat
  BY <1>2, <1>3
<1>5. Max({1, m}) \in Int /\ Max({1, m}) >= m
  <2>1. PICK one \in Int : one = 1
    OBVIOUS
  <2>2. m \in Int
    BY <1>4
  <2>3. Max({one, m}) \in Int /\ Max({one, m}) >= m
    BY <2>2, MaxIsGreatest
  <2>. QED BY <2>1, <2>3
<1>6. CASE grp.mode = "fastest" \/ grp.servers = <<>>
  BY <1>1, <1>6 DEF Advanced
<1>7. CASE ~(grp.mode = "fastest" \/ grp.servers = <<>>)
  <2>1. m \in Nat \ {0}
    BY <1>2, <1>3, <1>4, <1>7
  <2>2. (at + n) % m \in Int /\ (at + n) % m < m
    BY <2>1
  <2>3. Advanced(grp, at, n) = (at + n) % m
    BY <1>3, <1>7 DEF Advanced
  <2>4. (at + n) % m < Max({1, m})
    BY <1>4, <1>5, <2>2
  <2>. QED BY <1>1, <1>3, <2>3, <2>4
<1>. QED BY <1>6, <1>7

(* One router's list and cache change, the others' stay.                   *)
LEMMA OneList ==
  ASSUME Inv, Listed, NEW r \in Routers, NEW s, NEW row,
         ListOK(s, row, Configs[r].size), recent' = [recent EXCEPT ![r] = s],
         cache' = [cache EXCEPT ![r] = row]
  PROVE  Listed'
<1>1. /\ recent = [t \in Routers |-> recent[t]]
      /\ \A t \in Routers : ListOK(recent[t], cache[t], Configs[t].size)
      /\ cache = [t \in Routers |-> cache[t]]
  BY DEF Inv, Typed, Listed
<1>2. /\ recent' = [t \in Routers |-> IF t = r THEN s ELSE recent[t]]
      /\ \A t \in Routers : cache'[t] = IF t = r THEN row ELSE cache[t]
  BY <1>1
<1>3. \A t \in Routers : ListOK(recent'[t], cache'[t], Configs[t].size)
  BY <1>1, <1>2
<1>. QED BY <1>2, <1>3 DEF Listed, ListOK

(* Getting from the cache moves the key to the front, or takes it out.     *)
LEMMA GetListed ==
  ASSUME Inv, Listed, NEW r \in Routers, NEW k \in Keys, Get(r, k)
  PROVE  Listed'
<1>1. PICK s : s = recent[r]
  OBVIOUS
<1>2. PICK row : row = cache[r]
  OBVIOUS
<1>3. /\ recent = [t \in Routers |-> recent[t]] /\ ListOK(s, row, Configs[r].size)
      /\ cache \in [Routers -> [Keys -> Entries \cup {None}]]
  BY <1>1, <1>2 DEF Inv, Typed, Listed
<1>4. PICK u : u = Without(s, k)
  OBVIOUS
<1>5. /\ u \in Seq(Keys) /\ IsInjective(u) /\ ToSet(u) = ToSet(s) \ {k}
      /\ Len(u) \in {Len(s), Len(s) - 1}
  BY <1>3, <1>4, WithoutKey DEF ListOK
<1>6. s \in Seq(Keys) /\ Len(s) <= Configs[r].size /\ Configs[r].size \in Nat \ {0}
      /\ ToSet(s) = {j \in Keys : row[j] # None}
  BY <1>3, ConfigAssumption DEF ListOK
<1>7. CASE row[k] = None
  <2>1. recent' = recent /\ cache' = cache
    BY <1>2, <1>3, <1>7 DEF Get, Fresh
  <2>. QED BY <2>1 DEF Listed, ListOK
<1>8. CASE Fresh(row[k])
  <2>1. recent' = [recent EXCEPT ![r] = <<k>> \o u] /\ cache' = cache
    <3>1. row[k] # None
      BY <1>8 DEF Fresh
    <3>2. recent' = [recent EXCEPT ![r] = (IF Fresh(row[k]) THEN <<k>> ELSE <<>>) \o Without(@, k)]
      BY <1>2, <3>1 DEF Get
    <3>3. recent' = [recent EXCEPT ![r] = <<k>> \o Without(@, k)]
      BY <1>8, <3>2
    <3>4. cache' = cache
      BY <1>2, <1>8 DEF Get
    <3>. QED BY <1>1, <1>3, <1>4, <3>3, <3>4
  <2>2. PICK v : v = <<k>> \o u
    OBVIOUS
  <2>3. /\ v \in Seq(Keys) /\ IsInjective(v) /\ ToSet(v) = ToSet(u) \cup {k}
        /\ Len(v) = Len(u) + 1
    BY <1>5, <2>2, FirstKey
  <2>4. Len(v) <= Configs[r].size
    <3>1. k \in ToSet(s)
      BY <1>6, <1>8 DEF Fresh
    <3>2. Len(u) = Len(s) - 1
      BY <1>3, <1>4, <3>1, WithoutKey DEF ListOK
    <3>. QED BY <1>5, <1>6, <2>3, <3>2
  <2>5. ToSet(v) = {j \in Keys : row[j] # None}
    BY <1>5, <1>6, <1>8, <2>3 DEF Fresh
  <2>6. ListOK(v, row, Configs[r].size)
    BY <2>3, <2>4, <2>5 DEF ListOK
  <2>7. cache' = [cache EXCEPT ![r] = row]
    BY <1>2, <1>3, <2>1
  <2>. QED BY <2>1, <2>2, <2>6, <2>7, OneList
<1>9. CASE row[k] # None /\ ~Fresh(row[k])
  <2>1. recent' = [recent EXCEPT ![r] = <<>> \o u] /\ cache' = [cache EXCEPT ![r][k] = None]
    <3>1. recent' = [recent EXCEPT ![r] = (IF Fresh(row[k]) THEN <<k>> ELSE <<>>) \o Without(@, k)]
      BY <1>2, <1>9 DEF Get
    <3>2. recent' = [recent EXCEPT ![r] = <<>> \o Without(@, k)]
      BY <1>9, <3>1
    <3>3. cache' = [cache EXCEPT ![r][k] = None]
      BY <1>2, <1>9 DEF Get
    <3>. QED BY <1>1, <1>3, <1>4, <3>2, <3>3
  <2>2. <<>> \o u = u
    BY <1>5
  <2>3. PICK new : new = [row EXCEPT ![k] = None]
    OBVIOUS
  <2>4. /\ new = [j \in Keys |-> IF j = k THEN None ELSE row[j]]
        /\ cache' = [cache EXCEPT ![r] = new]
    BY <1>2, <1>3, <2>1, <2>3
  <2>5. ToSet(u) = {j \in Keys : new[j] # None}
    BY <1>5, <1>6, <2>4
  <2>6. Len(u) <= Configs[r].size
    BY <1>5, <1>6
  <2>7. ListOK(u, new, Configs[r].size)
    BY <1>5, <2>5, <2>6 DEF ListOK
  <2>. QED BY <2>1, <2>2, <2>4, <2>7, OneList
<1>. QED BY <1>7, <1>8, <1>9


(* A new entry comes first; if the cache is full, the least recently used  *)
(* goes, from the list and from the table.                                 *)
LEMMA InsertListed ==
  ASSUME Inv, Listed, NEW r \in Routers, NEW k \in Keys, NEW e, e # None, Insert(r, k, e)
  PROVE  Listed'
<1>1. PICK s : s = recent[r]
  OBVIOUS
<1>2. PICK row : row = cache[r]
  OBVIOUS
<1>3. PICK size : size = Configs[r].size
  OBVIOUS
<1>4. /\ recent = [t \in Routers |-> recent[t]] /\ ListOK(s, row, size)
      /\ size \in Nat \ {0}
  BY <1>1, <1>2, <1>3, ConfigAssumption DEF Listed
<1>5. PICK others : others = Without(s, k)
  OBVIOUS
<1>6. /\ s \in Seq(Keys) /\ IsInjective(s) /\ Len(s) <= size
      /\ ToSet(s) = {j \in Keys : row[j] # None}
  BY <1>4 DEF ListOK
<1>7. /\ others \in Seq(Keys) /\ IsInjective(others) /\ ToSet(others) = ToSet(s) \ {k}
      /\ Len(others) \in {Len(s), Len(s) - 1}
  BY <1>5, <1>6, WithoutKey
<1>8. Len(others) \in Nat /\ Len(others) <= size
  BY <1>4, <1>6, <1>7
<1>9. CASE Len(others) >= size
  <2>1. others # <<>>
    BY <1>4, <1>8, <1>9
  <2>2. PICK kept, last : kept = Front(others) /\ last = Last(others)
    OBVIOUS
  <2>3. /\ kept \in Seq(Keys) /\ IsInjective(kept)
        /\ ToSet(kept) = ToSet(others) \ {last} /\ last \in ToSet(others)
        /\ Len(kept) = Len(others) - 1
    BY <1>7, <2>1, <2>2, FrontKeys
  <2>4. PICK list : list = <<k>> \o kept
    OBVIOUS
  <2>5. /\ list \in Seq(Keys) /\ IsInjective(list) /\ ToSet(list) = ToSet(kept) \cup {k}
        /\ Len(list) = Len(kept) + 1
    BY <1>7, <2>3, <2>4, FirstKey
  <2>6. PICK new : new = [x \in Keys |-> IF x = k THEN e ELSE IF x = last THEN None ELSE row[x]]
    OBVIOUS
  <2>7. recent' = [recent EXCEPT ![r] = list] /\ cache' = [cache EXCEPT ![r] = new]
    <3>1. recent' = [recent EXCEPT ![r] = list]
      BY <1>1, <1>3, <1>5, <1>9, <2>2, <2>4 DEF Insert
    <3>2. cache' = [cache EXCEPT ![r] = [x \in Keys |->
             IF x = k THEN e ELSE IF Len(others) >= size /\ x = last THEN None ELSE @[x]]]
      BY <1>1, <1>3, <1>5, <2>2 DEF Insert
    <3>3. cache' = [cache EXCEPT ![r] = [x \in Keys |->
             IF x = k THEN e ELSE IF x = last THEN None ELSE @[x]]]
      BY <1>9, <3>2
    <3>. QED BY <1>2, <2>6, <3>1, <3>3
  <2>8. ToSet(list) = {j \in Keys : new[j] # None}
    BY <1>6, <1>7, <2>3, <2>5, <2>6
  <2>9. Len(list) <= size
    BY <1>8, <2>3, <2>5
  <2>10. ListOK(list, new, Configs[r].size)
    BY <1>3, <2>5, <2>8, <2>9 DEF ListOK
  <2>. QED BY <2>7, <2>10, OneList
<1>10. CASE ~(Len(others) >= size)
  <2>1. PICK list : list = <<k>> \o others
    OBVIOUS
  <2>2. /\ list \in Seq(Keys) /\ IsInjective(list) /\ ToSet(list) = ToSet(others) \cup {k}
        /\ Len(list) = Len(others) + 1
    BY <1>7, <2>1, FirstKey
  <2>3. PICK new : new = [x \in Keys |-> IF x = k THEN e ELSE row[x]]
    OBVIOUS
  <2>4. recent' = [recent EXCEPT ![r] = list] /\ cache' = [cache EXCEPT ![r] = new]
    <3>1. recent' = [recent EXCEPT ![r] = list]
      BY <1>1, <1>3, <1>5, <1>10, <2>1 DEF Insert
    <3>2. cache' = [cache EXCEPT ![r] = [x \in Keys |->
             IF x = k THEN e
             ELSE IF Len(others) >= size /\ x = Last(others) THEN None ELSE @[x]]]
      BY <1>1, <1>3, <1>5 DEF Insert
    <3>3. cache' = [cache EXCEPT ![r] = [x \in Keys |-> IF x = k THEN e ELSE @[x]]]
      BY <1>10, <3>2
    <3>. QED BY <1>2, <2>3, <3>1, <3>3
  <2>5. ToSet(list) = {j \in Keys : new[j] # None}
    BY <1>6, <1>7, <2>2, <2>3
  <2>6. Len(list) <= size
    BY <1>4, <1>8, <1>10, <2>2
  <2>7. ListOK(list, new, Configs[r].size)
    BY <1>3, <2>2, <2>5, <2>6 DEF ListOK
  <2>. QED BY <2>4, <2>7, OneList
<1>. QED BY <1>9, <1>10

(* A tick leaves every entry in its place, expired or not.                 *)
LEMMA TickListed ==
  ASSUME Inv, Listed, Tick
  PROVE  Listed'
<1>1. /\ recent' = recent /\ cache \in [Routers -> [Keys -> Entries \cup {None}]]
      /\ cache' = [r \in Routers |-> [k \in Keys |-> Aged(cache[r][k])]]
  BY DEF Tick, Inv, Typed
<1>2. ASSUME NEW r \in Routers
      PROVE  {k \in Keys : cache'[r][k] # None} = {k \in Keys : cache[r][k] # None}
  <2>1. \A k \in Keys : cache'[r][k] = None <=> cache[r][k] = None
    <3>1. TAKE k \in Keys
    <3>2. PICK e \in Entries \cup {None} : e = cache[r][k]
      BY <1>1
    <3>3. cache'[r][k] = Aged(e)
      BY <1>1, <3>2
    <3>. QED BY <3>2, <3>3, AgedEntry
  <2>. QED BY <2>1
<1>. QED BY <1>1, <1>2 DEF Listed, ListOK

(* What a request was asked and what it is told are of their types.        *)
LEMMA DoneSaid ==
  ASSUME NEW x, RecShape(x), x.key \in Keys, NEW source \in Sources,
         NEW origin \in Sources \cup GroupNames, NEW blocked \in BOOLEAN,
         NEW ttl \in Nat \cup {NoRecords}, NEW ans \in Answers \cup {None}
  PROVE  SaidOK(Done(x, source, origin, blocked, ttl, ans))
<1>1. PICK reply : reply = [source |-> source, origin |-> origin, blocked |-> blocked,
                            ttl |-> ttl, ans |-> ans]
  OBVIOUS
<1>2. reply \in Replies
  BY <1>1 DEF Replies
<1>3. PICK d : d = [x EXCEPT !.at = "done", !.reply = reply]
  OBVIOUS
<1>4. d = [at |-> "done", key |-> x.key, rt |-> x.rt, main |-> x.main, alt |-> x.alt,
           reply |-> reply]
  BY <1>3 DEF RecShape
<1>5. SaidOK(d)
  BY <1>2, <1>4 DEF SaidOK
<1>. QED BY <1>1, <1>3, <1>5 DEF Done

LEMMA LocalSaid ==
  ASSUME NEW x, RecShape(x), x.key \in Keys, NEW source \in Sources
  PROVE  SaidOK(Local(x, source))
<1>1. PICK no \in BOOLEAN : no = FALSE
  OBVIOUS
<1>2. SaidOK(Done(x, source, source, no, 0, None))
  BY DoneSaid
<1>. QED BY <1>1, <1>2, Zenon DEF Local

LEMMA OneSaid ==
  ASSUME Inv, Said, NEW q \in Reqs, NEW x, SaidOK(x), req' = [req EXCEPT ![q] = x],
         names' = names
  PROVE  Said'
<1>1. req = [p \in Reqs |-> req[p]]
  BY DEF Inv, Typed
<1>2. \A p \in Reqs : SaidOK(req'[p])
  BY <1>1 DEF Said
<1>. QED BY <1>2, Zenon DEF Said, SaidOK

(* Accepting a request. *)
LEMMA AcceptTyped ==
  ASSUME Inv, TypeInv, NEW q \in Reqs, NEW k \in Keys, NEW r \in Routers, Accept(q, k, r)
  PROVE  TypeInv'
<1>. DEFINE rec == Request("names", k, r)
<1>1. /\ names' = names /\ counter' = counter /\ cache \in [Routers -> [Keys -> Entries \cup {None}]]
  BY DEF Inv, Typed, Accept
<1>2. RecShape(rec) /\ rec.key = k /\ SaidOK(rec)
  <2>1. rec = [at |-> "names", key |-> k, rt |-> r, main |-> NoLeg, alt |-> NoLeg,
               reply |-> None]
    BY DEF Request
  <2>2. NoLeg \in Legs
    BY NoLegOK
  <2>. QED BY <2>1, <2>2 DEF RecShape, Phases, SaidOK
<1>. HIDE DEF rec
<1>3. SaidOK(Local(rec, "hosts")) /\ SaidOK(Local(rec, "strategy"))
  BY <1>2, LocalSaid DEF Sources
<1>4. ASSUME NEW e \in Entries
      PROVE  SaidOK(Done(rec, "cache", e.origin, e.blocked, Told(e), e.ans))
  <2>1. e.origin \in GroupNames /\ e.left \in Nat /\ e.ans \in Answers \cup {None}
    BY DEF Entries
  <2>0. PICK told \in Nat \cup {NoRecords} : told = Told(e)
    BY <2>1 DEF Told
  <2>2. PICK blocked \in BOOLEAN : blocked = e.blocked
    BY Zenon DEF Entries
  <2>3. PICK source \in Sources : source = "cache"
    BY DEF Sources
  <2>4. SaidOK(Done(rec, source, e.origin, blocked, told, e.ans))
    BY <1>2, <2>1, DoneSaid
  <2>. QED BY <2>0, <2>2, <2>3, <2>4, Zenon
<1>5. PICK x : SaidOK(x) /\ req' = [req EXCEPT ![q] = x]
  <2>1. CASE req' = [req EXCEPT ![q] = Local(rec, "strategy")]
    BY <1>3, <2>1
  <2>2. CASE Fresh(cache[r][k]) /\ LET e == cache[r][k] IN
               req' = [req EXCEPT ![q] = Done(rec, "cache", e.origin, e.blocked, Told(e), e.ans)]
    <3>1. cache[r][k] \in Entries
      BY <1>1, <2>2 DEF Fresh
    <3>. QED BY <1>4, <2>2, <3>1
  <2>3. CASE req' = [req EXCEPT ![q] = IF k \in Configs[r].hosts
                                       THEN Local(rec, "hosts") ELSE rec]
    BY <1>2, <1>3, <2>3
  <2>. QED BY <2>1, <2>2, <2>3 DEF Accept, rec
<1>6. Said'
  BY <1>1, <1>5, OneSaid DEF TypeInv
<1>7. Listed'
  <2>1. CASE UNCHANGED <<cache, recent>>
    BY <2>1 DEF TypeInv, Listed, ListOK
  <2>2. CASE Get(r, k)
    BY <2>2, GetListed DEF TypeInv
  <2>. QED BY <2>1, <2>2 DEF Accept
<1>8. Counted'
  BY <1>1 DEF TypeInv, Counted
<1>. QED BY <1>6, <1>7, <1>8 DEF TypeInv

(* Looking a name up. *)
LEMMA LookUpTyped ==
  ASSUME Inv, TypeInv, NEW q \in Reqs, LookUp(q)
  PROVE  TypeInv'
<1>. DEFINE r == req[q].rt
            k == req[q].key
            g == GroupFor(Configs[r], k.name)
            grp == Configs[r].groups[g]
            to(i) == Advanced(grp, counter[r][g], i)
<1>1. /\ names' = names /\ cache' = cache /\ recent' = recent
      /\ req = [p \in Reqs |-> req[p]] /\ RecShape(req[q]) /\ r \in Routers /\ k \in Keys
      /\ SaidOK(req[q])
  BY DEF Inv, Typed, LookUp, RecOK, RecShape, TypeInv, Said
<1>2. g \in Groups(Configs[r]) /\ counter[r][g] \in Nat
      /\ counter[r][g] < Max({1, Len(grp.servers)})
  BY <1>1, GroupForRules DEF Inv, Typed, TypeInv, Counted
<1>3. \A i \in {1, 2} : to(i) < Max({1, Len(grp.servers)})
  BY <1>1, <1>2, AdvancedBelow
<1>4. PICK x : SaidOK(x) /\ req' = [req EXCEPT ![q] = x]
  <2>1. CASE req' = [req EXCEPT ![q] = Local(@, "dynamic-hosts")]
    <3>1. SaidOK(Local(req[q], "dynamic-hosts"))
      BY <1>1, LocalSaid DEF Sources
    <3>. QED BY <2>1, <3>1
  <2>2. CASE \E i, j \in {0, 1} : req' = [req EXCEPT ![q] = [@ EXCEPT
                !.at = "asking", !.main = NewLeg(grp, to(i)),
                !.alt = IF Prefers(Configs[r]) THEN NewLeg(grp, to(j)) ELSE NoLeg]]
    <3>1. PICK main, alt : req' = [req EXCEPT ![q] =
            [@ EXCEPT !.at = "asking", !.main = main, !.alt = alt]]
      <4>. HIDE DEF grp, to, r
      <4>. QED BY <2>2
    <3>2. PICK x : x = [req[q] EXCEPT !.at = "asking", !.main = main, !.alt = alt]
      OBVIOUS
    <3>3. x = [at |-> "asking", key |-> k, rt |-> r, main |-> main, alt |-> alt,
               reply |-> req[q].reply]
      BY <1>1, <3>2 DEF RecShape
    <3>4. SaidOK(x)
      BY <1>1, <3>3 DEF SaidOK
    <3>5. req' = [req EXCEPT ![q] = x]
      BY <1>1, <3>1, <3>2
    <3>. QED BY <3>4, <3>5
  <2>. QED BY <2>1, <2>2 DEF LookUp, Conf
<1>5. Said'
  BY <1>1, <1>4, OneSaid DEF TypeInv
<1>6. Listed'
  BY <1>1 DEF TypeInv, Listed, ListOK
<1>7. Counted'
  <2>1. CASE counter' = counter
    BY <2>1 DEF TypeInv, Counted
  <2>2. CASE \E i \in {1, 2} : counter' = [counter EXCEPT ![r][g] = to(i)]
    <3>1. PICK n : /\ counter' = [counter EXCEPT ![r][g] = n]
                   /\ n < Max({1, Len(grp.servers)})
      BY <1>3, <2>2
    <3>. HIDE DEF r, g
    <3>2. counter = [s \in Routers |-> [h \in Groups(Configs[s]) |-> counter[s][h]]]
      BY DEF Inv, Typed
    <3>3. \A s \in Routers : \A h \in Groups(Configs[s]) :
            counter'[s][h] = IF s = r /\ h = g THEN n ELSE counter[s][h]
      BY <1>1, <1>2, <3>1, <3>2
    <3>4. PICK bound : bound = [s \in Routers |-> [h \in Groups(Configs[s]) |->
                                  Max({1, Len(Configs[s].groups[h].servers)})]]
      OBVIOUS
    <3>5. n < bound[r][g] /\ \A s \in Routers : \A h \in Groups(Configs[s]) : counter[s][h] < bound[s][h]
      BY <1>1, <1>2, <3>1, <3>4 DEF TypeInv, Counted
    <3>6. \A s \in Routers : \A h \in Groups(Configs[s]) : counter'[s][h] < bound[s][h]
      BY <3>3, <3>5
    <3>. QED BY <3>4, <3>6 DEF Counted
  <2>. QED BY <2>1, <2>2 DEF LookUp, Conf
<1>. QED BY <1>5, <1>6, <1>7 DEF TypeInv

(* A leg that changes leaves the question and the reply alone. *)
LEMMA LegTyped ==
  ASSUME Inv, TypeInv, NEW q \in Reqs, NEW side \in Sides, NEW l,
         req' = [req EXCEPT ![q][side] = l],
         UNCHANGED <<live, names, cache, recent, counter>>
  PROVE  TypeInv'
<1>1. req = [p \in Reqs |-> req[p]] /\ RecShape(req[q]) /\ SaidOK(req[q])
  BY DEF Inv, Typed, RecOK, TypeInv, Said
<1>2. PICK x : x = [req[q] EXCEPT ![side] = l]
  OBVIOUS
<1>3. x.key = req[q].key /\ x.reply = req[q].reply
  BY <1>1, <1>2 DEF RecShape, Sides
<1>4. SaidOK(x)
  BY <1>1, <1>3 DEF SaidOK
<1>5. req' = [req EXCEPT ![q] = x]
  BY <1>1, <1>2
<1>6. Said'
  BY <1>4, <1>5, OneSaid DEF TypeInv
<1>. QED BY <1>6 DEF TypeInv, Listed, ListOK, Counted

(* Caching and sending the answer, or giving the request up. *)
LEMMA FinishTyped ==
  ASSUME Inv, TypeInv, NEW q \in Reqs, Finish(q)
  PROVE  TypeInv'
<1>. DEFINE r == req[q].rt
            k == req[q].key
            g == GroupFor(Configs[r], k.name)
            ans == Merged(req[q].main.ans, req[q].alt.ans)
<1>1. /\ req = [p \in Reqs |-> req[p]] /\ RecShape(req[q]) /\ req[q].at = "asking"
      /\ r \in Routers /\ k \in Keys /\ names' = names /\ counter' = counter
  BY DEF Inv, Typed, Finish, Settled, RecOK, RecShape
<1>2. g \in GroupNames
  BY <1>1, GroupForRules DEF GroupNames
<1>3. req[q].main.ans # None => ans \in Answers
  BY <1>1, FinishedAnswer
<1>4. PICK x : SaidOK(x) /\ req' = [req EXCEPT ![q] = x]
  <2>1. CASE req' = [req EXCEPT ![q] = Local(@, "error")]
    <3>1. SaidOK(Local(req[q], "error"))
      BY <1>1, LocalSaid DEF Sources
    <3>. QED BY <2>1, <3>1
  <2>2. CASE /\ req[q].main.ans # None
             /\ \E source \in {"default", "rule"} : req' = [req EXCEPT ![q] =
                  Done(@, source, g, Blocks(Configs[r], k.name), 0, ans)]
    <3>1. PICK source \in {"default", "rule"} : req' = [req EXCEPT ![q] =
                  Done(@, source, g, Blocks(Configs[r], k.name), 0, ans)]
      BY <2>2
    <3>2. PICK blocked \in BOOLEAN : blocked = Blocks(Configs[r], k.name)
      BY Zenon DEF Blocks
    <3>3. PICK a \in Answers : a = ans
      BY <1>3, <2>2
    <3>4. SaidOK(Done(req[q], source, g, blocked, 0, a))
      BY <1>1, <1>2, DoneSaid DEF Sources
    <3>5. SaidOK(Done(req[q], source, g, Blocks(Configs[r], k.name), 0, ans))
      BY <3>2, <3>3, <3>4, Zenon
    <3>. QED BY <3>1, <3>5
  <2>. QED BY <2>1, <2>2 DEF Finish, Conf
<1>5. Said'
  BY <1>1, <1>4, OneSaid DEF TypeInv
<1>6. Listed'
  <2>1. CASE UNCHANGED <<cache, recent>>
    BY <2>1 DEF TypeInv, Listed, ListOK
  <2>2. CASE req[q].main.ans # None /\ Put(r, k, ans, g, Blocks(Configs[r], k.name))
    <3>0. PICK left : left = Clamp(Configs[r], ans.ttl)
      OBVIOUS
    <3>1. PICK blocked \in BOOLEAN : blocked = Blocks(Configs[r], k.name)
      BY Zenon DEF Blocks
    <3>2. PICK e : e = [ans |-> ans, left |-> left, origin |-> g, blocked |-> blocked]
      OBVIOUS
    <3>3. UNCHANGED <<cache, recent>> \/ Insert(r, k, e)
      <4>. HIDE DEF ans, g, r, k
      <4>. QED BY <2>2, <3>0, <3>1, <3>2, Zenon DEF Put
    <3>4. e # None
      <4>1. req[q].main.ans # None
        BY <2>2
      <4>2. ans \in Answers /\ left \in Nat
        BY <1>1, <1>3, <3>0, <4>1, ClampNat DEF Answers
      <4>. QED BY <1>2, <3>2, <4>2, NoneAssumption DEF Entries
    <3>. QED BY <1>1, <2>1, <3>3, <3>4, InsertListed DEF TypeInv
  <2>. QED BY <2>1, <2>2 DEF Finish, Conf
<1>7. Counted'
  BY <1>1 DEF TypeInv, Counted
<1>. QED BY <1>5, <1>6, <1>7 DEF TypeInv


(* The types hold at first and after every step.                           *)
LEMMA TypeInit == Init => TypeInv
<1>. SUFFICES ASSUME Init PROVE TypeInv
  OBVIOUS
<1>1. Listed
  <2>1. \A r \in Routers : Configs[r].size \in Nat \ {0}
    BY ConfigAssumption
  <2>2. /\ <<>> \in Seq(Keys) /\ IsInjective(<<>>) /\ ToSet(<<>>) = {} /\ Len(<<>>) = 0
    BY DEF IsInjective, ToSet
  <2>. QED BY <2>1, <2>2 DEF Init, Listed, ListOK
<1>2. Counted
  <2>1. ASSUME NEW n \in Nat
        PROVE  0 < Max({1, n})
    <3>1. PICK one \in Int : one = 1
      OBVIOUS
    <3>2. Max({one, n}) \in Int /\ Max({one, n}) >= one
      BY MaxIsGreatest
    <3>. QED BY <3>1, <3>2
  <2>2. \A r \in Routers : \A g \in Groups(Configs[r]) : Len(Configs[r].groups[g].servers) \in Nat
    BY ConfigAssumption, SMTT(30)
  <2>. QED BY <2>1, <2>2 DEF Init, Counted
<1>3. Said
  BY DEF Init, Said, SaidOK, Idle, Request
<1>. QED BY <1>1, <1>2, <1>3 DEF TypeInv

LEMMA TypeStep ==
  ASSUME Inv, TypeInv, [Next]_vars
  PROVE  TypeInv'
<1>1. ASSUME NEW q \in Reqs, NEW k \in Keys, NEW r \in Routers, Accept(q, k, r)
      PROVE  TypeInv'
  BY <1>1, AcceptTyped
<1>2. ASSUME NEW q \in Reqs, LookUp(q)
      PROVE  TypeInv'
  BY <1>2, LookUpTyped
<1>3. ASSUME NEW q \in Reqs, NEW side \in Sides, NEW s \in Servers,
             NEW ttl \in Ttls \cup {NoRecords}, Answer(q, side, s, ttl)
      PROVE  TypeInv'
  BY <1>3, LegTyped DEF Answer
<1>4. ASSUME NEW q \in Reqs, NEW side \in Sides, NEW s \in Servers, Fail(q, side, s)
      PROVE  TypeInv'
  <2>1. PICK l : l = Failed(req[q][side], s)
    OBVIOUS
  <2>2. /\ req' = [req EXCEPT ![q][side] = l]
        /\ UNCHANGED <<live, names, cache, recent, counter>>
    BY <1>4, <2>1 DEF Fail
  <2>. QED BY <2>2, LegTyped
<1>5. ASSUME NEW q \in Reqs, Finish(q)
      PROVE  TypeInv'
  BY <1>5, FinishTyped
<1>6. ASSUME NEW n \in Names, NEW t \in Types \cup {None}, SetName(n, t)
      PROVE  TypeInv'
  BY <1>6 DEF SetName, TypeInv, Listed, ListOK, Counted, Said, SaidOK
<1>7. CASE UNCHANGED <<names, cache, recent, counter, req>>
  BY <1>7 DEF TypeInv, Listed, ListOK, Counted, Said, SaidOK
<1>8. CASE Tick
  <2>1. Listed'
    BY <1>8, TickListed DEF TypeInv
  <2>2. Counted'
    BY <1>8 DEF Tick, TypeInv, Counted
  <2>3. ASSUME NEW q \in Reqs
        PROVE  SaidOK(req'[q])
    <3>1. RecShape(req[q]) /\ SaidOK(req[q])
      BY DEF Inv, RecOK, TypeInv, Said
    <3>2. CASE req[q].at # "asking"
      <4>1. req'[q] = req[q]
        BY <1>8, <3>2 DEF Tick
      <4>. QED BY <3>1, <4>1
    <3>3. CASE req[q].at = "asking"
      <4>1. PICK main, alt : main = Elapse(req[q].main) /\ alt = Elapse(req[q].alt)
        OBVIOUS
      <4>2. req'[q] = [req[q] EXCEPT !.main = main, !.alt = alt]
        BY <1>8, <3>3, <4>1 DEF Tick
      <4>3. req'[q].key = req[q].key /\ req'[q].reply = req[q].reply
        BY <3>1, <4>2 DEF RecShape
      <4>. QED BY <3>1, <4>3 DEF SaidOK
    <3>. QED BY <3>2, <3>3
  <2>4. names' = names
    BY <1>8 DEF Tick
  <2>5. Said'
    BY <2>3, <2>4, Zenon DEF TypeInv, Said, SaidOK
  <2>. QED BY <2>1, <2>2, <2>5 DEF TypeInv
<1>. QED BY <1>1, <1>2, <1>3, <1>4, <1>5, <1>6, <1>7, <1>8 DEF Next, Rebind, vars

(* Type correctness: among it that a cache and its list of keys, the most  *)
(* recently used first, agree and stay within the configured size, and     *)
(* that a group's counter is a place in its list of servers.               *)
THEOREM TypeCorrect == Spec => []TypeOK
<1>1. Init => Inv /\ TypeInv
  BY InitHolds, TypeInit
<1>2. Inv /\ TypeInv /\ [Next]_vars => (Inv /\ TypeInv)'
  BY NextKeeps, TypeStep
<1>3. ASSUME Inv, TypeInv
      PROVE  TypeOK
  <2>1. live \in Routers /\ names \in [Names -> Types \cup {None}]
    BY <1>3 DEF Inv, Typed, TypeInv, Said
  <2>2. ASSUME NEW r \in Routers
        PROVE  /\ cache[r] \in [Keys -> Entries \cup {None}]
               /\ recent[r] \in Seq(Keys) /\ IsInjective(recent[r])
               /\ ToSet(recent[r]) = {k \in Keys : cache[r][k] # None}
               /\ Len(recent[r]) <= Configs[r].size
               /\ counter[r] \in [Groups(Configs[r]) -> Nat]
               /\ \A g \in Groups(Configs[r]) :
                    counter[r][g] < Max({1, Len(Configs[r].groups[g].servers)})
    <3>1. cache[r] \in [Keys -> Entries \cup {None}] /\ ListOK(recent[r], cache[r], Configs[r].size)
      BY <1>3 DEF Inv, Typed, TypeInv, Listed
    <3>2. counter[r] = [g \in Groups(Configs[r]) |-> counter[r][g]]
          /\ \A g \in Groups(Configs[r]) : counter[r][g] \in Nat
      BY <1>3 DEF Inv, Typed
    <3>3. counter[r] \in [Groups(Configs[r]) -> Nat]
      BY <3>2
    <3>. QED BY <1>3, <3>1, <3>3 DEF ListOK, TypeInv, Counted
  <2>3. req \in [Reqs -> [at : Phases, key : Keys \cup {None}, rt : Routers, main : Legs,
                          alt : Legs, reply : Replies \cup {None}]]
    <3>1. req = [q \in Reqs |-> req[q]] /\ \A q \in Reqs : RecShape(req[q]) /\ SaidOK(req[q])
      BY <1>3 DEF Inv, Typed, RecOK, TypeInv, Said
    <3>2. \A q \in Reqs : req[q] \in [at : Phases, key : Keys \cup {None}, rt : Routers,
                                      main : Legs, alt : Legs, reply : Replies \cup {None}]
      BY <3>1 DEF RecShape, SaidOK
    <3>. QED BY <3>1, <3>2
  <2>. QED BY <2>1, <2>2, <2>3 DEF TypeOK
<1>. QED BY <1>1, <1>2, <1>3, PTL DEF Spec
=============================================================================
