----------------------------- MODULE MCResolve -----------------------------
(* Resolve for TLC: four routers, as updates replace them.                  *)
EXTENDS Resolve, TLC

CONSTANTS s1, s2, block

group(mode, servers) == [mode |-> mode, servers |-> servers]
rule(match, to) == [match |-> match, group |-> to]

first == [strategy |-> "only_ipv6", cache |-> FALSE, size |-> 1, min |-> 0, max |-> 2,
          hosts |-> {},
          rules |-> <<>>,
          groups |-> [default |-> group("fastest", <<s1, s2>>)]]

second == [strategy |-> "only_ipv4", cache |-> TRUE, size |-> 2, min |-> 1, max |-> 2,
           hosts |-> {},
           rules |-> <<rule({"host"}, "lan"), rule({"host", "ad"}, "default")>>,
           groups |-> [default |-> group("round_robin", <<block>>),
                       lan |-> group("round_robin", <<s1, s2>>)]]

third == [strategy |-> "only_ipv4", cache |-> TRUE, size |-> 1, min |-> 0, max |-> 2,
          hosts |-> {[name |-> "ad", type |-> "A"]},
          rules |-> <<rule({"ad"}, "ads")>>,
          groups |-> [default |-> group("round_robin", <<s1>>),
                      ads |-> group("fastest", <<block, s2>>)]]

fourth == [strategy |-> "prefer_ipv4", cache |-> TRUE, size |-> 1, min |-> 1, max |-> 1,
           hosts |-> {},
           rules |-> <<rule({"ad"}, "ads")>>,
           groups |-> [default |-> group("round_robin", <<s1>>),
                       ads |-> group("round_robin", <<block>>)]]

MCConfigs == <<first, second, third, fourth>>

Symmetry == Permutations(Reqs)

\* DHCP knows one of the names, by a DHCPv4 lease.
OneHost == names["ad"] = None /\ names["host"] \in {None, "A"}

\* Connections of the second router outlive the first update after it; others
\* are closed at once.  Requests under way go on with any router.
Serving == {live} \cup (IF live = 3 THEN {2} ELSE {})
Closed == \A q \in Reqs :
  req'[q] # req[q] /\ req[q].at \in {"idle", "done"} => req'[q].rt \in Serving

\* What does not matter any more: the cache of a router that accepts nothing,
\* its counters once nobody is to ask, what has expired in a cache, a reply
\* that is sent, and who failed in the leg for the other family (the
\* properties speak of the step that replies, and of the main leg).
Read == {r \in Routers : r > live \/ r \in Serving}
Asks == {req[q].rt : q \in {p \in Reqs : req[p].at = "names"}}
Shown(e) == IF Fresh(e) THEN e ELSE None
View == <<live, names,
          [q \in Reqs |-> IF req[q].at = "done" THEN Idle
                          ELSE [req[q] EXCEPT !.alt.failed = {}]],
          [r \in Read |-> <<[k \in Keys |-> Shown(cache[r][k])], recent[r]>>],
          [r \in Read \cup Asks |-> counter[r]]>>
=============================================================================
