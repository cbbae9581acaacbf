---------------------------- MODULE ConfigTabs ----------------------------
(***************************************************************************)
(* The configuration as the panel edits it: the draft of the configuration *)
(* page (ConfigContext.jsx), the tabs of it that change the groups, the    *)
(* rulesets and the host names (BasicTab.jsx, UpstreamsTab.jsx and         *)
(* HostsTab.jsx), and the server's configuration, which a save replaces    *)
(* and the page then loads again (web/api.rs get_config and put_config).   *)
(* One page at a time edits, and a save or a load is one step: what        *)
(* happens between them is the matter of ConfigEditor.                     *)
(*                                                                         *)
(* A group is a record of its settings and of the client subnet under the  *)
(* two spellings, see RulesTab.                                            *)
(***************************************************************************)
EXTENDS RulesTab, HostsTab

CONSTANTS
    Files,     \* configurations the server may start with
    Refused,   \* settings the panel offers and the server cannot parse
    MaxEdits,  \* bound: edits of the user
    MaxRows,   \* bound: entries of the catalog, rules, names in a rule, rows of names
    MaxRules

\* What the server starts with it has parsed and validated (config.rs).
ASSUME FilesAssumption == \A c \in Files :
    /\ Default \in DOMAIN c.groups
    /\ c.groups \in [DOMAIN c.groups -> [settings : Settings \ Refused, kebab : {Null}, snake : Ecs]]
    /\ c.rulesets \in Seq([path : Path, upstream : DOMAIN c.groups])
    /\ c.hosts \in Seq([key : Key, value : Ip])
    /\ \A i, j \in DOMAIN c.hosts : c.hosts[i].key = c.hosts[j].key => i = j

ASSUME RefusedAssumption == Refused \subseteq Settings \ {Blank}
ASSUME BoundsAssumption == MaxEdits \in Nat

VARIABLES
    server,    \* the configuration in force: groups, rulesets and hosts
    dirty,     \* the draft was edited
    tab,       \* the tab that is open
    edits      \* edits so far

vars == <<groups, rulesets, catalog, rules, hosts, server, dirty, tab, edits>>

Tabs == {"basic", "rules", "hosts"}

---------------------------------------------------------------------------
(* The page *)

\* The configuration page has been loaded: the first tab is open.
Init ==
    /\ server \in Files
    /\ groups = server.groups
    /\ rulesets = server.rulesets
    /\ hosts = FromServer(server.hosts)
    /\ catalog = <<>> /\ rules = <<>>
    /\ dirty = FALSE
    /\ tab = "basic"
    /\ edits = 0

\* A tab is chosen: it is mounted, the one before it goes with what it alone knew.
OpenTab(t) ==
    /\ t # tab
    /\ tab' = t
    /\ IF t = "rules" THEN Mount(groups, rulesets) ELSE Unmount
    /\ UNCHANGED <<groups, rulesets, hosts, server, dirty, edits>>

Edited ==
    /\ edits < MaxEdits
    /\ edits' = edits + 1
    /\ dirty' = TRUE
    /\ UNCHANGED <<server, tab>>

\* Mutant of EditDefaultGroup: the other groups are not taken over.
EditDefaultAlone(g) ==
    /\ g # groups[Default]
    /\ groups' = Default :> g
    /\ UNCHANGED <<rulesets, catalog, rules, hosts>>

\* Mutant of EditDefaultGroup: only the fields the tab shows are kept.
EditDefaultShown(g) ==
    /\ g # groups[Default]
    /\ groups' = [groups EXCEPT ![Default] = [g EXCEPT !.snake = Null]]
    /\ UNCHANGED <<rulesets, catalog, rules, hosts>>

\* setDefaultGroup: the group is put among the others.
EditDefaultGroup(g) ==
    /\ g # groups[Default]
    /\ groups' = [groups EXCEPT ![Default] = g]
    /\ UNCHANGED <<rulesets, catalog, rules, hosts>>

\* The first tab: the settings of the default group, and its subnet.
BasicEdit ==
    \/ \E s \in Settings : EditDefaultGroup([groups[Default] EXCEPT !.settings = s])
    \/ \E s \in Ecs : EditDefaultGroup([groups[Default] EXCEPT !.kebab = s])

EditBasicTab == tab = "basic" /\ BasicEdit /\ Edited
EditRulesTab == tab = "rules" /\ RulesEdit /\ Edited /\ UNCHANGED hosts
EditHostsTab == tab = "hosts" /\ HostsEdit /\ Edited /\ UNCHANGED tabVars

---------------------------------------------------------------------------
(* The server *)

\* What the server parses: it knows no field of the panel's spelling.
Parsed(grps) == [n \in DOMAIN grps |-> [grps[n] EXCEPT !.kebab = Null]]

\* What it can parse, and what it takes: every value has its type, there is a
\* default group and every entry names a group.
Acceptable ==
    /\ \A n \in DOMAIN groups : groups[n].settings \notin Refused
    /\ \A i \in DOMAIN hosts : hosts[i].value \in Ip
    /\ Default \in DOMAIN groups
    /\ \A i \in DOMAIN rulesets : rulesets[i].upstream \in DOMAIN groups

\* The page loads a configuration: the open tab is mounted anew.
Load(config) ==
    /\ groups' = config.groups
    /\ rulesets' = config.rulesets
    /\ hosts' = FromServer(config.hosts)
    /\ IF tab = "rules" THEN Mount(config.groups, config.rulesets) ELSE Unmount
    /\ dirty' = FALSE
    /\ UNCHANGED <<tab, edits>>

\* The draft is sent and loaded again. A draft that is refused stays as it is,
\* and so does the server: no step.
Save ==
    /\ dirty
    /\ Acceptable
    /\ server' = [groups |-> Parsed(groups), rulesets |-> rulesets, hosts |-> hosts]
    /\ Load(server')

Cancel ==
    /\ dirty
    /\ UNCHANGED server
    /\ Load(server)

Next ==
    \/ \E t \in Tabs : OpenTab(t)
    \/ EditBasicTab
    \/ EditRulesTab
    \/ EditHostsTab
    \/ Save
    \/ Cancel

Spec == Init /\ [][Next]_vars

---------------------------------------------------------------------------
(* Properties *)

Group == [settings : Settings, kebab : Ecs, snake : Ecs]
EntriesOf(grps) == [path : Path, upstream : DOMAIN grps]
Row == [key : Key, value : Ip \cup {NoIp}]

\* The draft and the server's configuration have the form the server demands
\* (config.rs Config and validate), the tab's lists the form the tab expects.
\* Groups and entries are written by different tabs, each over the whole of its
\* part: still no entry names a group that is not there.
TypeOK ==
    /\ \A grps \in {groups, server.groups} :
           Default \in DOMAIN grps /\ \A n \in DOMAIN grps : grps[n] \in Group
    /\ \A n \in DOMAIN server.groups : server.groups[n].kebab = Null
    /\ rulesets \in Seq(EntriesOf(groups))
    /\ server.rulesets \in Seq(EntriesOf(server.groups))
    /\ \A i \in DOMAIN catalog : catalog[i].path \in Path \cup {Null}
    /\ \A i \in DOMAIN rules : rules[i].settings \in Settings /\ rules[i].subnet \in Ecs
    /\ \A i \in DOMAIN hosts : hosts[i] \in Row
    /\ Cardinality(Keys(hosts)) = Len(hosts)
    /\ dirty \in BOOLEAN
    /\ tab \in Tabs
    /\ edits \in 0..MaxEdits

\* The names of the catalog tell its entries apart.
NamesDiffer == Cardinality(Names(catalog)) = Len(catalog)

\* A list of pairs of a path and what it leads to, without those whose path
\* an earlier pair has: the router takes the first hit.
FirstHits(pairs) ==
    At(pairs, {i \in DOMAIN pairs : \A j \in 1..i - 1 : pairs[j].path # pairs[i].path})

\* Where a configuration routes.
Routed(grps, entries) ==
    FirstHits([i \in DOMAIN entries |->
                  [path |-> entries[i].path, to |-> grps[entries[i].upstream].settings]])

\* Where the rules of the tab say they route.
ShownRouting(cat, rs) ==
    FirstHits(FlattenSeq([i \in DOMAIN rs |->
                  LET paths == PathsOf(cat, rs[i])
                  IN [k \in DOMAIN paths |-> [path |-> paths[k], to |-> rs[i].settings]]]))

\* What the tab shows is what the draft routes (commitToConfig and fromBackend,
\* UpstreamsTab.jsx:37-130), after any edits: in the same order, to the same
\* servers, though groups get new names, share first rulesets and are
\* reordered under their names.
RulesAreRouted ==
    tab = "rules" => Routed(groups, rulesets) = ShownRouting(catalog, rules)

\* The rules that route anything, with the paths they route.
Routing(cat, rs) ==
    At([i \in DOMAIN rs |-> [paths |-> FirstOnes(PathsOf(cat, rs[i])),
                             settings |-> rs[i].settings, subnet |-> rs[i].subnet]],
       {i \in DOMAIN rs : PathsOf(cat, rs[i]) # <<>>})

\* If the tab is left and opened again it shows the same rules, as far as they
\* route anything (fromBackend, UpstreamsTab.jsx:37-81): none is merged with
\* its neighbour, split or given the settings of another.
RemountKeepsRules ==
    LET again == FromBackend(groups, rulesets)
    IN tab = "rules" =>
           Routing(again.catalog, again.rules) = Routing(catalog, rules)

\* To rename an entry of the catalog, even to `default' or to the name of a
\* rule's group, changes no routing (updateCatalogEntry, UpstreamsTab.jsx:167-178),
\* if the name is in nobody's use.
RenameKeepsRouting ==
    [][\A i \in DOMAIN catalog, name \in Name \ {<<>>} :
           /\ tab = "rules" /\ dirty' /\ NamesDiffer
           /\ name \notin Names(catalog)
           /\ \A r \in DOMAIN rules : name \notin ToSet(rules[r].rulesets)
           /\ catalog' = [catalog EXCEPT ![i].name = name]
           => Routed(groups', rulesets') = Routed(groups, rulesets)]_vars

\* The rules tab rebuilds all groups; the default group is not one of its own
\* and stays, even if a ruleset is called `default' (UpstreamsTab.jsx:87 and 102).
\* The panel shows and edits a client subnet the server never reads; the one of
\* the configuration file stays with the default group, whichever tab edits and
\* whatever is saved in between (setDefaultGroup, BasicTab.jsx:16-18).
DefaultKept ==
    [][dirty' => /\ tab # "basic" => groups'[Default] = groups[Default]
                 /\ groups'[Default].snake = server.groups[Default].snake]_vars

\* To type a key in a row changes that row and no other, and no row moves
\* (KeyValueEditor, ListEditor.jsx:48-52), if neither the old nor the new key
\* is a whole number and no other row has the new one.
TypingStaysInRow ==
    [][\A i \in DOMAIN hosts, key \in Key \ (ToSet(Index) \cup Keys(hosts)) :
           /\ tab = "hosts" /\ dirty'
           /\ hosts[i].key \notin ToSet(Index)
           /\ key \in Keys(hosts') /\ hosts[i].key \notin Keys(hosts')
           => hosts' = [hosts EXCEPT ![i].key = key]]_vars

---------------------------------------------------------------------------
(* Bounds *)

\* The lists stay short; the names, which share nothing with the groups and the
\* rules, are not edited together with them; nothing follows the last edit if
\* there was a save before it.
Small ==
    /\ server \in Files \/ edits < MaxEdits
    /\ Len(catalog) <= MaxRows
    /\ Len(rules) <= MaxRules
    /\ Len(hosts) <= MaxRows
    /\ \/ hosts = FromServer(server.hosts)
       \/ groups = server.groups /\ rulesets = server.rulesets
=============================================================================
