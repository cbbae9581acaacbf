----------------------------- MODULE RulesTab -----------------------------
(***************************************************************************)
(* The tab for rulesets and DNS rules of the web panel,                    *)
(* src/web/ui/src/pages/config/UpstreamsTab.jsx.  The configuration it     *)
(* edits has named groups of servers and a list of entries (path of a      *)
(* ruleset file, name of a group).  The tab shows something else: a        *)
(* catalog of names for files, and rules that tick names and carry the     *)
(* settings of a group of their own.  fromBackend makes the second out of  *)
(* the first when the tab is mounted; every edit writes the whole of the   *)
(* first anew with commitToConfig.  Names in the catalog are the tab's     *)
(* own: they are not saved, fromBackend makes them up from the paths.      *)
(*                                                                         *)
(* A name is a sequence: <<>> is the empty string, <<"cn">> a word,        *)
(* <<"cn", -2>> stands for cn_2 and <<"cn", 2>> for cn-2.  `settings'      *)
(* stands for the servers, the strategy and the insecure flag of a group,  *)
(* which go together; the client subnet is kept apart, since the panel     *)
(* spells it `client-subnet' and the server `client_subnet' (UpstreamGroup *)
(* has no rename_all): a group as JSON may carry either.                   *)
(***************************************************************************)
EXTENDS Lists

CONSTANTS
    Name,      \* names a user may type, the empty one among them
    Path,      \* paths of ruleset files
    Typed,     \* those a user may type
    BaseOf,    \* BaseOf[p]: the file name of p without its extension
    Settings,  \* servers, strategy and insecure flag of a group
    Blank,     \* the settings of a rule just added
    Subnet,    \* client subnets
    Null

ASSUME NameAssumption == <<>> \in Name /\ \A n \in Name : n \in Seq(ToSet(n))
ASSUME PathAssumption == Typed \subseteq Path /\ Null \notin Path
ASSUME BaseAssumption == BaseOf \in [Path -> STRING]
ASSUME SettingsAssumption == Blank \in Settings /\ Null \notin Subnet

VARIABLES
    groups,    \* the draft's groups, a function on names
    rulesets,  \* the draft's entries
    catalog,   \* [name, path], as the tab shows them
    rules      \* [rulesets, settings, subnet], as the tab shows them

tabVars == <<groups, rulesets, catalog, rules>>

Default == <<"default">>
Ecs == Subnet \cup {Null}

Names(cat) == {cat[i].name : i \in DOMAIN cat}
Paths(cat) == {cat[i].path : i \in DOMAIN cat}

---------------------------------------------------------------------------
(* fromBackend *)

\* The name for a path not seen before: its base name, or that with the first
\* number from 2 on that is free.
NewName(cat, path) ==
    LET base == <<BaseOf[path]>>
        free == {i \in 2..(Len(cat) + 2) : base \o <<-i>> \notin Names(cat)}
    IN IF base \notin Names(cat) THEN base ELSE base \o <<-MinOf(free)>>

\* The catalog of a list of entries: a path without a name gets one.
CatalogOf(entries) ==
    LET made[i \in 0..Len(entries)] ==
            IF i = 0 THEN <<>>
            ELSE LET cat == made[i - 1]
                     path == entries[i].path
                 IN IF path \in Paths(cat) THEN cat
                    ELSE Append(cat, [name |-> NewName(cat, path), path |-> path])
    IN made[Len(entries)]

\* The places of the entries that begin a rule, and those of such a rule:
\* entries of one group that follow each other make one.
Starts(entries) ==
    {i \in DOMAIN entries : i > 1 => entries[i].upstream # entries[i - 1].upstream}
Run(entries, i) ==
    {j \in DOMAIN entries : i <= j /\ \A k \in i + 1..j : k \notin Starts(entries)}

FromBackend(grps, entries) ==
    LET cat == CatalogOf(entries)
        nameAt == [i \in DOMAIN entries |->
                      cat[CHOOSE c \in DOMAIN cat : cat[c].path = entries[i].path].name]
        ruleAt == [i \in DOMAIN entries |->
                      LET known == entries[i].upstream \in DOMAIN grps
                      IN [rulesets |-> FirstAmong(nameAt, Run(entries, i)),
                          settings |-> IF known THEN grps[entries[i].upstream].settings ELSE Blank,
                          subnet   |-> IF known THEN grps[entries[i].upstream].kebab ELSE Null]]
    IN [catalog |-> cat, rules |-> At(ruleAt, Starts(entries))]

\* The tab is mounted, or goes.
Mount(grps, entries) ==
    LET boot == FromBackend(grps, entries)
    IN catalog' = boot.catalog /\ rules' = boot.rules

Unmount == catalog' = <<>> /\ rules' = <<>>

---------------------------------------------------------------------------
(* commitToConfig *)

\* Mutant of GroupNameForRule: no look at the names given before.
GroupNameTaken(rule, i, used) ==
    IF rule.rulesets # <<>> /\ rule.rulesets[1] # <<>>
    THEN rule.rulesets[1] ELSE <<"rule", i>>

\* The name of the first ruleset, or rule-i; a number is put behind it if an
\* earlier rule has it.
GroupNameForRule(rule, i, used) ==
    LET numbered == <<"rule", i>>
        base == IF rule.rulesets # <<>> /\ rule.rulesets[1] # <<>>
                THEN rule.rulesets[1] ELSE numbered
        name == IF base = Default THEN numbered ELSE base
        free == {j \in 2..(Cardinality(used) + 2) : base \o <<j>> \notin used}
    IN IF name \notin used THEN name ELSE base \o <<MinOf(free)>>

\* The names of the groups of all rules, in order.
GroupNames(rs) ==
    LET given[i \in 0..Len(rs)] ==
            IF i = 0 THEN <<>>
            ELSE LET before == given[i - 1]
                 IN Append(before, GroupNameForRule(rs[i], i, {Default} \cup ToSet(before)))
    IN given[Len(rs)]

\* Of two entries of one name the later counts.
PathOf(cat, name) == cat[MaxOf({i \in DOMAIN cat : cat[i].name = name})].path

\* Mutant of GroupOf: the subnet goes under the server's spelling.
GroupOfSnake(rule) == [settings |-> rule.settings, kebab |-> Null, snake |-> rule.subnet]

\* The group of a rule: the subnet goes under the panel's spelling.
GroupOf(rule) == [settings |-> rule.settings, kebab |-> rule.subnet, snake |-> Null]

\* What a rule routes: the paths of its names, in order.  A name that is not in
\* the catalog has none, and an empty path counts as none.
PathsOf(cat, rule) ==
    LET named == Only(rule.rulesets, {n \in Names(cat) : PathOf(cat, n) # Null})
    IN [i \in DOMAIN named |-> PathOf(cat, named[i])]

CommitToConfig(cat, rs) ==
    LET given == GroupNames(rs)
        groupAt(n) == MaxOf({i \in DOMAIN rs : given[i] = n})
    IN /\ groups' = [n \in {Default} \cup ToSet(given) |->
                        IF n \in ToSet(given) THEN GroupOf(rs[groupAt(n)]) ELSE groups[Default]]
       /\ rulesets' = FlattenSeq([i \in DOMAIN rs |->
                          LET paths == PathsOf(cat, rs[i])
                          IN [k \in DOMAIN paths |-> [path |-> paths[k], upstream |-> given[i]]]])

Commit(cat, rs) ==
    /\ catalog' = cat
    /\ rules' = rs
    /\ CommitToConfig(cat, rs)

---------------------------------------------------------------------------
(* What the user does in the tab *)

AddCatalogEntry(name, path) ==
    /\ name # <<>> /\ path # Null
    /\ name \notin Names(catalog)
    /\ Commit(Append(catalog, [name |-> name, path |-> path]), rules)

\* Mutant of EditName: the rules are left as they are.
EditNameOnly(i, name) ==
    /\ name # catalog[i].name
    /\ Commit([catalog EXCEPT ![i].name = name], rules)

\* The name of an entry is typed or pasted over.  The rules follow, unless the
\* new name is empty; that another entry has it is not looked at.
EditName(i, name) ==
    /\ name # catalog[i].name
    /\ Commit([catalog EXCEPT ![i].name = name],
              IF name = <<>> THEN rules
              ELSE [r \in DOMAIN rules |->
                       [rules[r] EXCEPT !.rulesets = ReplaceAll(@, catalog[i].name, name)]])

EditPath(i, path) ==
    /\ path # catalog[i].path
    /\ Commit([catalog EXCEPT ![i].path = path], rules)

RemoveCatalogEntry(i) ==
    LET name == catalog[i].name
    IN Commit(RemoveAt(catalog, i),
              [r \in DOMAIN rules |->
                  [rules[r] EXCEPT !.rulesets = Without(@, {name})]])

EmptyRule == [rulesets |-> <<>>, settings |-> Blank, subnet |-> Null]

\* The button is disabled as long as the catalog is empty.
AddRule ==
    /\ catalog # <<>>
    /\ Commit(catalog, Append(rules, EmptyRule))

\* A name is ticked, and goes to the end, or unticked; the list goes through a
\* set, so that a name it had twice is there once.
ToggleRuleset(i, name) ==
    LET once == FirstOnes(rules[i].rulesets)
    IN Commit(catalog,
              [rules EXCEPT ![i].rulesets =
                  IF Contains(once, name) THEN Without(once, {name}) ELSE Append(once, name)])

\* The servers, the strategy or the insecure flag of a rule.
EditSettings(i, s) ==
    /\ s # rules[i].settings
    /\ Commit(catalog, [rules EXCEPT ![i].settings = s])

EditSubnet(i, s) ==
    /\ s # rules[i].subnet
    /\ Commit(catalog, [rules EXCEPT ![i].subnet = s])

RemoveRule(i) == Commit(catalog, RemoveAt(rules, i))

\* Up and down: the buttons are disabled at the ends.
MoveRule(i, j) ==
    /\ j \in {i - 1, i + 1} \cap DOMAIN rules
    /\ Commit(catalog, [rules EXCEPT ![i] = rules[j], ![j] = rules[i]])

RulesEdit ==
    \/ \E name \in Name, path \in Typed : AddCatalogEntry(name, path)
    \/ \E i \in DOMAIN catalog, name \in Name : EditName(i, name)
    \/ \E i \in DOMAIN catalog, path \in Typed \cup {Null} : EditPath(i, path)
    \/ \E i \in DOMAIN catalog : RemoveCatalogEntry(i)
    \/ AddRule
    \/ \E i \in DOMAIN rules, name \in Names(catalog) : ToggleRuleset(i, name)
    \/ \E i \in DOMAIN rules, s \in Settings : EditSettings(i, s)
    \/ \E i \in DOMAIN rules, s \in Ecs : EditSubnet(i, s)
    \/ \E i \in DOMAIN rules : RemoveRule(i)
    \/ \E i, j \in DOMAIN rules : MoveRule(i, j)
=============================================================================
