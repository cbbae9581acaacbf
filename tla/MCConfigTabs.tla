--------------------------- MODULE MCConfigTabs ---------------------------
(* Small instances of ConfigTabs: files a user may have written by hand. *)
EXTENDS ConfigTabs

CONSTANTS none

MCName == {<<>>, <<"cn">>, <<"default">>}
MCPath == {"a/cn", "b/cn", "c/ad"}
MCBaseOf == [p \in MCPath |-> IF p = "c/ad" THEN "ad" ELSE "cn"]

MCIndex == <<"10">>
MCSorted == <<"", "10", "nas", "tv">>

PlainGroup(s) == [settings |-> s, kebab |-> none, snake |-> none]
Entry(p, g) == [path |-> p, upstream |-> <<g>>]

\* One group for two neighbours and a third that stands apart, two files of one
\* base name, an entry of the default group, a subnet in the file.
Apart ==
    [groups   |-> (<<"default">> :> [PlainGroup("s0") EXCEPT !.snake = "net"])
                  @@ (<<"x">> :> PlainGroup("s2")) @@ (<<"y">> :> PlainGroup("s0")),
     rulesets |-> <<Entry("a/cn", "x"), Entry("b/cn", "y"), Entry("c/ad", "x")>>,
     hosts    |-> <<[key |-> "nas", value |-> "ip1"], [key |-> "10", value |-> "ip2"]>>]

Together ==
    [groups   |-> (<<"default">> :> PlainGroup("s0")) @@ (<<"x">> :> PlainGroup("s2")),
     rulesets |-> <<Entry("a/cn", "x"), Entry("c/ad", "x"), Entry("a/cn", "default")>>,
     hosts    |-> <<[key |-> "nas", value |-> "ip1"], [key |-> "tv", value |-> "ip2"]>>]

MCFiles == {Apart, Together}
=============================================================================
