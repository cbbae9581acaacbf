----------------------------- MODULE HostsTab -----------------------------
(***************************************************************************)
(* The tab for static host names of the web panel,                         *)
(* src/web/ui/src/pages/config/HostsTab.jsx, and the KeyValueEditor of     *)
(* ListEditor.jsx it consists of.  The editor shows the entries of a       *)
(* JavaScript object as rows and makes a new object of the rows after each *)
(* edit.  An object is not a list of rows: two rows of one key are one     *)
(* entry, and keys that are whole numbers come first, in ascending order,  *)
(* wherever they were typed.                                               *)
(***************************************************************************)
EXTENDS Lists

CONSTANTS
    Key,       \* keys a user may type
    NoKey,     \* the empty key, in Key
    Index,     \* those keys that are whole numbers, a sequence in their order
    Sorted,    \* all keys, a sequence in the order of the server's answer
    Ip,        \* addresses
    NoIp       \* the empty value

ASSUME KeyAssumption ==
    /\ NoKey \in Key
    /\ Index \in Seq(Key \ {NoKey}) /\ IsInjective(Index)
    /\ Sorted \in Seq(Key) /\ Key \subseteq ToSet(Sorted)
ASSUME IpAssumption == NoIp \notin Ip

VARIABLE hosts  \* the draft's names: the entries of the object in their order

Keys(rows) == {rows[i].key : i \in DOMAIN rows}

\* Object.fromEntries and Object.entries, one after the other.
FromEntries(rows) ==
    LET order == FirstOnes([i \in DOMAIN rows |-> rows[i].key])
        last(k) == MaxOf({i \in DOMAIN rows : rows[i].key = k})
        keys == Only(Index, ToSet(order)) \o Without(order, ToSet(Index))
    IN [i \in DOMAIN keys |-> [key |-> keys[i], value |-> rows[last(keys[i])].value]]

\* The names as the server sends them, sorted, and as the page reads them.
FromServer(rows) ==
    LET keys == Only(Sorted, Keys(rows))
    IN FromEntries([i \in DOMAIN keys |->
                       CHOOSE row \in ToSet(rows) : row.key = keys[i]])

\* Mutant of SetKey: the row is taken out and put at the end.
SetKeyMoves(i, key) ==
    /\ key # hosts[i].key
    /\ hosts' = FromEntries(Append(RemoveAt(hosts, i), [hosts[i] EXCEPT !.key = key]))

SetKey(i, key) ==
    /\ key # hosts[i].key
    /\ hosts' = FromEntries([hosts EXCEPT ![i].key = key])

SetValue(i, value) ==
    /\ value # hosts[i].value
    /\ hosts' = FromEntries([hosts EXCEPT ![i].value = value])

RemoveRow(i) == hosts' = FromEntries(RemoveAt(hosts, i))

AddRow == hosts' = FromEntries(Append(hosts, [key |-> NoKey, value |-> NoIp]))

HostsEdit ==
    \/ \E i \in DOMAIN hosts, key \in Key : SetKey(i, key)
    \/ \E i \in DOMAIN hosts, value \in Ip \cup {NoIp} : SetValue(i, value)
    \/ \E i \in DOMAIN hosts : RemoveRow(i)
    \/ AddRow
=============================================================================
