----------------------------- MODULE MCRuntime -----------------------------
(* Runtime for TLC: a few configurations that differ from one another in   *)
(* each field, and in several at once.                                     *)
EXTENDS Runtime, TLC

off == [backend |-> Off, lan |-> FALSE]
nft == [backend |-> "nftables", lan |-> FALSE]
nftLan == [backend |-> "nftables", lan |-> TRUE]
iptLan == [backend |-> "iptables", lan |-> TRUE]
body(routing, port, fw, d, manage) ==
    [routing |-> routing, port |-> port, fw |-> fw, dhcp |-> d, manage |-> manage]

MCFactory == body("r1", 53, nft, "d1", TRUE)
MCBody == {MCFactory,
           body("r2", 5353, nftLan, "d2", FALSE),
           body("r2", 53, iptLan, "d3", TRUE),
           body("r1", 53, off, "d3", TRUE)}
\* d2 and d3 share their search domain.
MCDomainOf == [d1 |-> "lan", d2 |-> "home", d3 |-> "home"]
MCHash == {"h1", "h2"}

\* After a crash only updates that succeed one at a time are looked at, and
\* after a firewall tool or a write of resolv.conf failed only restarts.
Orderly ==
    up => /\ "crash" \in blame => blame \cap {"overlap", "failed"} = {}
          /\ blame \cap {"spilled", "hurt"} # {} => \A c \in Call : call[c] = Idle

\* The rules and resolv.conf, as long as a property says something of them.
Traces == <<IF blame \cap {"crash", "spilled"} = {} THEN rules ELSE {"any"},
            IF "buried" \in blame THEN "any" ELSE <<resolv, "hurt" \in blame>>,
            "crash" \in blame>>

\* What the properties still depend on once updates overlapped or failed: not
\* on password hashes, and not on what the router and DHCP were given.  The
\* handlers at work are told apart by what they do, not by who they are.
Seen(cfg) == [cfg EXCEPT !.hash = "h1"]
Waiting(c) == IF call[c] = Idle THEN <<"idle">>
              ELSE <<call[c].at, Seen(call[c].old), Seen(call[c].new)>>
Bag(f) == {<<x, Cardinality({c \in Call : f[c] = x})>> : x \in {f[c] : c \in Call}}
\* A daemon that is down is made anew from the file.
View == IF ~up THEN <<disk, Traces>>
        ELSE IF blame \subseteq Lasting
        THEN <<disk, config, auth, core, guard, up, Traces, Bag(call)>>
        ELSE <<Seen(disk), Seen(config), hosts, listener.port, guard, up, Traces,
               Bag([c \in Call |-> Waiting(c)])>>
=============================================================================
