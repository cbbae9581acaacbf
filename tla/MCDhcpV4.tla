------------------------------ MODULE MCDhcpV4 ------------------------------
(* DhcpV4 for TLC: dynamic clients a and b, and s with a static binding.   *)
EXTENDS DhcpV4, TLC

CONSTANTS a, b, s, na, nb
Nameless == [m \in Mac |-> NoName]
OwnNames == (a :> na) @@ (b :> nb)
OneStatic == [m \in Mac |-> IF m = s THEN 2 ELSE 0]
NoStatic == [m \in Mac |-> 0]

Symmetry == {p @@ q : p \in Permutations({a, b}), q \in Permutations(Task)}
TaskSymmetry == Permutations(Task)

\* Blame never goes away: what follows it is of no interest to AddressesApart.
Blameless == blame = {}

\* What the properties of the acked run read, and what decides it: no REQUEST
\* or RELEASE reads an offer.
Uncrossed == blame \cap {"crossed", "torn"} = {}
AckedView ==
    <<leases, file, torn, hosts, bound, Uncrossed,
      [t \in Task |-> IF task[t].at \in {"allocate", "offer"} THEN Idle ELSE task[t]]>>
=============================================================================
