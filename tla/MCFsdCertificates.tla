-------------------------- MODULE MCFsdCertificates --------------------------
(***************************************************************************)
(* Three servers in a chain.  s1 trusts only s2, and does not list itself; *)
(* the clock of s2 is a second ahead of the others.                        *)
(***************************************************************************)
EXTENDS FsdCertificates, TLC

CONSTANTS s1, s2, s3, g1, pilot, one, other, low, high

Chain == {<<s1, s2>>, <<s3, s2>>}

Zones == [s \in Servers |-> IF s = s2 THEN 1 ELSE 0]

Trusts == [s \in Servers |-> IF s = s1 THEN {s2} ELSE Servers]

\* Passwords and levels are only ever compared with each other.
Renaming == Permutations(Passwords) \cup Permutations(Levels)

\* How often the environment does what: in one run in several ways.
CONSTANT Budgets

Of(command, files, connects, fails, crashes, drops) ==
    [k \in Chores |-> CASE k = "command" -> command [] k = "file" -> files
                        [] k = "connect" -> connects [] k = "fail" -> fails
                        [] k = "crash" -> crashes [] k = "drop" -> drops]

Most == Of(3, 1, 3, 1, 1, 1)

Mixed == {Of(3, 0, 2, 0, 0, 0), Of(1, 1, 2, 0, 0, 0), Of(2, 0, 3, 1, 0, 0),
          Of(1, 1, 3, 0, 1, 0), Of(2, 0, 2, 0, 0, 1)}

MCInit ==
    /\ certs = [s \in Servers |-> Empty]
    /\ file = [s \in Servers |-> Empty]
    /\ clock = 0
    /\ links = {}
    /\ knocks = {}
    /\ wire = [l \in Channels |-> <<>>]
    /\ issued = {}
    /\ authors = {}
    /\ deleted = {}
    /\ backdated = {}
    /\ dropped = {}
    /\ lost = FALSE
    /\ left \in Budgets

MCSpec == MCInit /\ [][Next]_vars
=============================================================================
