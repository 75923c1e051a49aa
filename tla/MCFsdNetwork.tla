---------------------------- MODULE MCFsdNetwork ----------------------------
(***************************************************************************)
(* Three servers.  They start either as processes do, knowing nobody, or   *)
(* after their connections, feeds and first SYNC packets: everybody known, *)
(* every route the shortest, and every packet count up to date.            *)
(***************************************************************************)
EXTENDS FsdNetwork

CONSTANTS
    s1, s2, s3, c1, c2, m1, m2, g1,
    FirstCount,   \* the packet count the servers have reached by then
    Scenarios     \* the networks and budgets to start from

Ring == {<<s1, s2>>, <<s2, s3>>, <<s3, s1>>}
Chain == {<<s1, s2>>, <<s3, s2>>}
Pair == {<<s2, s1>>}

\* c1 logs in at s1 and c2 at s3.
Homes == [c \in Callsigns |-> IF c = c1 THEN {s1} ELSE {s3}]

\* m1 is for everybody and m2 for the client c1.
Addressees == [m \in Messages |-> IF m = m1 THEN Everyone ELSE c1]

BothWays(pairs) == pairs \cup {<<l[2], l[1]>> : l \in pairs}

\* The neighbour through which s reaches o when all is settled.
Via(ends, s, o) ==
    IF <<s, o>> \in ends THEN o
    ELSE CHOOSE n \in Servers : {<<s, n>>, <<n, o>>} \subseteq ends

Settled(ends, s, o) ==
    IF s = o THEN Fresh
    ELSE [path |-> Via(ends, s, o), hops |-> IF <<s, o>> \in ends THEN 1 ELSE 2,
          pcount |-> FirstCount - 1, drops |-> 0]

Home(c) == CHOOSE s \in Sites[c] : TRUE

StartOf(x) ==
    /\ table = [s \in Servers |-> [o \in Servers |-> Settled(x.ends, s, o)]]
    /\ clients = [s \in Servers |->
                     [c \in Callsigns |-> IF c \in x.online THEN Home(c) ELSE NoServer]]
    /\ links = x.ends
    /\ left = x.left

SettledInit ==
    /\ \E x \in Scenarios : StartOf(x)
    /\ count = [s \in Servers |-> FirstCount]
    /\ started = Servers
    /\ knocks = {}
    /\ wire = [l \in Channels |-> <<>>]
    /\ said = [m \in Messages |-> NoServer]
    /\ heard = [s \in Servers |-> [m \in Messages |-> 0]]

SettledSpec == SettledInit /\ [][Next]_netVars
-----------------------------------------------------------------------------
(***************************************************************************)
(* Scenarios.  A budget names what the environment may do and how often.   *)
(***************************************************************************)
Spend1(chores) == [k \in Chores |-> IF k \in chores THEN 1 ELSE 0]

From(pairs, online, budget) ==
    [ends |-> BothWays(pairs), online |-> online, left |-> budget]

NoScenario == {}

Flooding ==
    {From(Ring, {}, Spend1({"sync", "login", "logout", "say"})),
     From(Ring, {c1, c2}, [Spend1({"say"}) EXCEPT !["sync"] = 2])}

Failing ==
    {From(Ring, {}, Spend1({"fail", "login", "logout", "say"})),
     From(Chain, {}, Spend1({"connect", "fail", "login", "logout"}))}

Rebooting == {From(Ring, {}, Spend1({"connect", "crash", "login"}))}

Wrapping == {From(Chain, {}, Spend1({"sync", "login"}))}

RestartBudget ==
    [Spend1(Chores \ {"fail", "say"}) EXCEPT !["connect"] = 2, !["login"] = 2]

NoBudget == Spend1({})
=============================================================================
