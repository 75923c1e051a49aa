----------------------------- MODULE FsdNetwork -----------------------------
(***************************************************************************)
(* The network of FSD servers (src/fsd-server/fsd): servers joined by      *)
(* connections in any topology, cycles included, that flood what concerns  *)
(* everybody, drop the copies of what they have seen by a packet count per *)
(* origin, learn routes from the packets that pass, and each keep a copy   *)
(* of the register of clients.                                             *)
(*                                                                         *)
(* The two ends of a connection are separate objects (class servuser):     *)
(* <<s, n>> \in links says that s holds one for its neighbour n, and       *)
(* wire[<<s, n>>] is what s wrote and n has not read.  Of two servers one   *)
(* dials the other and may do so while the other still has the end of a    *)
(* connection that is gone; that end then goes on under the name of a      *)
(* stub, so that its owner can tell it from the new one, as the code does  *)
(* by its address.  A user logs in once on its connection, no server is    *)
(* silent, and the commands that only carry data to a user (PD, AD, PLAN,  *)
(* METAR...) are represented by MC, the message of a user to everybody or  *)
(* to one user.                                                            *)
(***************************************************************************)
EXTENDS Integers, Sequences, FiniteSets, SequencesExt

CONSTANTS
    Servers, Callsigns, Messages,
    Stubs,        \* names for ends whose other side is gone, a bound on them
    NoServer,     \* the null pointer to a server, or to the user of one
    Everyone,     \* the destination "*"
    Sites,        \* Sites[c]: the servers at which the client c logs in
    Addressee,    \* Addressee[m]: a callsign or Everyone
    Topology,     \* <<s, t>>: s is configured to connect to t
    MaxHops,      \* MAXHOPS, 10 in global.h
    MaxSpace,     \* MAXSPACE, 1000000 in servuser.cpp
    DropLimit,    \* the 100 of servuser.cpp: stale packets before giving in
    MaxCount,     \* the 2000000000 of incpacketcount
    Budget        \* how often the environment does each thing

Chores == {"connect", "fail", "crash", "sync", "login", "logout", "say", "timeout"}

ASSUME FsdAssumption ==
    /\ IsFiniteSet(Servers) /\ NoServer \notin Servers \cup Stubs
    /\ Servers \cap Stubs = {}
    /\ IsFiniteSet(Callsigns) /\ Everyone \notin Callsigns
    /\ Sites \in [Callsigns -> SUBSET Servers]
    /\ Addressee \in [Messages -> Callsigns \cup {Everyone}]
    /\ Topology \subseteq Servers \X Servers
    /\ \A l \in Topology : <<l[2], l[1]>> \notin Topology
    /\ {MaxHops, MaxSpace, DropLimit, MaxCount} \subseteq Nat \ {0}
    /\ Budget \in [Chores -> Nat]

\* The names a server may have for the other side of a connection.
Peers == Servers \cup Stubs

\* Who writes, and who reads.
Channels == Peers \X Servers

VARIABLES
    started,      \* the servers whose process has come to its main loop
    table,        \* table[s]: rootserver of s, what it keeps of each server
    count,        \* count[s]: packetcount
    clients,      \* clients[s][c]: where c is according to s, or NoServer
    links,        \* the ends of connections that are open
    knocks,       \* <<n, s>>: s has connected to n, and n has not accepted yet
    wire,         \* wire[<<s, n>>]: the packets from s that n has not read
    said,         \* said[m]: the server at which m was sent, or NoServer
    heard,        \* heard[s][m]: how often s delivered m, counted up to 2
    left          \* what is left of the budget

netVars == <<started, table, count, clients, links, knocks, wire, said, heard, left>>

NoHops == -1

\* What class server holds, besides its names: as its constructor leaves it.
Fresh == [path |-> NoServer, hops |-> NoHops, pcount |-> -1, drops |-> 0]

\* Mutant: the packet count survives the loss of the route.
SetPathKeepsCount(e, n, h) == [e EXCEPT !.path = n, !.hops = h]

SetPath(e, n, h) ==
    [e EXCEPT !.path = n, !.hops = h, !.pcount = IF n = NoServer THEN -1 ELSE @]

\* Mutant: only the hops are forgotten.
UnroutedKeepsPath(e) == [e EXCEPT !.hops = NoHops, !.pcount = -1]

Unrouted(e) == SetPath(e, NoServer, NoHops)

With(t, o, e) == [x \in DOMAIN t \cup {o} |-> IF x = o THEN e ELSE t[x]]

Neighbours(s) == {n \in Peers : <<s, n>> \in links}

Local(s) == {c \in Callsigns : clients[s][c] = s}
-----------------------------------------------------------------------------
(***************************************************************************)
(* Sending.  A send is a packet and the neighbours it is written to.       *)
(***************************************************************************)
Order(cmd, to, bi, data, over) ==
    [cmd |-> cmd, to |-> to, bi |-> bi, data |-> data, over |-> over]

Nothing == [servers |-> {}]

SyncTo(over) == Order("SYNC", Everyone, TRUE, Nothing, over)

NotifyTo(o, feed, over) ==
    Order("NOTIFY", Everyone, TRUE, [server |-> o, feed |-> feed], over)

LinkdownTo(gone, over) ==
    Order("LINKDOWN", Everyone, TRUE, [servers |-> gone], over)

\* A feed is written to one neighbour and keeps its U, a login is flooded.
AddClientTo(c, o, bi, over) ==
    Order("ADDCLIENT", Everyone, bi, [callsign |-> c, location |-> o], over)

\* Write an order into a packet of s with the count k.
Assemble(s, x, k) ==
    [cmd |-> x.cmd, to |-> x.to, from |-> s, pc |-> k, hc |-> 1, bi |-> x.bi,
     data |-> x.data]

(***************************************************************************)
(* The packets that s sends itself, in order.  The count goes up after     *)
(* each; past MaxCount a RESET follows, which everybody gets, and the      *)
(* count starts again from 0.                                              *)
(***************************************************************************)
CountOf(s, i) == (count[s] + i - 1) % (MaxCount + 1)

SendReset(s, k, over) ==
    [packet |-> Assemble(s, Order("RESET", Everyone, TRUE, Nothing, over), k),
     over |-> over]

Own(s, orders, users) ==
    FlattenSeq([i \in DOMAIN orders |->
        LET send == [packet |-> Assemble(s, orders[i], CountOf(s, i)),
                     over |-> orders[i].over]
        IN  IF CountOf(s, i) = MaxCount
            THEN <<send, SendReset(s, MaxCount + 1, users)>>
            ELSE <<send>>])

Counted(s, orders) ==
    count' = [count EXCEPT ![s] = (@ + Len(orders)) % (MaxCount + 1)]

\* What s writes to n: those of the packets that are for n, in their order.
Over(sends, n) ==
    FlattenSeq([i \in DOMAIN sends |->
        IF n \in sends[i].over THEN <<sends[i].packet>> ELSE <<>>])

\* What is written to a connection whose other end is gone is lost.
Transmit(s, sends, wires) ==
    wire' = [l \in Channels |->
                IF l[1] = s /\ <<l[2], s>> \in links' \cup knocks'
                THEN wires[l] \o Over(sends, l[2]) ELSE wires[l]]
-----------------------------------------------------------------------------
Spend(what) ==
    /\ left[what] > 0
    /\ left' = [left EXCEPT ![what] = @ - 1]

\* The server s broadcasts one packet of its own.
Announce(s, order) ==
    /\ Counted(s, <<order>>)
    /\ Transmit(s, Own(s, <<order>>, Neighbours(s)), wire)

\* The SYNC of every SYNCTIMEOUT.
Sync(s) ==
    /\ Spend("sync")
    /\ s \in started
    /\ UNCHANGED <<started, table, clients, links, knocks, said, heard>>
    /\ Announce(s, SyncTo(Neighbours(s)))

\* The NOTIFY of every NOTIFYCHECK.
Notify(s) ==
    /\ Spend("sync")
    /\ s \in started
    /\ UNCHANGED <<started, table, clients, links, knocks, said, heard>>
    /\ Announce(s, NotifyTo(s, FALSE, Neighbours(s)))

\* A client logs in; its callsign must be in use nowhere s knows of.
Login(s, c) ==
    /\ Spend("login")
    /\ s \in started \cap Sites[c]
    /\ clients[s][c] = NoServer
    /\ clients' = [clients EXCEPT ![s][c] = s]
    /\ UNCHANGED <<started, table, links, knocks, said, heard>>
    /\ Announce(s, AddClientTo(c, s, TRUE, Neighbours(s)))

\* A client leaves, or its connection is lost.
Logout(s, c) ==
    /\ Spend("logout")
    /\ clients[s][c] = s
    /\ clients' = [clients EXCEPT ![s][c] = NoServer]
    /\ UNCHANGED <<started, table, links, knocks, said, heard>>
    /\ Announce(s, Order("RMCLIENT", Everyone, TRUE, [callsign |-> c], Neighbours(s)))

\* Mutant: always everywhere, and not marked as a broadcast.
RouteFloods(s, c, bi, except) ==
    [bi |-> bi, over |-> IF clients[s][c] \in {NoServer, s} THEN {}
                         ELSE Neighbours(s) \ except]

\* Where s writes a packet for the client c: towards it, or everywhere.
Route(s, c, bi, except) ==
    LET n == table[s][clients[s][c]].path
    IN  CASE clients[s][c] \in {NoServer, s} -> [bi |-> bi, over |-> {}]
          [] OTHER -> IF n # NoServer THEN [bi |-> bi, over |-> {n}]
                                      ELSE [bi |-> TRUE, over |-> Neighbours(s) \ except]

\* A user of s sends a message; s delivers it to its own users at once.
Say(s, m) ==
    /\ Spend("say")
    /\ said[m] = NoServer
    /\ Local(s) # {}
    /\ Addressee[m] # Everyone => clients[s][Addressee[m]] # NoServer
    /\ said' = [said EXCEPT ![m] = s]
    /\ heard' = [heard EXCEPT ![s][m] =
                     IF Addressee[m] \in Local(s) \cup {Everyone} THEN 1 ELSE 0]
    /\ UNCHANGED <<started, table, clients, links, knocks>>
    /\ LET way == IF Addressee[m] = Everyone THEN [bi |-> TRUE, over |-> Neighbours(s)]
                  ELSE Route(s, Addressee[m], FALSE, {})
       IN  Announce(s, Order("MC", Addressee[m], way.bi, [message |-> m], way.over))
-----------------------------------------------------------------------------
\* Mutant: the clients are not fed.
FeedServersOnly(s, n) ==
    LET others == SetToSeq(DOMAIN table[s] \ {s})
    IN  [i \in DOMAIN others |-> NotifyTo(others[i], TRUE, {n})]
        \o <<NotifyTo(s, FALSE, {n})>>

(***************************************************************************)
(* Connections.                                                            *)
(***************************************************************************)
\* The feed to a new neighbour: the servers, this one last, then the clients.
Feed(s, n) ==
    LET others == SetToSeq(DOMAIN table[s] \ {s})
        known  == SetToSeq({c \in Callsigns : clients[s][c] # NoServer})
    IN  [i \in DOMAIN others |-> NotifyTo(others[i], TRUE, {n})]
        \o <<NotifyTo(s, FALSE, {n})>>
        \o [i \in DOMAIN known |->
               AddClientTo(known[i], clients[s][known[i]], FALSE, {n})]

\* The constructor of servuser: the new user is not in the list yet.  before
\* and wires are the other ends and what is under way.
NewUser(s, n, before, wires) ==
    /\ links' = before \cup {<<s, n>>}
    /\ Counted(s, Feed(s, n))
    /\ UNCHANGED <<started, clients, said, heard>>
    /\ Transmit(s, Own(s, Feed(s, n), Neighbours(s)), wires)

(***************************************************************************)
(* s dials n: in makeconnections, before it comes to its main loop, or     *)
(* later at an operator's command.  It asks nobody but its own list.       *)
(***************************************************************************)
Connect(s, n) ==
    /\ Spend("connect")
    /\ <<s, n>> \in Topology
    /\ <<s, n>> \notin links
    /\ <<n, s>> \notin links \cup knocks
    /\ knocks' = knocks \cup {<<n, s>>}
    /\ UNCHANGED table
    /\ NewUser(s, n, links, wire)

\* The end that n has from s is from now on called g.
Renamed(n, s, g, l) == IF l = <<n, s>> THEN <<n, g>> ELSE l

(***************************************************************************)
(* s dials n although n still has the end of their former connection, or   *)
(* has not even accepted that one yet.  For n nothing changes but the name *)
(* of that end, which leads to s no more.                                  *)
(***************************************************************************)
Reconnect(s, n, g) ==
    /\ Spend("connect")
    /\ <<s, n>> \in Topology
    /\ <<s, n>> \notin links
    /\ <<n, s>> \in links \cup knocks
    /\ <<n, g>> \notin links \cup knocks
    /\ knocks' = {Renamed(n, s, g, l) : l \in knocks} \cup {<<n, s>>}
    /\ table' = [table EXCEPT ![n] = [o \in DOMAIN @ |->
                    IF @[o].path = s THEN [@[o] EXCEPT !.path = g] ELSE @[o]]]
    /\ NewUser(s, n, {Renamed(n, s, g, l) : l \in links},
               [wire EXCEPT ![<<g, n>>] = wire[<<s, n>>], ![<<s, n>>] = <<>>])

\* The end of makeconnections: everybody s has dialled is told to count from
\* 0, and so does s.
Start(s) ==
    /\ s \notin started
    /\ started' = started \cup {s}
    /\ count' = [count EXCEPT ![s] = 0]
    /\ UNCHANGED <<table, clients, links, knocks, said, heard, left>>
    /\ Transmit(s, <<SendReset(s, count[s], Neighbours(s))>>, wire)

\* Mutant: a connection can be accepted again.
AcceptAgain(n, s) ==
    /\ n \in started
    /\ <<n, s>> \in knocks
    /\ UNCHANGED <<table, knocks, left>>
    /\ NewUser(n, s, links, wire)

Accept(n, s) ==
    /\ n \in started
    /\ <<n, s>> \in knocks
    /\ knocks' = knocks \ {<<n, s>>}
    /\ UNCHANGED <<table, left>>
    /\ NewUser(n, s, links, wire)

\* The destructor of servuser.
RemoveUser(s, n) ==
    LET gone   == {o \in DOMAIN table[s] : table[s][o].path = n}
        others == Neighbours(s) \ {n}
        orders == (IF gone = {} THEN <<>> ELSE <<LinkdownTo(gone, others)>>)
                      \o <<SyncTo(others)>>
    IN  /\ s \in started
        /\ links' = links \ {<<s, n>>}
        /\ table' = [table EXCEPT ![s] = [o \in DOMAIN @ |->
                        IF o \in gone THEN Unrouted(@[o]) ELSE @[o]]]
        /\ Counted(s, orders)
        /\ UNCHANGED <<started, clients, knocks, said, heard>>
        /\ Transmit(s, Own(s, orders, others), [wire EXCEPT ![<<n, s>>] = <<>>])

\* s closes a connection: an error, or nothing was heard for USERTIMEOUT.
Fail(s, n) ==
    /\ Spend("fail")
    /\ <<s, n>> \in links
    /\ <<n, s>> \in links \cup knocks
    /\ RemoveUser(s, n)

\* s finds that n has closed; what it has not read yet may be lost.
Close(s, n) ==
    /\ <<s, n>> \in links
    /\ <<n, s>> \notin links \cup knocks
    /\ UNCHANGED left
    /\ RemoveUser(s, n)

\* The process of s dies, and starts again with nothing.  Who it had dialled
\* may still accept the connection, and read what it wrote.
Crash(s) ==
    /\ Spend("crash")
    /\ started' = started \ {s}
    /\ links' = {l \in links : l[1] # s}
    /\ knocks' = {l \in knocks : l[1] # s}
    /\ table' = [table EXCEPT ![s] = [o \in {s} |-> Fresh]]
    /\ count' = [count EXCEPT ![s] = 0]
    /\ clients' = [clients EXCEPT ![s] = [c \in Callsigns |-> NoServer]]
    /\ wire' = [l \in Channels |->
                   IF l[2] = s \/ (l[1] = s /\ <<l[2], s>> \notin links \cup knocks)
                   THEN <<>> ELSE wire[l]]
    /\ UNCHANGED <<said, heard>>
-----------------------------------------------------------------------------
(***************************************************************************)
(* Receiving: servuser::doparse.  First the packet count filter, on what s *)
(* keeps of the origin of the packet p that came from n.                   *)
(***************************************************************************)
Rerouted(e, n, p) ==
    IF p.hc < e.hops \/ e.hops = NoHops THEN SetPath(e, n, p.hc) ELSE e

Stale(e, p) == p.pc <= e.pcount \/ p.pc > e.pcount + MaxSpace

\* Mutant: only the last packet is recognised.
SeenLast(e, p) == Stale(e, p) /\ p.pc = e.pcount

\* Mutant: stale packets to a single user are dropped too.
SeenAny(e, p) == Stale(e, p)

Seen(e, p) ==
    /\ Stale(e, p)
    /\ \/ p.pc = e.pcount
       \/ p.bi /\ (e.drops < DropLimit \/ p.pc > e.pcount + MaxSpace)

DropCounted(e) == [e EXCEPT !.drops = IF @ < DropLimit THEN @ + 1 ELSE @]

\* Mutant: the count that is kept is the next one.
PassedNext(e, n, p) ==
    [SetPath(e, n, p.hc) EXCEPT !.pcount = p.pc + 1, !.drops = 0]

Passed(e, n, p) ==
    LET c == [e EXCEPT !.pcount =
                 IF e.drops >= DropLimit \/ p.pc > e.pcount THEN p.pc ELSE @]
    IN  IF p.bi THEN [SetPath(c, n, p.hc) EXCEPT !.drops = 0] ELSE c

\* Is the packet for the users of s?
NeedLocalDelivery(s, p) == p.to \in {Everyone} \cup Local(s)

\* Mutant: what is for everybody does not go on.
RelayUnicastOnly(s, n, p) ==
    LET way == Route(s, p.to, p.bi, {n})
    IN  IF p.to = Everyone THEN <<>>
        ELSE <<[packet |-> [p EXCEPT !.hc = @ + 1, !.bi = way.bi], over |-> way.over]>>

\* The packet goes on, one hop further: to all others, or towards a client.
Relay(s, n, p) ==
    LET way == IF p.to = Everyone THEN [bi |-> TRUE, over |-> Neighbours(s) \ {n}]
               ELSE Route(s, p.to, p.bi, {n})
    IN  <<[packet |-> [p EXCEPT !.hc = @ + 1, !.bi = way.bi], over |-> way.over]>>

(***************************************************************************)
(* The commands.  t is the table of s after the filter.                    *)
(***************************************************************************)
Notified(s, n, p, t) ==
    LET o == p.data.server
        e == IF o \in DOMAIN t THEN t[o] ELSE Fresh
    IN  IF o = s THEN t
        ELSE With(t, o, IF p.data.feed \/ (e.hops > NoHops /\ p.hc >= e.hops) THEN e
                        ELSE SetPath(e, n, p.hc))

\* Mutant: LINKDOWN is not acted upon.
DownedNot(n, p, t) == t

Downed(n, p, t) ==
    [o \in DOMAIN t |-> IF o \in p.data.servers /\ t[o].path = n THEN Unrouted(t[o])
                        ELSE t[o]]

\* The commands that only change the table: NOTIFY, SYNC, RESET.
Tabled(s, n, p, t) ==
    CASE p.cmd = "NOTIFY" -> Notified(s, n, p, t)
      [] p.cmd = "RESET"  -> [t EXCEPT ![p.from].pcount = 0]
      [] OTHER            -> t

Taken(n, s) == [wire EXCEPT ![<<n, s>>] = Tail(@)]

Update(s, t) == table' = [table EXCEPT ![s] = t]

Forward(s, n, p) ==
    /\ UNCHANGED count
    /\ Transmit(s, Relay(s, n, p), Taken(n, s))

Consume(s, n) ==
    /\ UNCHANGED count
    /\ wire' = Taken(n, s)

ExecTable(s, n, p, t) ==
    /\ p.cmd \in {"NOTIFY", "SYNC", "RESET"}
    /\ Update(s, Tabled(s, n, p, t))
    /\ UNCHANGED <<clients, heard>>
    /\ Forward(s, n, p)

\* execlinkdown answers with a SYNC before the packet goes on.
ExecLinkdown(s, n, p, t) ==
    /\ p.cmd = "LINKDOWN"
    /\ Update(s, Downed(n, p, t))
    /\ UNCHANGED <<clients, heard>>
    /\ LET sync == <<SyncTo(Neighbours(s))>>
       IN  /\ Counted(s, sync)
           /\ Transmit(s, Own(s, sync, Neighbours(s)) \o Relay(s, n, p), Taken(n, s))

\* A client that s knows already is not added, and the packet goes no further.
ExecAddClient(s, n, p, t) ==
    /\ p.cmd = "ADDCLIENT"
    /\ Update(s, t)
    /\ UNCHANGED heard
    /\ LET c == p.data.callsign
           o == p.data.location
       IN  \/ /\ o \notin DOMAIN t \ {s}
              /\ UNCHANGED clients
              /\ Forward(s, n, p)
           \/ /\ o \in DOMAIN t \ {s}
              /\ clients[s][c] = NoServer
              /\ clients' = [clients EXCEPT ![s][c] = o]
              /\ Forward(s, n, p)
           \/ /\ o \in DOMAIN t \ {s}
              /\ clients[s][c] # NoServer
              /\ UNCHANGED clients
              /\ Consume(s, n)

ExecRmClient(s, n, p, t) ==
    /\ p.cmd = "RMCLIENT"
    /\ Update(s, t)
    /\ clients' = [clients EXCEPT ![s][p.data.callsign] = IF @ = s THEN @ ELSE NoServer]
    /\ UNCHANGED heard
    /\ Forward(s, n, p)

ExecMulticast(s, n, p, t) ==
    /\ p.cmd = "MC"
    /\ Update(s, t)
    /\ heard' = [heard EXCEPT ![s][p.data.message] = IF @ < 2 THEN @ + 1 ELSE @]
    /\ UNCHANGED clients
    /\ Forward(s, n, p)

\* What happens to a packet that is not discarded.
RunCmd(s, n, p, t) ==
    \/ /\ ~NeedLocalDelivery(s, p)
       /\ Update(s, t)
       /\ UNCHANGED <<clients, heard>>
       /\ Forward(s, n, p)
    \/ /\ NeedLocalDelivery(s, p)
       /\ \/ ExecTable(s, n, p, t)
          \/ ExecLinkdown(s, n, p, t)
          \/ ExecAddClient(s, n, p, t)
          \/ ExecRmClient(s, n, p, t)
          \/ ExecMulticast(s, n, p, t)

\* A packet that made too many hops, or came back to its origin.
Discard(s, n, p) ==
    /\ p.hc > MaxHops \/ p.from = s
    /\ UNCHANGED <<table, clients, heard>>
    /\ Consume(s, n)

\* A packet of a server that s does not know: only NOTIFY is let in.
FromStranger(s, n, p) ==
    /\ p.hc <= MaxHops
    /\ p.from \notin DOMAIN table[s]
    /\ \/ /\ p.cmd = "NOTIFY"
          /\ RunCmd(s, n, p, table[s])
       \/ /\ p.cmd # "NOTIFY"
          /\ UNCHANGED <<table, clients, heard>>
          /\ Consume(s, n)

FromKnown(s, n, p) ==
    /\ p.hc <= MaxHops
    /\ p.from \in DOMAIN table[s] \ {s}
    /\ LET e == Rerouted(table[s][p.from], n, p)
       IN  \/ /\ Seen(e, p)
              /\ Update(s, With(table[s], p.from, DropCounted(e)))
              /\ UNCHANGED <<clients, heard>>
              /\ Consume(s, n)
           \/ /\ ~Seen(e, p)
              /\ RunCmd(s, n, p, With(table[s], p.from, Passed(e, n, p)))

Receive(s, n) ==
    /\ s \in started
    /\ <<s, n>> \in links
    /\ wire[<<n, s>>] # <<>>
    /\ UNCHANGED <<started, links, knocks, said, left>>
    /\ LET p == Head(wire[<<n, s>>])
       IN  Discard(s, n, p) \/ FromStranger(s, n, p) \/ FromKnown(s, n, p)
-----------------------------------------------------------------------------
(***************************************************************************)
(* Timeouts: fsd::dochecks.  A server that can be heard sends something    *)
(* every SYNCTIMEOUT and a client its position, both far more often than   *)
(* the timeouts, which are far longer than a packet is under way: what     *)
(* times out is unreachable or gone.  USERTIMEOUT is shorter than          *)
(* SERVERTIMEOUT and CLIENTTIMEOUT, as global.h demands: a connection that *)
(* is dead is closed before anything behind it times out.  The timers of   *)
(* different servers, and of a server and its clients, run apart.          *)
(***************************************************************************)
Joined(s, n) == {<<s, n>>, <<n, s>>} \subseteq links

\* No cut of the network separates s from o.
Reachable(s, o) ==
    \A side \in SUBSET Servers :
        s \in side /\ o \notin side =>
            \E x \in side : \E y \in Servers \ side : Joined(x, y)

Silence(s, o) ==
    /\ ~Reachable(s, o)
    /\ \A l \in Channels : \A i \in DOMAIN wire[l] : wire[l][i].from # o
    /\ \A l \in links : <<l[2], l[1]>> \in links \cup knocks

\* Mutant: the clients stay.
ServerTimeoutKeepsClients(s, o) ==
    /\ Spend("timeout")
    /\ s \in started
    /\ o \in DOMAIN table[s] \ {s}
    /\ Silence(s, o)
    /\ table' = [table EXCEPT ![s] = [x \in DOMAIN @ \ {o} |-> @[x]]]
    /\ UNCHANGED <<started, clients, count, links, knocks, wire, said, heard>>

\* The destructor of a server deletes its clients.
ServerTimeout(s, o) ==
    /\ Spend("timeout")
    /\ s \in started
    /\ o \in DOMAIN table[s] \ {s}
    /\ Silence(s, o)
    /\ table' = [table EXCEPT ![s] = [x \in DOMAIN @ \ {o} |-> @[x]]]
    /\ clients' = [clients EXCEPT ![s] = [c \in Callsigns |->
                      IF @[c] = o THEN NoServer ELSE @[c]]]
    /\ UNCHANGED <<started, count, links, knocks, wire, said, heard>>

ClientTimeout(s, c) ==
    LET o == clients[s][c]
    IN  /\ Spend("timeout")
        /\ s \in started
        /\ o \notin {s, NoServer}
        /\ clients[o][c] # o \/ Silence(s, o)
        /\ clients' = [clients EXCEPT ![s][c] = NoServer]
        /\ UNCHANGED <<started, table, count, links, knocks, wire, said, heard>>
-----------------------------------------------------------------------------
\* The processes have been started: each knows itself and has dialled nobody.
Init ==
    /\ started = {}
    /\ table = [s \in Servers |-> [o \in {s} |-> Fresh]]
    /\ count = [s \in Servers |-> 0]
    /\ clients = [s \in Servers |-> [c \in Callsigns |-> NoServer]]
    /\ links = {}
    /\ knocks = {}
    /\ wire = [l \in Channels |-> <<>>]
    /\ said = [m \in Messages |-> NoServer]
    /\ heard = [s \in Servers |-> [m \in Messages |-> 0]]
    /\ left = Budget

Next ==
    \E s \in Servers :
        \/ Sync(s) \/ Notify(s) \/ Crash(s) \/ Start(s)
        \/ \E c \in Callsigns : Login(s, c) \/ Logout(s, c) \/ ClientTimeout(s, c)
        \/ \E m \in Messages : Say(s, m)
        \/ \E o \in Servers : Connect(s, o) \/ ServerTimeout(s, o)
        \/ \E o \in Servers, g \in Stubs : Reconnect(s, o, g)
        \/ \E n \in Peers : Accept(s, n) \/ Fail(s, n) \/ Close(s, n) \/ Receive(s, n)

Spec == Init /\ [][Next]_netVars
-----------------------------------------------------------------------------
(***************************************************************************)
(* The network at rest: nothing is under way and both ends of every        *)
(* connection agree.                                                       *)
(***************************************************************************)
Quiet ==
    /\ started = Servers
    /\ knocks = {}
    /\ \A l \in Channels : wire[l] = <<>>
    /\ \A l \in links : <<l[2], l[1]>> \in links

Entries ==
    [path : Peers \cup {NoServer}, hops : NoHops..MaxHops,
     pcount : -1..(MaxCount + 1), drops : 0..DropLimit]

\* What the packets of each command carry.
Payload ==
    [SYNC |-> {Nothing}, RESET |-> {Nothing},
     NOTIFY |-> [server : Servers, feed : BOOLEAN],
     LINKDOWN |-> [servers : SUBSET Servers],
     ADDCLIENT |-> [callsign : Callsigns, location : Servers],
     RMCLIENT |-> [callsign : Callsigns], MC |-> [message : Messages]]

Packets ==
    UNION {[cmd : {x}, to : Callsigns \cup {Everyone}, from : Servers,
            pc : 0..(MaxCount + 1), hc : 1..(MaxHops + 1), bi : BOOLEAN,
            data : Payload[x]] : x \in DOMAIN Payload}

(***************************************************************************)
(* The types of the network's variables: counts, hops and drops stay in    *)
(* their ranges, a packet carries what its command needs, and a connection *)
(* that waits to be accepted is not open yet.                              *)
(***************************************************************************)
NetTypeOK ==
    /\ \A s \in Servers :
          /\ s \in DOMAIN table[s]
          /\ DOMAIN table[s] \subseteq Servers
          /\ \A o \in DOMAIN table[s] : table[s][o] \in Entries
    /\ count \in [Servers -> 0..MaxCount]
    /\ clients \in [Servers -> [Callsigns -> Servers \cup {NoServer}]]
    /\ started \subseteq Servers
    /\ links \subseteq Servers \X Peers
    /\ knocks \subseteq (Servers \X Peers) \ links
    /\ wire \in [Channels -> Seq(Packets)]
    /\ said \in [Messages -> Servers \cup {NoServer}]
    /\ heard \in [Servers -> [Messages -> 0..2]]

(***************************************************************************)
(* No pointer dangles.  A server routes only over connections it has:      *)
(* server::path is a plain pointer to a servuser that sendpacket follows,  *)
(* and the destructor of the user, which every way of closing ends in,     *)
(* must clear it in every server that uses it.  Without a route there are  *)
(* no hops and no packet count either, and no server routes to itself.     *)
(***************************************************************************)
RoutesAreLinks ==
    \A s \in Servers : \A o \in DOMAIN table[s] :
        LET e == table[s][o]
        IN  /\ e.path # NoServer => <<s, e.path>> \in links /\ o # s
            /\ e.path = NoServer => e.hops = NoHops /\ e.pcount = -1

(***************************************************************************)
(* client::location is a plain pointer too: a server that is deleted must  *)
(* take its clients with it, and a client is never added for a server that *)
(* is not there.                                                           *)
(***************************************************************************)
ClientsHaveServers ==
    \A s \in Servers : \A c \in Callsigns :
        clients[s][c] # NoServer => clients[s][c] \in DOMAIN table[s]

(***************************************************************************)
(* Every server that can be reached knows a client that is online at one   *)
(* server, and knows where: docs/protocol.txt, ADDCLIENT, "The server      *)
(* should add a new client to its internal database".  This is about a     *)
(* network whose connections stand.                                        *)
(***************************************************************************)
OnlineAt(c) == {s \in Servers : clients[s][c] = s}

ClientsKnown ==
    Quiet =>
        \A c \in Callsigns : \A s, o \in Servers :
            OnlineAt(c) = {s} /\ Reachable(s, o) => clients[o][c] = s

(***************************************************************************)
(* A server that dials another, for the first time, after its own crash or *)
(* after the other's, is told who is online there, although it may dial    *)
(* while the other still takes it for what it was: it keeps no packet      *)
(* count of the other's by then, since it has closed its own end before.   *)
(* The other way round this fails: see README.md.                          *)
(***************************************************************************)
DiallersKnow ==
    Quiet =>
        \A l \in Topology : \A c \in Callsigns :
            Joined(l[1], l[2]) /\ OnlineAt(c) = {l[2]} => clients[l[1]][c] = l[2]

(***************************************************************************)
(* A packet that concerns everybody is passed on by whoever takes it:      *)
(* docs/protocol.txt says of the destination "*": "all servers, all        *)
(* clients".  So if one server that is not the client's own has added it,  *)
(* all that can be reached have.                                           *)
(***************************************************************************)
OneKnowsAllKnow ==
    Quiet =>
        \A c \in Callsigns : \A s \in Servers :
            OnlineAt(c) = {s} /\ (\E o \in Servers \ {s} : clients[o][c] = s)
                => \A o \in Servers : Reachable(s, o) => clients[o][c] = s

\* The register of a server at rest holds no client that has left.
NoGhosts ==
    Quiet =>
        \A s \in Servers : \A c \in Callsigns :
            clients[s][c] # NoServer => clients[clients[s][c]][c] = clients[s][c]

(***************************************************************************)
(* No server handles a packet more than once, which docs/protocol.txt      *)
(* promises of the packet counts: no user hears a message twice.           *)
(***************************************************************************)
HeardOnce == \A s \in Servers : \A m \in Messages : heard[s][m] <= 1

(***************************************************************************)
(* A message to everybody reaches everybody although connections fail.     *)
(* Messages are not repeated: this is about networks that stay in one      *)
(* piece.                                                                  *)
(***************************************************************************)
EveryoneHears ==
    Quiet =>
        \A m \in {x \in Messages : said[x] # NoServer /\ Addressee[x] = Everyone} :
            \A s \in Servers : Reachable(said[m], s) => heard[s][m] >= 1

(***************************************************************************)
(* A message to one client reaches its server as long as no connection     *)
(* fails: what overtakes it on another way must not make it look handled.  *)
(***************************************************************************)
AddresseeHears ==
    Quiet =>
        \A m \in {x \in Messages : said[x] # NoServer /\ Addressee[x] # Everyone} :
            \A s \in Servers :
                Reachable(said[m], s) /\ clients[s][Addressee[m]] = s => heard[s][m] >= 1

\* Whoever a message is for hears it.
HeardByAll == EveryoneHears /\ AddresseeHears

(***************************************************************************)
(* At rest no route leads to what the network cannot reach, so LINKDOWN    *)
(* has met every server it concerns, and a route to a neighbour is the     *)
(* connection itself: setpath takes the first copy of a flooded packet,    *)
(* whatever way it came, and shorter ones must overrule it later.          *)
(***************************************************************************)
RoutesLead ==
    Quiet =>
        \A s \in Servers : \A o \in DOMAIN table[s] :
            /\ table[s][o].path # NoServer => Reachable(s, o)
            /\ Joined(s, o) => table[s][o].path \in {o, NoServer}
=============================================================================
