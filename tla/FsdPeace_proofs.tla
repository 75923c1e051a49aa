---------------------------- MODULE FsdPeace_proofs ----------------------------
(***************************************************************************)
(* What the FSD servers owe to their clients while the network is left in  *)
(* peace, for any network of at most MaxHops + 1 servers, so that no way   *)
(* is too long for a packet, cycles included, and any traffic: a network   *)
(* that is settled, in which no connection is made or lost and no server   *)
(* stops, is in order whenever it is quiet.  Everybody has heard what was  *)
(* said to everybody, every route leads somewhere and to a neighbour       *)
(* directly, and the registers agree.                                      *)
(*                                                                         *)
(* The invariant speaks of the broadcasts sent since the network was       *)
(* settled, which no variable holds: a set B of them, under a quantifier.  *)
(***************************************************************************)
EXTENDS FsdNetwork_proofs

(***************************************************************************)
(* The network is settled: nothing is under way, every server knows a way  *)
(* to those it can reach and to no others, by the connection itself if     *)
(* there is one, has not seen a count that is still to come, and has the   *)
(* same register as its neighbours, of clients at servers it can reach.    *)
(* No way is longer than MaxHops lets a packet go.                         *)
(***************************************************************************)
Abreast ==
    \A s \in Servers : \A o \in Servers :
        s # o /\ Reachable(s, o) =>
            /\ o \in DOMAIN table[s]
            /\ table[s][o].path # NoServer
            /\ table[s][o].pcount < count[o]

Direct ==
    \A s \in Servers : \A o \in DOMAIN table[s] :
        table[s][o].path # NoServer =>
            /\ Reachable(s, o)
            /\ Joined(s, o) => table[s][o].path = o /\ table[s][o].hops = 1

Homed ==
    \A s \in Servers : \A c \in Callsigns :
        clients[s][c] # NoServer => Reachable(s, clients[s][c])

\* The registers of neighbours agree about c.
Agreed(c) ==
    \A s \in Servers : \A n \in Servers : Joined(s, n) => clients[s][c] = clients[n][c]

Settled ==
    /\ Quiet /\ Abreast /\ Direct /\ Homed /\ EveryoneHears
    /\ \A c \in Callsigns : Agreed(c)
    /\ Cardinality(Servers) <= MaxHops + 1

(***************************************************************************)
(* The peace: no connection is made or lost, no process starts or dies,    *)
(* nothing times out, and no packet count starts again from 0.             *)
(***************************************************************************)
Calm ==
    \A s \in Servers :
        /\ ~Crash(s) /\ ~Start(s) /\ count'[s] >= count[s]
        /\ \A n \in Servers :
              /\ ~Connect(s, n) /\ ~ServerTimeout(s, n)
              /\ \A g \in Stubs : ~Reconnect(s, n, g)
        /\ \A n \in Peers : ~Fail(s, n)
        /\ \A c \in Callsigns : ~ClientTimeout(s, c)

(***************************************************************************)
(* The limits of the filter are not met: no server has dropped so many     *)
(* packets that it gives in, and no packet is MaxSpace ahead of what its   *)
(* reader has of its origin.                                               *)
(***************************************************************************)
Near ==
    \A l \in Servers \X Servers : \A i \in DOMAIN wire[l] :
        LET p == wire[l][i]
        IN  p.from \in DOMAIN table[l[2]] =>
                p.pc <= table[l[2]][p.from].pcount + MaxSpace

Peace == NoneGivesIn /\ Near

\* q says that the client c has come or gone.
Changes(q, c) == q.cmd \in {"ADDCLIENT", "RMCLIENT"} /\ q.data.callsign = c

\* A client comes to a server, or leaves it, only when the news of what it did
\* at other servers have arrived.
Orderly ==
    \A s \in Servers : \A c \in Callsigns :
        (clients[s][c] = s) # (clients'[s][c] = s) =>
            \A l \in Servers \X Servers : \A i \in DOMAIN wire[l] :
                Changes(wire[l][i], c) => wire[l][i].from = s
-----------------------------------------------------------------------------
(***************************************************************************)
(* Who can be reached.                                                     *)
(***************************************************************************)
Linked ==
    /\ knocks = {}
    /\ \A l \in links : <<l[2], l[1]>> \in links

LEMMA JoinedNeighbours ==
    ASSUME Linked, NEW s \in Servers, NEW n \in Servers
    PROVE  /\ Joined(s, n) <=> <<s, n>> \in links
           /\ Joined(s, n) <=> n \in Neighbours(s)
           /\ Joined(s, n) <=> Joined(n, s)
BY DEF Linked, Joined, Neighbours, Peers

LEMMA NeighbourServers ==
    ASSUME TypesInv, Linked, NEW s \in Servers
    PROVE  Neighbours(s) \in SUBSET Servers
<1>1. ASSUME NEW n \in Neighbours(s)
      PROVE  n \in Servers
  <2>1. PICK l : l = <<s, n>>
    OBVIOUS
  <2>2. l \in links /\ l[1] = s /\ l[2] = n
    BY <2>1 DEF Neighbours
  <2>3. <<n, s>> \in links
    BY <2>2 DEF Linked
  <2>. QED  BY <2>3 DEF TypesInv
<1>. QED  BY <1>1

\* What holds of s, and of the neighbours of whom it holds of, holds of o.
LEMMA Closed ==
    ASSUME NEW s \in Servers, NEW o \in Servers, Reachable(s, o),
           NEW Q \in SUBSET Servers, s \in Q,
           \A x \in Q : \A y \in Servers : Joined(x, y) => y \in Q
    PROVE  o \in Q
BY DEF Reachable

LEMMA ReachSelf ==
    ASSUME NEW s \in Servers
    PROVE  Reachable(s, s)
BY DEF Reachable

LEMMA ReachStep ==
    ASSUME NEW s \in Servers, NEW o \in Servers, NEW x \in Servers,
           Reachable(s, o), Joined(o, x)
    PROVE  Reachable(s, x)
<1>1. SUFFICES ASSUME NEW side \in SUBSET Servers, s \in side, x \notin side
               PROVE  \E y \in side : \E z \in Servers \ side : Joined(y, z)
  BY DEF Reachable
<1>2. CASE o \in side
  BY <1>1, <1>2
<1>3. CASE o \notin side
  BY <1>1, <1>3 DEF Reachable
<1>. QED  BY <1>2, <1>3

LEMMA ReachBack ==
    ASSUME NEW s \in Servers, NEW o \in Servers, Reachable(s, o)
    PROVE  Reachable(o, s)
<1>1. SUFFICES ASSUME NEW side \in SUBSET Servers, o \in side, s \notin side
               PROVE  \E y \in side : \E z \in Servers \ side : Joined(y, z)
  BY DEF Reachable
<1>2. PICK y \in Servers \ side : \E z \in Servers \ (Servers \ side) : Joined(y, z)
  <2>1. Servers \ side \in SUBSET Servers
    OBVIOUS
  <2>. QED  BY <1>1, <2>1 DEF Reachable
<1>3. PICK z \in Servers \ (Servers \ side) : Joined(y, z)
  BY <1>2
<1>4. z \in side /\ Joined(z, y)
  BY <1>3 DEF Joined
<1>. QED  BY <1>2, <1>4

LEMMA ReachOn ==
    ASSUME NEW s \in Servers, NEW o \in Servers, NEW x \in Servers,
           Reachable(s, o), Reachable(o, x)
    PROVE  Reachable(s, x)
<1>1. SUFFICES ASSUME NEW side \in SUBSET Servers, s \in side, x \notin side
               PROVE  \E y \in side : \E z \in Servers \ side : Joined(y, z)
  BY DEF Reachable
<1>2. CASE o \in side
  BY <1>1, <1>2 DEF Reachable
<1>3. CASE o \notin side
  BY <1>1, <1>3 DEF Reachable
<1>. QED  BY <1>2, <1>3

LEMMA ReachKept ==
    ASSUME UNCHANGED links, NEW s, NEW o
    PROVE  /\ Joined(s, o)' <=> Joined(s, o)
           /\ Reachable(s, o)' <=> Reachable(s, o)
BY DEF Joined, Reachable
-----------------------------------------------------------------------------
(***************************************************************************)
(* What a step does to the packets under way: those of `read` lose their   *)
(* first, and q is written, at the end, to those of `ways`.                *)
(***************************************************************************)
Read(read) ==
    [l \in Channels |-> IF l \in read THEN Tail(wire[l]) ELSE wire[l]]

Moved(read, ways, q) ==
    wire' = [l \in Channels |->
                IF l \in ways THEN Append(Read(read)[l], q) ELSE Read(read)[l]]

\* A packet on l is an old one, one place further back if the first was read, or
\* q, and all others are still there.
After(read, ways, q, l) ==
    /\ \A j \in DOMAIN wire'[l] :
         \/ /\ Was(read, l, j) \in DOMAIN wire[l]
            /\ wire'[l][j] = wire[l][Was(read, l, j)]
         \/ l \in ways /\ j = Len(wire'[l]) /\ wire'[l][j] = q
    /\ \A i \in DOMAIN wire[l] :
         \/ l \in read /\ i = 1
         \/ \E j \in DOMAIN wire'[l] : Was(read, l, j) = i /\ wire'[l][j] = wire[l][i]
    /\ l \in ways => Len(wire'[l]) \in DOMAIN wire'[l] /\ wire'[l][Len(wire'[l])] = q
    /\ wire'[l] \in Seq(Packets)

LEMMA MovedFacts ==
    ASSUME wire \in Wires, NEW read, \A l \in read : wire[l] # <<>>,
           NEW q \in Packets, NEW ways, Moved(read, ways, q),
           NEW l \in Servers \X Servers
    PROVE  After(read, ways, q, l)
<1>1. wire[l] \in Seq(Packets) /\ l \in Channels
  BY DEF Wires, Channels, Peers
<1>2. PICK r : r = Read(read)[l]
  OBVIOUS
<1>3. r = IF l \in read THEN Tail(wire[l]) ELSE wire[l]
  BY <1>1, <1>2 DEF Read
<1>4. r \in Seq(Packets)
  <2>1. l \in read => Tail(wire[l]) \in Seq(Packets)
    BY <1>1
  <2>. QED  BY <1>1, <1>3, <2>1
<1>5. wire'[l] = IF l \in ways THEN Append(r, q) ELSE r
  BY <1>1, <1>2 DEF Moved
<1>6. \A j \in DOMAIN r : Was(read, l, j) \in DOMAIN wire[l] /\ r[j] = wire[l][Was(read, l, j)]
  <2>1. CASE l \in read
    <3>1. wire[l] # <<>> /\ r = Tail(wire[l])
      BY <1>3, <2>1
    <3>. QED  BY <1>1, <2>1, <3>1 DEF Was
  <2>2. CASE l \notin read
    BY <1>3, <2>2 DEF Was
  <2>. QED  BY <2>1, <2>2
<1>7. ASSUME NEW i \in DOMAIN wire[l], ~(l \in read /\ i = 1)
      PROVE  \E j \in DOMAIN r : Was(read, l, j) = i
  <2>1. CASE l \in read
    <3>1. wire[l] # <<>> /\ r = Tail(wire[l]) /\ i \in 1..Len(wire[l]) /\ i # 1
      BY <1>1, <1>3, <1>7, <2>1
    <3>2. i - 1 \in DOMAIN r
      BY <1>1, <3>1
    <3>3. (i - 1) + 1 = i
      BY <3>1
    <3>. QED  BY <2>1, <3>2, <3>3 DEF Was
  <2>2. CASE l \notin read
    BY <1>3, <2>2 DEF Was
  <2>. QED  BY <2>1, <2>2
<1>8. CASE l \in ways
  <2>1. PICK w : w = wire'[l]
    OBVIOUS
  <2>2. w = Append(r, q)
    BY <1>5, <1>8, <2>1
  <2>3. /\ w \in Seq(Packets) /\ Len(w) = Len(r) + 1 /\ w[Len(w)] = q
        /\ DOMAIN w = 1..(Len(r) + 1) /\ DOMAIN r = 1..Len(r) /\ Len(r) \in Nat
        /\ \A j \in DOMAIN r : w[j] = r[j]
    BY <1>4, <2>2
  <2>4. \A j \in DOMAIN w : j \in DOMAIN r \/ j = Len(w)
    BY <2>3
  <2>5. Len(w) \in DOMAIN w /\ \A j \in DOMAIN r : j \in DOMAIN w
    BY <2>3
  <2>. QED  BY <1>6, <1>7, <1>8, <2>1, <2>3, <2>4, <2>5 DEF After
<1>9. CASE l \notin ways
  BY <1>4, <1>5, <1>6, <1>7, <1>9 DEF After
<1>. QED  BY <1>8, <1>9

\* The sends of one packet move it.
LEMMA SentMoves ==
    ASSUME wire \in Wires, Linked, UNCHANGED <<links, knocks>>,
           NEW s \in Servers, NEW q \in Packets, NEW over \in SUBSET Neighbours(s),
           NEW read, \A l \in read : wire[l] # <<>>,
           Transmit(s, <<[packet |-> q, over |-> over]>>, Read(read))
    PROVE  Moved(read, {s} \X over, q)
<1>1. PICK x : x = [packet |-> q, over |-> over]
  OBVIOUS
<1>2. ASSUME NEW n
      PROVE  Over(<<x>>, n) = IF n \in over THEN <<q>> ELSE <<>>
  <2>1. PICK g : g = IF n \in over THEN <<q>> ELSE <<>>
    OBVIOUS
  <2>2. PICK y : y = <<x>>
    OBVIOUS
  <2>3. DOMAIN y = 1..1 /\ y[1] = x
    BY <2>2
  <2>4. [i \in DOMAIN y |-> IF n \in y[i].over THEN <<y[i].packet>> ELSE <<>>] = <<g>>
    BY <1>1, <2>1, <2>3
  <2>5. Over(y, n) = FlattenSeq(<<g>>)
    BY <2>4 DEF Over
  <2>. QED  BY <2>1, <2>2, <2>5, FlatShort
<1>3. ASSUME NEW l \in Channels
      PROVE  wire'[l] = IF l \in {s} \X over THEN Append(Read(read)[l], q) ELSE Read(read)[l]
  <2>1. PICK r : r = Read(read)[l]
    OBVIOUS
  <2>2. r \in Seq(Packets)
    <3>1. wire[l] \in Seq(Packets)
      BY DEF Wires
    <3>2. l \in read => Tail(wire[l]) \in Seq(Packets)
      BY <3>1
    <3>. QED  BY <2>1, <3>1, <3>2 DEF Read
  <2>3. wire'[l] = IF l[1] = s /\ <<l[2], s>> \in links' \cup knocks'
                   THEN r \o Over(<<x>>, l[2]) ELSE r
    BY <1>1, <2>1 DEF Transmit
  <2>4. l = <<l[1], l[2]>> /\ l[2] \in Servers
    BY DEF Channels
  <2>5. l \in {s} \X over <=> l[1] = s /\ l[2] \in over
    BY <2>4
  <2>6. r \o <<q>> = Append(r, q) /\ r \o <<>> = r
    BY <2>2
  <2>7. l[2] \in over => <<l[2], s>> \in links' \cup knocks'
    BY <2>4, JoinedNeighbours DEF Joined
  <2>. QED  BY <1>2, <2>1, <2>3, <2>5, <2>6, <2>7
<1>. QED  BY <1>3 DEF Transmit, Moved

\* A packet is read and no other is written.
LEMMA ConsumedMoves ==
    ASSUME wire \in Wires, NEW s \in Servers, NEW n \in Servers, NEW q
    PROVE  /\ Taken(n, s) = Read({<<n, s>>})
           /\ wire' = Taken(n, s) => Moved({<<n, s>>}, {s} \X {}, q)
           /\ wire = Read({})
<1>1. wire = [l \in Channels |-> wire[l]]
  BY DEF Wires
<1>2. Taken(n, s) = Read({<<n, s>>})
  BY <1>1 DEF Taken, Read
<1>3. Read({}) = wire
  BY <1>1 DEF Read
<1>4. \A r : r = [l \in Channels |-> r[l]] =>
         r = [l \in Channels |->
                 IF l \in {s} \X {} THEN Append(r[l], q) ELSE r[l]]
  OBVIOUS
<1>. QED  BY <1>2, <1>3, <1>4 DEF Moved, Read
-----------------------------------------------------------------------------
(***************************************************************************)
(* Sending, in peace.                                                      *)
(***************************************************************************)
\* What packets are there: about the server they come from, and broadcasts
\* unless they are a message to one client.
Plain(q) ==
    /\ q.cmd \notin {"LINKDOWN", "RESET"}
    /\ q.cmd = "NOTIFY" => q.data.server = q.from
    /\ q.cmd = "ADDCLIENT" => q.data.location = q.from
    /\ q.bi <=> q.to = Everyone
    /\ q.cmd # "MC" => q.bi

\* s sends q, a packet of its own.
Launch(s, q, over) ==
    /\ UNCHANGED <<table, links, knocks>>
    /\ count' = [count EXCEPT ![s] = @ + 1]
    /\ Moved({}, {s} \X over, q)
    /\ q \in Packets /\ Plain(q)
    /\ q.from = s /\ q.pc = count[s] /\ q.hc = 1
    /\ over \in SUBSET Neighbours(s)
    /\ q.bi => over = Neighbours(s)

LEMMA AnnounceLaunches ==
    ASSUME TypesInv, Linked, UNCHANGED <<table, links, knocks>>, NEW s \in Servers,
           NEW order \in Orders, order.over \in SUBSET Neighbours(s),
           Announce(s, order), count'[s] >= count[s],
           NEW q, q = Assemble(s, order, count[s]), Plain(q),
           q.bi => order.over = Neighbours(s)
    PROVE  Launch(s, q, order.over)
<1>1. /\ count \in [Servers -> 0..MaxCount] /\ wire \in Wires /\ MaxCount \in Nat
      /\ MaxCount \in Nat \ {0}
  BY FsdAssumption DEF TypesInv
<1>2. count[s] \in Nat /\ count[s] <= MaxCount
  BY <1>1
<1>3. \A a \in Nat : \A b \in Nat \ {0} : a < b => a % b = a
  OBVIOUS
<1>4. \A b \in Nat \ {0} : b % b = 0
  OBVIOUS
<1>5. CountOf(s, 1) = count[s]
  <2>1. count[s] + 1 - 1 = count[s]
    BY <1>2
  <2>2. count[s] % (MaxCount + 1) = count[s]
    BY <1>1, <1>2, <1>3
  <2>. QED  BY <2>1, <2>2 DEF CountOf
<1>6. count' = [count EXCEPT ![s] = (@ + 1) % (MaxCount + 1)]
  <2>1. Len(<<order>>) = 1
    OBVIOUS
  <2>. QED  BY <2>1 DEF Announce, Counted
<1>7. count[s] < MaxCount
  <2>1. ASSUME count[s] = MaxCount
        PROVE  FALSE
    <3>1. count'[s] = (MaxCount + 1) % (MaxCount + 1)
      BY <1>1, <1>6, <2>1
    <3>2. count'[s] = 0
      BY <1>1, <1>4, <3>1
    <3>. QED  BY <1>1, <2>1, <3>2
  <2>. QED  BY <1>1, <1>2, <2>1
<1>8. count' = [count EXCEPT ![s] = @ + 1]
  <2>1. (count[s] + 1) % (MaxCount + 1) = count[s] + 1
    BY <1>1, <1>2, <1>3, <1>7
  <2>. QED  BY <1>6, <2>1
<1>9. Transmit(s, <<[packet |-> q, over |-> order.over]>>, wire)
  <2>1. PICK x : x = [packet |-> q, over |-> order.over]
    OBVIOUS
  <2>2. PICK y : y = <<order>>
    OBVIOUS
  <2>3. DOMAIN y = 1..1 /\ y[1] = order
    BY <2>2
  <2>4. [i \in DOMAIN y |->
            LET send == [packet |-> Assemble(s, y[i], CountOf(s, i)), over |-> y[i].over]
            IN  IF CountOf(s, i) = MaxCount THEN <<send, SendReset(s, MaxCount + 1, Neighbours(s))>>
                                            ELSE <<send>>] = <<<<x>>>>
    BY <1>2, <1>5, <1>7, <2>1, <2>3
  <2>5. Own(s, y, Neighbours(s)) = FlattenSeq(<<<<x>>>>)
    BY <2>4 DEF Own
  <2>6. Own(s, y, Neighbours(s)) = <<x>>
    BY <2>5, FlatShort
  <2>. QED  BY <2>1, <2>2, <2>6 DEF Announce
<1>10. q \in Packets
  <2>1. count[s] \in 0..(MaxCount + 1)
    BY <1>1, <1>2
  <2>. QED  BY <2>1, AssembleType
<1>11. Moved({}, {s} \X order.over, q)
  <2>1. Read({}) = wire
    BY <1>1, ConsumedMoves
  <2>. QED  BY <1>1, <1>9, <1>10, <2>1, SentMoves
<1>12. q.from = s /\ q.pc = count[s] /\ q.hc = 1
  BY DEF Assemble
<1>. QED  BY <1>8, <1>10, <1>11, <1>12 DEF Launch

\* What the server s does of its own accord.
LEMMA ChoresLaunch ==
    ASSUME TypesInv, Linked, NEW s \in Servers, count'[s] >= count[s],
           Sync(s) \/ Notify(s)
    PROVE  /\ UNCHANGED <<clients, said, heard>>
           /\ \E q \in Packets : /\ Launch(s, q, Neighbours(s))
                                 /\ q.cmd \in {"SYNC", "NOTIFY"}
<1>1. Neighbours(s) \in SUBSET Peers /\ Neighbours(s) \in SUBSET Neighbours(s)
  BY DEF Neighbours
<1>2. ASSUME Sync(s)
      PROVE  \E q \in Packets : Launch(s, q, Neighbours(s)) /\ q.cmd \in {"SYNC", "NOTIFY"}
  <2>1. PICK order : order = SyncTo(Neighbours(s))
    OBVIOUS
  <2>2. PICK q : q = Assemble(s, order, count[s])
    OBVIOUS
  <2>3. order \in Orders /\ order.over = Neighbours(s)
    BY <1>1, <2>1, OrdersGiven DEF Errands, SyncTo, Order
  <2>4. Plain(q) /\ q.cmd = "SYNC"
    BY <2>1, <2>2 DEF Plain, Assemble, SyncTo, Order
  <2>5. Launch(s, q, Neighbours(s))
    BY <1>1, <1>2, <2>1, <2>2, <2>3, <2>4, AnnounceLaunches DEF Sync
  <2>. QED  BY <2>4, <2>5 DEF Launch
<1>3. ASSUME Notify(s)
      PROVE  \E q \in Packets : Launch(s, q, Neighbours(s)) /\ q.cmd \in {"SYNC", "NOTIFY"}
  <2>1. PICK order : order = NotifyTo(s, FALSE, Neighbours(s))
    OBVIOUS
  <2>2. PICK q : q = Assemble(s, order, count[s])
    OBVIOUS
  <2>3. order \in Orders /\ order.over = Neighbours(s)
    BY <1>1, <2>1, OrdersGiven DEF Errands, NotifyTo, Order
  <2>4. Plain(q) /\ q.cmd = "NOTIFY"
    BY <2>1, <2>2 DEF Plain, Assemble, NotifyTo, Order
  <2>5. Launch(s, q, Neighbours(s))
    BY <1>1, <1>3, <2>1, <2>2, <2>3, <2>4, AnnounceLaunches DEF Notify
  <2>. QED  BY <2>4, <2>5 DEF Launch
<1>. QED  BY <1>2, <1>3 DEF Sync, Notify

\* A client comes or goes.
LEMMA ClientLaunches ==
    ASSUME TypesInv, Linked, NEW s \in Servers, count'[s] >= count[s],
           NEW c \in Callsigns, Login(s, c) \/ Logout(s, c)
    PROVE  /\ UNCHANGED <<said, heard>>
           /\ \E q \in Packets : \E v \in {s, NoServer} :
                 /\ Launch(s, q, Neighbours(s))
                 /\ clients' = [clients EXCEPT ![s][c] = v]
                 /\ Changes(q, c) /\ q.bi
                 /\ q.cmd = "ADDCLIENT" => clients[s][c] = NoServer /\ v = s
                 /\ q.cmd = "RMCLIENT" => clients[s][c] = s /\ v = NoServer
<1>1. Neighbours(s) \in SUBSET Peers /\ Neighbours(s) \in SUBSET Neighbours(s)
  BY DEF Neighbours
<1>2. CASE Login(s, c)
  <2>1. PICK order : order = AddClientTo(c, s, TRUE, Neighbours(s))
    OBVIOUS
  <2>2. PICK q : q = Assemble(s, order, count[s])
    OBVIOUS
  <2>3. order \in Orders /\ order.over = Neighbours(s)
    <3>1. TRUE \in BOOLEAN
      OBVIOUS
    <3>2. order \in Errands
      BY <1>1, <2>1, <3>1, OrdersGiven
    <3>. QED  BY <2>1, <3>2 DEF Errands, AddClientTo, Order
  <2>4. Plain(q) /\ q.cmd = "ADDCLIENT" /\ q.bi /\ Changes(q, c)
    BY <2>1, <2>2 DEF Plain, Assemble, AddClientTo, Order, Changes
  <2>5. Launch(s, q, Neighbours(s))
    BY <1>1, <1>2, <2>1, <2>2, <2>3, <2>4, AnnounceLaunches DEF Login
  <2>6. clients[s][c] = NoServer /\ clients' = [clients EXCEPT ![s][c] = s]
    BY <1>2 DEF Login
  <2>7. q \in Packets
    BY <2>5 DEF Launch
  <2>8. UNCHANGED <<said, heard>>
    BY <1>2 DEF Login
  <2>. QED  BY <2>4, <2>5, <2>6, <2>7, <2>8
<1>3. CASE Logout(s, c)
  <2>1. PICK order : order = Order("RMCLIENT", Everyone, TRUE, [callsign |-> c], Neighbours(s))
    OBVIOUS
  <2>2. PICK q : q = Assemble(s, order, count[s])
    OBVIOUS
  <2>3. order \in Orders /\ order.over = Neighbours(s)
    <3>1. order \in Errands
      BY <1>1, <2>1, OrdersGiven
    <3>. QED  BY <2>1, <3>1 DEF Errands, Order
  <2>4. Plain(q) /\ q.cmd = "RMCLIENT" /\ q.bi /\ Changes(q, c)
    BY <2>1, <2>2 DEF Plain, Assemble, Order, Changes
  <2>5. Launch(s, q, Neighbours(s))
    BY <1>1, <1>3, <2>1, <2>2, <2>3, <2>4, AnnounceLaunches DEF Logout
  <2>6. clients[s][c] = s /\ clients' = [clients EXCEPT ![s][c] = NoServer]
    BY <1>3 DEF Logout
  <2>7. q \in Packets
    BY <2>5 DEF Launch
  <2>8. UNCHANGED <<said, heard>>
    BY <1>3 DEF Logout
  <2>. QED  BY <2>4, <2>5, <2>6, <2>7, <2>8
<1>. QED  BY <1>2, <1>3

\* A message to a client goes to one neighbour, or to none.
LEMMA RouteInPeace ==
    ASSUME TypesInv, PointersInv, Abreast, Homed, NEW s \in Servers,
           NEW c \in Callsigns, NEW except, NEW way, way = Route(s, c, FALSE, except)
    PROVE  way.bi = FALSE /\ way.over \in SUBSET Neighbours(s)
<1>0. \A a : \A b : LET r == [bi |-> a, over |-> b] IN r.bi = a /\ r.over = b
  OBVIOUS
<1>1. PICK o : o = clients[s][c]
  OBVIOUS
<1>2. CASE o \in {NoServer, s}
  <2>1. way = [bi |-> FALSE, over |-> {}]
    BY <1>1, <1>2 DEF Route
  <2>2. way.bi = FALSE /\ way.over = {}
    BY <1>0, <2>1
  <2>. QED  BY <2>2
<1>3. CASE o \notin {NoServer, s}
  <2>1. o \in Servers /\ Reachable(s, o)
    BY <1>1, <1>3 DEF TypesInv, Registers, Homed
  <2>2. o \in DOMAIN table[s] /\ table[s][o].path # NoServer
    BY <1>3, <2>1 DEF Abreast
  <2>3. <<s, table[s][o].path>> \in links
    BY <2>2 DEF PointersInv, Good, Sound
  <2>4. table[s][o].path \in Neighbours(s)
    BY <2>3 DEF TypesInv, Neighbours
  <2>5. way = [bi |-> FALSE, over |-> {table[s][o].path}]
    BY <1>1, <1>3, <2>2 DEF Route
  <2>6. way.bi = FALSE /\ way.over = {table[s][o].path}
    BY <1>0, <2>5
  <2>. QED  BY <2>4, <2>6
<1>. QED  BY <1>2, <1>3

\* A message is sent.
LEMMA SayLaunches ==
    ASSUME TypesInv, PointersInv, Linked, Abreast, Homed, NEW s \in Servers,
           count'[s] >= count[s], NEW m \in Messages, Say(s, m)
    PROVE  /\ said[m] = NoServer /\ said' = [said EXCEPT ![m] = s]
           /\ UNCHANGED clients
           /\ \A x \in Servers : \A k \in Messages \ {m} : heard'[x][k] = heard[x][k]
           /\ Addressee[m] = Everyone => heard'[s][m] >= 1
           /\ \E q \in Packets : \E over \in SUBSET Servers :
                 /\ Launch(s, q, over)
                 /\ q.cmd = "MC" /\ q.data.message = m /\ q.to = Addressee[m]
<1>1. PICK way : way = IF Addressee[m] = Everyone
                       THEN [bi |-> TRUE, over |-> Neighbours(s)]
                       ELSE Route(s, Addressee[m], FALSE, {})
  OBVIOUS
<1>2. PICK order : order = Order("MC", Addressee[m], way.bi, [message |-> m], way.over)
  OBVIOUS
<1>3. PICK q : q = Assemble(s, order, count[s])
  OBVIOUS
<1>4. /\ said[m] = NoServer
      /\ said' = [said EXCEPT ![m] = s]
      /\ heard' = [heard EXCEPT ![s][m] =
                       IF Addressee[m] \in Local(s) \cup {Everyone} THEN 1 ELSE 0]
      /\ UNCHANGED <<table, clients, links, knocks>>
      /\ Announce(s, order)
  BY <1>1, <1>2 DEF Say
<1>5. Addressee[m] \in Callsigns \cup {Everyone}
  BY FsdAssumption
<1>6. /\ way.bi <=> Addressee[m] = Everyone
      /\ way.bi \in BOOLEAN
      /\ way.over \in SUBSET Neighbours(s)
      /\ way.bi => way.over = Neighbours(s)
  <2>1. CASE Addressee[m] = Everyone
    BY <1>1, <2>1
  <2>2. CASE Addressee[m] # Everyone
    <3>1. Addressee[m] \in Callsigns /\ way = Route(s, Addressee[m], FALSE, {})
      BY <1>1, <1>5, <2>2
    <3>. QED  BY <2>2, <3>1, RouteInPeace
  <2>. QED  BY <2>1, <2>2
<1>7. order \in Orders /\ order.over = way.over
  <2>1. way.over \in SUBSET Peers
    BY <1>6 DEF Neighbours
  <2>. QED  BY <1>2, <1>5, <1>6, <2>1, OrdersGiven DEF Order
<1>8. q.cmd = "MC" /\ q.data.message = m /\ q.bi = way.bi /\ q.to = Addressee[m]
  BY <1>2, <1>3 DEF Order, Assemble
<1>9. Plain(q)
  BY <1>6, <1>8 DEF Plain
<1>10. Launch(s, q, way.over)
  BY <1>3, <1>4, <1>6, <1>7, <1>8, <1>9, AnnounceLaunches
<1>11. /\ \A x \in Servers : \A k \in Messages \ {m} : heard'[x][k] = heard[x][k]
       /\ Addressee[m] = Everyone => heard'[s][m] >= 1
  BY <1>4 DEF TypesInv, Ears
<1>12. way.over \in SUBSET Servers /\ q \in Packets
  BY <1>6, <1>10, NeighbourServers DEF Launch
<1>. QED  BY <1>4, <1>8, <1>10, <1>11, <1>12
-----------------------------------------------------------------------------
(***************************************************************************)
(* Receiving, in peace.                                                    *)
(***************************************************************************)
\* What s keeps of the origin of p, which came from n, goes from e to f: the
\* count is p's if p is newer, and the route is p's if p is a newer broadcast
\* or came a shorter way.
Noted(e, f, n, p) ==
    /\ f \in Entries
    /\ \/ f.pcount = e.pcount
       \/ e.pcount < p.pc /\ f.pcount = p.pc
    /\ \/ f.path = e.path /\ f.hops = e.hops
       \/ /\ f.path = n /\ f.hops = p.hc
          /\ p.hc < e.hops \/ e.hops = NoHops \/ (p.bi /\ e.pcount < p.pc)
    /\ p.hc < e.hops => f.path = n /\ f.hops = p.hc

\* A route is set.
LEMMA Rerouting ==
    ASSUME NEW e \in Entries, NEW n \in Servers, NEW h
    PROVE  SetPath(e, n, h) =
               [path |-> n, hops |-> h, pcount |-> e.pcount, drops |-> e.drops]
<1>1. n # NoServer
  BY FsdAssumption
<1>2. e = [path |-> e.path, hops |-> e.hops, pcount |-> e.pcount, drops |-> e.drops]
  BY DEF Entries
<1>3. SetPath(e, n, h) = [e EXCEPT !.path = n, !.hops = h, !.pcount = e.pcount]
  BY <1>1 DEF SetPath
<1>. QED  BY <1>2, <1>3

\* The filter.
LEMMA FilterInPeace ==
    ASSUME NEW d \in Entries, NEW n \in Servers, NEW p \in Packets, p.hc <= MaxHops,
           d.drops < DropLimit, p.pc <= d.pcount + MaxSpace,
           NEW e, e = Rerouted(d, n, p)
    PROVE  /\ Seen(e, p) => /\ p.pc <= d.pcount
                            /\ Noted(d, DropCounted(e), n, p)
                            /\ DropCounted(e).pcount = d.pcount
           /\ ~Seen(e, p) => /\ Noted(d, Passed(e, n, p), n, p)
                             /\ Passed(e, n, p).pcount >= p.pc
                             /\ p.bi => d.pcount < p.pc /\ Passed(e, n, p).hops = p.hc
<1>1. /\ p.pc \in Nat /\ p.hc \in Nat /\ p.bi \in BOOLEAN /\ p.hc # NoHops
      /\ d.pcount \in Int /\ d.drops \in Nat /\ DropLimit \in Nat /\ MaxSpace \in Nat
      /\ d.hops \in Int
  <2>1. p.pc \in 0..(MaxCount + 1) /\ p.hc \in 1..(MaxHops + 1) /\ p.bi \in BOOLEAN
    BY PacketFields
  <2>2. d.pcount \in -1..(MaxCount + 1) /\ d.drops \in 0..DropLimit /\ d.hops \in NoHops..MaxHops
    BY DEF Entries
  <2>. QED  BY <2>1, <2>2, FsdAssumption DEF NoHops
<1>2. e \in Entries /\ Passed(e, n, p) \in Entries /\ DropCounted(e) \in Entries
  <2>1. n \in Peers
    BY DEF Peers
  <2>2. e \in Entries
    BY <2>1, FilterTypes
  <2>. QED  BY <2>1, <2>2, FilterTypes, EntryTypes
<1>3. /\ e.pcount = d.pcount /\ e.drops = d.drops
      /\ \/ e.path = d.path /\ e.hops = d.hops /\ ~(p.hc < d.hops \/ d.hops = NoHops)
         \/ e.path = n /\ e.hops = p.hc /\ (p.hc < d.hops \/ d.hops = NoHops)
  <2>1. CASE p.hc < d.hops \/ d.hops = NoHops
    <3>1. e = [path |-> n, hops |-> p.hc, pcount |-> d.pcount, drops |-> d.drops]
      BY <2>1, Rerouting DEF Rerouted
    <3>. QED  BY <2>1, <3>1
  <2>2. CASE ~(p.hc < d.hops \/ d.hops = NoHops)
    BY <2>2 DEF Rerouted
  <2>. QED  BY <2>1, <2>2
<1>4. ASSUME Seen(e, p)
      PROVE  /\ p.pc <= d.pcount
             /\ Noted(d, DropCounted(e), n, p)
             /\ DropCounted(e).pcount = d.pcount
  <2>1. p.pc <= d.pcount
    BY <1>1, <1>3, <1>4 DEF Seen, Stale
  <2>2. /\ DropCounted(e).pcount = e.pcount /\ DropCounted(e).path = e.path
        /\ DropCounted(e).hops = e.hops
    BY <1>2 DEF DropCounted, Entries
  <2>. QED  BY <1>2, <1>3, <2>1, <2>2 DEF Noted
<1>5. ASSUME ~Seen(e, p)
      PROVE  /\ Noted(d, Passed(e, n, p), n, p)
             /\ Passed(e, n, p).pcount >= p.pc
             /\ p.bi => d.pcount < p.pc /\ Passed(e, n, p).hops = p.hc
  <2>1. PICK k : k = IF p.pc > e.pcount THEN p.pc ELSE e.pcount
    OBVIOUS
  <2>2. PICK c : c = [e EXCEPT !.pcount = k]
    OBVIOUS
  <2>3. k = (IF e.drops >= DropLimit \/ p.pc > e.pcount THEN p.pc ELSE e.pcount)
    <3>1. ~(e.drops >= DropLimit)
      BY <1>1, <1>3
    <3>. QED  BY <2>1, <3>1
  <2>4. Passed(e, n, p) = IF p.bi THEN [SetPath(c, n, p.hc) EXCEPT !.drops = 0] ELSE c
    BY <2>2, <2>3 DEF Passed
  <2>5. c \in Entries /\ c.pcount = k /\ c.path = e.path /\ c.hops = e.hops
    <3>1. k \in -1..(MaxCount + 1)
      <4>1. p.pc \in -1..(MaxCount + 1)
        <5>1. p.pc \in 0..(MaxCount + 1)
          BY PacketFields
        <5>. QED  BY <5>1, FsdAssumption
      <4>. QED  BY <1>2, <2>1, <4>1 DEF Entries
    <3>. QED  BY <1>2, <2>2, <3>1 DEF Entries
  <2>6. p.bi => d.pcount < p.pc
    BY <1>1, <1>3, <1>5 DEF Seen, Stale
  <2>7. CASE p.bi
    <3>1. SetPath(c, n, p.hc) = [path |-> n, hops |-> p.hc, pcount |-> k, drops |-> c.drops]
      BY <2>5, Rerouting
    <3>2. /\ Passed(e, n, p).path = n /\ Passed(e, n, p).hops = p.hc
          /\ Passed(e, n, p).pcount = k
      BY <2>4, <2>7, <3>1
    <3>3. k = p.pc
      BY <1>1, <1>3, <2>1, <2>6, <2>7
    <3>. QED  BY <1>1, <1>2, <2>6, <2>7, <3>2, <3>3 DEF Noted
  <2>8. CASE ~p.bi
    <3>1. Passed(e, n, p) = c
      BY <2>4, <2>8
    <3>2. k >= p.pc /\ (k = d.pcount \/ (d.pcount < p.pc /\ k = p.pc))
      BY <1>1, <1>3, <2>1
    <3>. QED  BY <1>2, <1>3, <2>5, <2>8, <3>1, <3>2 DEF Noted
  <2>. QED  BY <1>1, <2>7, <2>8
<1>. QED  BY <1>4, <1>5

\* A packet that goes on.
Onward(p) == [p EXCEPT !.hc = @ + 1]

LEMMA OnwardFields ==
    ASSUME NEW p \in Packets, p.hc <= MaxHops
    PROVE  /\ Onward(p) \in Packets
           /\ Onward(p) = [p EXCEPT !.hc = @ + 1, !.bi = p.bi]
           /\ Onward(p).cmd = p.cmd /\ Onward(p).data = p.data /\ Onward(p).to = p.to
           /\ Onward(p).from = p.from /\ Onward(p).pc = p.pc /\ Onward(p).bi = p.bi
           /\ Onward(p).hc = p.hc + 1
<1>1. Onward(p) = [p EXCEPT !.hc = @ + 1, !.bi = p.bi]
  BY DEF Onward, Packets
<1>2. p.bi \in BOOLEAN
  BY PacketFields
<1>3. Onward(p) \in Packets
  BY <1>1, <1>2, RelayedType
<1>. QED  BY <1>1, <1>3 DEF Onward, Packets

LEMMA RelayInPeace ==
    ASSUME TypesInv, PointersInv, Abreast, Homed, NEW s \in Servers, NEW n \in Servers,
           NEW p \in Packets, Plain(p), p.hc <= MaxHops
    PROVE  \E over \in SUBSET Neighbours(s) :
              /\ Relay(s, n, p) = <<[packet |-> Onward(p), over |-> over]>>
              /\ p.bi => over = Neighbours(s) \ {n}
<1>1. p.to \in Callsigns \cup {Everyone} /\ p.bi \in BOOLEAN
  BY PacketFields
<1>2. PICK way : way = IF p.to = Everyone
                       THEN [bi |-> TRUE, over |-> Neighbours(s) \ {n}]
                       ELSE Route(s, p.to, p.bi, {n})
  OBVIOUS
<1>3. /\ way.bi = p.bi
      /\ way.over \in SUBSET Neighbours(s)
      /\ p.bi => way.over = Neighbours(s) \ {n}
  <2>1. CASE p.to = Everyone
    <3>1. p.bi = TRUE
      BY <1>1, <2>1 DEF Plain
    <3>2. way.bi = TRUE /\ way.over = Neighbours(s) \ {n}
      BY <1>2, <2>1
    <3>. QED  BY <3>1, <3>2
  <2>2. CASE p.to # Everyone
    <3>1. p.to \in Callsigns /\ p.bi = FALSE
      BY <1>1, <2>2 DEF Plain
    <3>2. way = Route(s, p.to, FALSE, {n})
      BY <1>2, <2>2, <3>1
    <3>3. way.bi = FALSE /\ way.over \in SUBSET Neighbours(s)
      BY <3>1, <3>2, RouteInPeace
    <3>. QED  BY <3>1, <3>3
  <2>. QED  BY <2>1, <2>2
<1>4. Relay(s, n, p) =
          <<[packet |-> [p EXCEPT !.hc = @ + 1, !.bi = way.bi], over |-> way.over]>>
  BY <1>2 DEF Relay
<1>5. Relay(s, n, p) = <<[packet |-> Onward(p), over |-> way.over]>>
  BY <1>3, <1>4, OnwardFields
<1>. QED  BY <1>3, <1>5

\* What s enters for the client that p is about, if it had v.
Entered(s, p, v) ==
    CASE p.cmd = "ADDCLIENT" -> IF v = NoServer THEN p.from ELSE v
      [] OTHER -> IF v = s THEN v ELSE NoServer

\* What the users of s notice of p.
Noticed(s, p) ==
    /\ \A x \in Servers : \A c \in Callsigns :
          clients'[x][c] = IF x = s /\ Changes(p, c) THEN Entered(s, p, clients[s][c])
                           ELSE clients[x][c]
    /\ \A x \in Servers : \A m \in Messages : heard'[x][m] >= heard[x][m]
    /\ p.cmd = "MC" /\ p.to = Everyone => heard'[s][p.data.message] >= 1

\* s writes p on: a broadcast to all others, unless it is the login of a client
\* that s knows already.
Passes(s, n, p, over) ==
    /\ over \in SUBSET Neighbours(s)
    /\ Moved({<<n, s>>}, {s} \X over, Onward(p))
    /\ p.bi => \/ over = Neighbours(s) \ {n}
               \/ p.cmd = "ADDCLIENT" /\ clients[s][p.data.callsign] # NoServer

LEMMA ForwardPasses ==
    ASSUME TypesInv, PointersInv, Linked, Abreast, Homed, UNCHANGED <<links, knocks>>,
           NEW s \in Servers, NEW n \in Servers, wire[<<n, s>>] # <<>>,
           NEW p \in Packets, Plain(p), p.hc <= MaxHops, Forward(s, n, p)
    PROVE  \E over : Passes(s, n, p, over)
<1>1. PICK over \in SUBSET Neighbours(s) :
          /\ Relay(s, n, p) = <<[packet |-> Onward(p), over |-> over]>>
          /\ p.bi => over = Neighbours(s) \ {n}
  BY RelayInPeace
<1>2. wire \in Wires
  BY DEF TypesInv
<1>3. Transmit(s, <<[packet |-> Onward(p), over |-> over]>>, Read({<<n, s>>}))
  BY <1>1, <1>2, ConsumedMoves DEF Forward
<1>4. Onward(p) \in Packets
  BY OnwardFields
<1>5. Moved({<<n, s>>}, {s} \X over, Onward(p))
  BY <1>2, <1>3, <1>4, SentMoves
<1>. QED  BY <1>1, <1>5 DEF Passes

\* s handles p, having noted f of its origin.
LEMMA RunInPeace ==
    ASSUME TypesInv, PointersInv, Linked, Abreast, Homed, UNCHANGED <<links, knocks>>,
           NEW s \in Servers, NEW n \in Servers, wire[<<n, s>>] # <<>>,
           NEW p \in Packets, Plain(p), p.hc <= MaxHops,
           p.from \in DOMAIN table[s] \ {s},
           NEW f \in Entries, p.bi => f.hops = p.hc,
           NEW t, t = With(table[s], p.from, f), RunCmd(s, n, p, t)
    PROVE  /\ Update(s, t) /\ UNCHANGED count
           /\ Noticed(s, p)
           /\ \E over : Passes(s, n, p, over)
<1>1. /\ clients \in Registers /\ heard \in Ears /\ wire \in Wires
      /\ DOMAIN table[s] \subseteq Servers
  BY DEF TypesInv, Typed
<1>2. /\ p.cmd \in DOMAIN Payload /\ p.data \in Payload[p.cmd] /\ p.hc \in 1..(MaxHops + 1)
      /\ p.from \in Servers /\ p.from # NoServer
  BY PacketFields, FsdAssumption
<1>3. ASSUME UNCHANGED heard
      PROVE  \A x \in Servers : \A m \in Messages : heard'[x][m] >= heard[x][m]
  BY <1>1, <1>3 DEF Ears
<1>4. ASSUME UNCHANGED <<clients, heard>>, p.cmd \notin {"ADDCLIENT", "RMCLIENT"},
             ~(p.cmd = "MC" /\ p.to = Everyone)
      PROVE  Noticed(s, p)
  BY <1>3, <1>4 DEF Noticed, Changes
<1>5. ASSUME Forward(s, n, p)
      PROVE  UNCHANGED count /\ \E over : Passes(s, n, p, over)
  BY <1>5, ForwardPasses DEF Forward
<1>6. CASE /\ ~NeedLocalDelivery(s, p)
           /\ Update(s, t)
           /\ UNCHANGED <<clients, heard>>
           /\ Forward(s, n, p)
  <2>1. p.to # Everyone
    BY <1>6 DEF NeedLocalDelivery
  <2>2. p.cmd = "MC"
    BY <2>1 DEF Plain
  <2>. QED  BY <1>4, <1>5, <1>6, <2>1, <2>2
<1>7. CASE ExecTable(s, n, p, t)
  <2>1. p.cmd \in {"NOTIFY", "SYNC"}
    BY <1>7 DEF ExecTable, Plain
  <2>2. Tabled(s, n, p, t) = t
    <3>1. CASE p.cmd = "SYNC"
      BY <3>1 DEF Tabled
    <3>2. CASE p.cmd = "NOTIFY"
      <4>1. p.data.server = p.from /\ p.bi
        BY <3>2 DEF Plain
      <4>2. p.from \in DOMAIN t /\ t[p.from] = f /\ p.from # s
        BY DEF With
      <4>3. f.hops > NoHops /\ p.hc >= f.hops
        BY <1>2, <4>1, FsdAssumption DEF NoHops
      <4>4. Notified(s, n, p, t) = With(t, p.from, f)
        BY <4>1, <4>2, <4>3 DEF Notified
      <4>5. With(t, p.from, f) = t
        BY DEF With
      <4>. QED  BY <3>2, <4>4, <4>5 DEF Tabled
    <3>. QED  BY <2>1, <3>1, <3>2
  <2>3. Update(s, t) /\ UNCHANGED <<clients, heard>> /\ Forward(s, n, p)
    BY <1>7, <2>2 DEF ExecTable
  <2>. QED  BY <1>4, <1>5, <2>1, <2>3
<1>8. CASE ExecAddClient(s, n, p, t)
  <2>1. PICK c : c = p.data.callsign
    OBVIOUS
  <2>2. p.cmd = "ADDCLIENT" /\ Update(s, t) /\ UNCHANGED heard /\ p.data.location = p.from
    BY <1>8 DEF ExecAddClient, Plain
  <2>3. c \in Callsigns
    BY <1>2, <2>1, <2>2 DEF Payload
  <2>4. p.data.location \in DOMAIN t \ {s}
    BY <2>2 DEF With
  <2>5. \A d \in Callsigns : Changes(p, d) <=> d = c
    BY <2>1, <2>2 DEF Changes
  <2>6. \/ /\ clients[s][c] = NoServer
           /\ clients' = [clients EXCEPT ![s][c] = p.from]
           /\ Forward(s, n, p)
        \/ /\ clients[s][c] # NoServer
           /\ UNCHANGED clients
           /\ Consume(s, n)
    BY <1>8, <2>1, <2>2, <2>4 DEF ExecAddClient
  <2>7. CASE /\ clients[s][c] = NoServer
             /\ clients' = [clients EXCEPT ![s][c] = p.from]
             /\ Forward(s, n, p)
    <3>1. Entered(s, p, clients[s][c]) = p.from
      BY <2>2, <2>7 DEF Entered
    <3>2. \A x \in Servers : \A d \in Callsigns :
             clients'[x][d] = IF x = s /\ d = c THEN p.from ELSE clients[x][d]
      BY <1>1, <2>3, <2>7 DEF Registers
    <3>3. Noticed(s, p)
      BY <1>3, <2>2, <2>5, <3>1, <3>2 DEF Noticed
    <3>. QED  BY <1>5, <2>2, <2>7, <3>3
  <2>8. CASE /\ clients[s][c] # NoServer
             /\ UNCHANGED clients
             /\ Consume(s, n)
    <3>1. Entered(s, p, clients[s][c]) = clients[s][c]
      BY <2>2, <2>8 DEF Entered
    <3>2. Noticed(s, p)
      BY <1>3, <2>2, <2>5, <2>8, <3>1 DEF Noticed
    <3>3. Moved({<<n, s>>}, {s} \X {}, Onward(p))
      BY <1>1, <2>8, ConsumedMoves DEF Consume
    <3>4. Passes(s, n, p, {})
      BY <2>1, <2>2, <2>8, <3>3 DEF Passes
    <3>. QED  BY <2>2, <2>8, <3>2, <3>4 DEF Consume
  <2>. QED  BY <2>6, <2>7, <2>8
<1>9. CASE ExecRmClient(s, n, p, t)
  <2>1. PICK c : c = p.data.callsign
    OBVIOUS
  <2>2. /\ p.cmd = "RMCLIENT" /\ Update(s, t) /\ UNCHANGED heard
        /\ clients' = [clients EXCEPT ![s][c] = IF @ = s THEN @ ELSE NoServer]
        /\ Forward(s, n, p)
    BY <1>9, <2>1 DEF ExecRmClient
  <2>3. c \in Callsigns
    BY <1>2, <2>1, <2>2 DEF Payload
  <2>4. \A d \in Callsigns : Changes(p, d) <=> d = c
    BY <2>1, <2>2 DEF Changes
  <2>5. Entered(s, p, clients[s][c]) = IF clients[s][c] = s THEN clients[s][c] ELSE NoServer
    BY <2>2 DEF Entered
  <2>6. \A x \in Servers : \A d \in Callsigns :
           clients'[x][d] = IF x = s /\ d = c
                            THEN IF clients[s][c] = s THEN clients[s][c] ELSE NoServer
                            ELSE clients[x][d]
    BY <1>1, <2>2, <2>3 DEF Registers
  <2>7. Noticed(s, p)
    BY <1>3, <2>2, <2>4, <2>5, <2>6 DEF Noticed
  <2>. QED  BY <1>5, <2>2, <2>7
<1>10. CASE ExecMulticast(s, n, p, t)
  <2>1. PICK m : m = p.data.message
    OBVIOUS
  <2>2. /\ p.cmd = "MC" /\ Update(s, t) /\ UNCHANGED clients /\ Forward(s, n, p)
        /\ heard' = [heard EXCEPT ![s][m] = IF @ < 2 THEN @ + 1 ELSE @]
    BY <1>10, <2>1 DEF ExecMulticast
  <2>3. m \in Messages
    BY <1>2, <2>1, <2>2 DEF Payload
  <2>4. \A x \in Servers : \A k \in Messages :
           /\ heard[x][k] \in 0..2
           /\ heard'[x][k] = IF x = s /\ k = m
                             THEN IF heard[s][m] < 2 THEN heard[s][m] + 1 ELSE heard[s][m]
                             ELSE heard[x][k]
    BY <1>1, <2>2, <2>3 DEF Ears
  <2>5. heard'[s][m] >= 1 /\ \A x \in Servers : \A k \in Messages : heard'[x][k] >= heard[x][k]
    BY <2>3, <2>4
  <2>6. Noticed(s, p)
    BY <2>1, <2>2, <2>5 DEF Noticed, Changes
  <2>. QED  BY <1>5, <2>2, <2>6
<1>11. ~ExecLinkdown(s, n, p, t)
  BY DEF ExecLinkdown, Plain
<1>. QED  BY <1>6, <1>7, <1>8, <1>9, <1>10, <1>11 DEF RunCmd

\* The first packet p of <<n, s>> is read and dropped, ...
Dropped(s, n, p) ==
    /\ UNCHANGED <<clients, heard>>
    /\ Moved({<<n, s>>}, {s} \X {}, p)
    /\ p.bi => Refuses(s, p)
    /\ \/ UNCHANGED table /\ (p.from = s \/ p.hc > MaxHops)
       \/ /\ p.from \in DOMAIN table[s] \ {s}
          /\ \E f : /\ Noted(table[s][p.from], f, n, p)
                    /\ f.pcount = table[s][p.from].pcount
                    /\ Update(s, With(table[s], p.from, f))

\* ... or handled, and written to the servers of over.
Handled(s, n, p, over) ==
    /\ p.hc <= MaxHops
    /\ p.bi => ~Refuses(s, p)
    /\ p.from \in DOMAIN table[s] \ {s}
    /\ \E f : /\ Noted(table[s][p.from], f, n, p)
              /\ f.pcount >= p.pc
              /\ Update(s, With(table[s], p.from, f))
    /\ Noticed(s, p)
    /\ Passes(s, n, p, over)

LEMMA ReceiveInPeace ==
    ASSUME TypesInv, PointersInv, Linked, Abreast, Homed, Peace,
           NEW s \in Servers, NEW n \in Servers, Receive(s, n),
           NEW p, p = wire[<<n, s>>][1], Plain(p), Reachable(p.from, s),
           p.bi /\ p.hc > MaxHops => Refuses(s, p)
    PROVE  /\ 1 \in DOMAIN wire[<<n, s>>] /\ p \in Packets
           /\ UNCHANGED <<links, knocks, said, count>>
           /\ Dropped(s, n, p) \/ \E over : Handled(s, n, p, over)
<1>1. wire \in Wires /\ wire[<<n, s>>] \in Seq(Packets) /\ wire[<<n, s>>] # <<>>
      /\ <<n, s>> \in Servers \X Servers
  BY DEF TypesInv, Wires, Channels, Peers, Receive
<1>2. /\ 1 \in DOMAIN wire[<<n, s>>] /\ p \in Packets
      /\ p = Head(wire[<<n, s>>])
  BY <1>1
<1>3. UNCHANGED <<started, links, knocks, said, left>>
      /\ (Discard(s, n, p) \/ FromStranger(s, n, p) \/ FromKnown(s, n, p))
  BY <1>2 DEF Receive
<1>4. p.from \in Servers /\ p.pc \in Nat
  <2>1. p.pc \in 0..(MaxCount + 1)
    BY <1>2, PacketFields
  <2>. QED  BY <1>2, <2>1, PacketFields
<1>5. ASSUME Consume(s, n)
      PROVE  UNCHANGED count /\ Moved({<<n, s>>}, {s} \X {}, p)
  BY <1>1, <1>5, ConsumedMoves DEF Consume
<1>6. p.from # s => p.from \in DOMAIN table[s]
  <2>1. p.from # s => Reachable(s, p.from)
    BY <1>4, ReachBack
  <2>. QED  BY <1>4, <2>1 DEF Abreast
<1>7. CASE Discard(s, n, p)
  <2>1. /\ UNCHANGED <<table, clients, heard>>
        /\ p.hc > MaxHops \/ p.from = s
        /\ UNCHANGED count /\ Moved({<<n, s>>}, {s} \X {}, p)
    BY <1>5, <1>7 DEF Discard
  <2>2. p.bi => Refuses(s, p)
    BY <2>1 DEF Refuses
  <2>3. Dropped(s, n, p)
    BY <2>1, <2>2 DEF Dropped
  <2>. QED  BY <1>2, <1>3, <2>1, <2>3
<1>8. CASE FromStranger(s, n, p)
  <2>1. p.from \notin DOMAIN table[s]
    BY <1>8 DEF FromStranger
  <2>2. p.from # s
    BY <2>1 DEF TypesInv, Typed
  <2>. QED  BY <1>6, <2>1, <2>2
<1>9. CASE FromKnown(s, n, p)
  <2>1. PICK d : d = table[s][p.from]
    OBVIOUS
  <2>2. PICK e : e = Rerouted(d, n, p)
    OBVIOUS
  <2>3. p.hc <= MaxHops /\ p.from \in DOMAIN table[s] \ {s}
    BY <1>9 DEF FromKnown
  <2>4. d \in Entries /\ d.drops < DropLimit /\ p.pc <= d.pcount + MaxSpace /\ d.pcount \in Int
    <3>1. d \in Entries
      BY <2>1, <2>3 DEF TypesInv, Typed
    <3>2. d.drops < DropLimit
      BY <2>1, <2>3 DEF Peace, NoneGivesIn
    <3>3. p.pc <= d.pcount + MaxSpace
      <4>1. PICK l : l = <<n, s>>
        OBVIOUS
      <4>2. l \in Servers \X Servers /\ l[2] = s /\ 1 \in DOMAIN wire[l] /\ p = wire[l][1]
        BY <1>1, <1>2, <4>1
      <4>. QED  BY <2>1, <2>3, <4>2 DEF Peace, Near
    <3>. QED  BY <3>1, <3>2, <3>3, FsdAssumption DEF Entries
  <2>5. /\ Seen(e, p) => /\ p.pc <= d.pcount
                         /\ Noted(d, DropCounted(e), n, p)
                         /\ DropCounted(e).pcount = d.pcount
        /\ ~Seen(e, p) => /\ Noted(d, Passed(e, n, p), n, p)
                          /\ Passed(e, n, p).pcount >= p.pc
                          /\ p.bi => d.pcount < p.pc /\ Passed(e, n, p).hops = p.hc
    BY <1>2, <2>2, <2>3, <2>4, FilterInPeace
  <2>6. CASE /\ Seen(e, p)
             /\ Update(s, With(table[s], p.from, DropCounted(e)))
             /\ UNCHANGED <<clients, heard>>
             /\ Consume(s, n)
    <3>1. Refuses(s, p)
      BY <1>4, <2>1, <2>3, <2>4, <2>5, <2>6 DEF Refuses
    <3>2. Dropped(s, n, p)
      BY <1>5, <2>1, <2>3, <2>5, <2>6, <3>1 DEF Dropped
    <3>. QED  BY <1>2, <1>3, <1>5, <2>6, <3>2
  <2>7. CASE ~Seen(e, p) /\ RunCmd(s, n, p, With(table[s], p.from, Passed(e, n, p)))
    <3>1. PICK f : f = Passed(e, n, p)
      OBVIOUS
    <3>2. f \in Entries /\ Noted(d, f, n, p) /\ f.pcount >= p.pc /\ (p.bi => f.hops = p.hc)
      BY <2>5, <2>7, <3>1 DEF Noted
    <3>3. p.bi => ~Refuses(s, p)
      BY <1>4, <2>1, <2>3, <2>4, <2>5, <2>7 DEF Refuses
    <3>4. PICK t : t = With(table[s], p.from, f)
      OBVIOUS
    <3>5. RunCmd(s, n, p, t)
      BY <2>7, <3>1, <3>4
    <3>6. /\ Update(s, t) /\ UNCHANGED count
          /\ Noticed(s, p)
          /\ \E over : Passes(s, n, p, over)
      BY <1>1, <1>2, <1>3, <2>3, <3>2, <3>4, <3>5, RunInPeace
    <3>7. PICK over : Passes(s, n, p, over)
      BY <3>6
    <3>8. Handled(s, n, p, over)
      BY <2>1, <2>3, <3>2, <3>3, <3>4, <3>6, <3>7 DEF Handled
    <3>. QED  BY <1>2, <1>3, <3>6, <3>8
  <2>. QED  BY <1>9, <2>1, <2>2, <2>6, <2>7 DEF FromKnown
<1>. QED  BY <1>3, <1>7, <1>8, <1>9
-----------------------------------------------------------------------------
(***************************************************************************)
(* What the servers refuse after a step.                                   *)
(***************************************************************************)
LEMMA RefusesLaunched ==
    ASSUME UNCHANGED table, NEW x, NEW b
    PROVE  Refuses(x, b)' <=> Refuses(x, b)
BY DEF Refuses

LEMMA RefusesUpdated ==
    ASSUME TypesInv, NEW s \in Servers, NEW n, NEW p \in Packets,
           p.from \in DOMAIN table[s] \ {s}, NEW f,
           Noted(table[s][p.from], f, n, p), Update(s, With(table[s], p.from, f)),
           NEW x \in Servers, NEW b \in Packets
    PROVE  /\ f.pcount = table[s][p.from].pcount => (Refuses(x, b)' <=> Refuses(x, b))
           /\ f.pcount >= p.pc =>
                 (Refuses(x, b)' <=>
                      Refuses(x, b) \/ (x = s /\ b.from = p.from /\ b.pc <= p.pc))
<1>1. PICK d : d = table[s][p.from]
  OBVIOUS
<1>2. /\ d.pcount \in Int /\ f.pcount \in Int /\ b.pc \in Int /\ p.pc \in Int
      /\ f.pcount = d.pcount \/ (d.pcount < p.pc /\ f.pcount = p.pc)
  <2>1. d \in Entries /\ f \in Entries
    BY <1>1 DEF TypesInv, Typed, Noted
  <2>2. d.pcount \in -1..(MaxCount + 1) /\ f.pcount \in -1..(MaxCount + 1)
    BY <2>1 DEF Entries
  <2>3. b.pc \in 0..(MaxCount + 1) /\ p.pc \in 0..(MaxCount + 1)
    BY PacketFields
  <2>. QED  BY <1>1, <2>2, <2>3, FsdAssumption DEF Noted
<1>3. /\ x # s => table'[x] = table[x]
      /\ table'[s] = With(table[s], p.from, f)
  BY DEF TypesInv, Update
<1>4. CASE x # s
  BY <1>3, <1>4 DEF Refuses
<1>5. CASE x = s
  <2>1. CASE b.from = p.from
    <3>1. Refuses(s, b) <=> d.pcount >= b.pc
      BY <1>1, <2>1 DEF Refuses
    <3>2. p.from \in DOMAIN table'[s] /\ table'[s][p.from] = f
      BY <1>3 DEF With
    <3>3. Refuses(s, b)' <=> f.pcount >= b.pc
      BY <2>1, <3>2 DEF Refuses
    <3>. QED  BY <1>1, <1>2, <1>5, <2>1, <3>1, <3>3
  <2>2. CASE b.from # p.from
    <3>1. /\ b.from \in DOMAIN table'[s] <=> b.from \in DOMAIN table[s]
          /\ b.from \in DOMAIN table[s] => table'[s][b.from] = table[s][b.from]
      BY <1>3, <2>2 DEF With
    <3>. QED  BY <1>5, <2>2, <3>1 DEF Refuses
  <2>. QED  BY <2>1, <2>2
<1>. QED  BY <1>4, <1>5
-----------------------------------------------------------------------------
(***************************************************************************)
(* The broadcasts B that were sent, and what is under way of them.         *)
(***************************************************************************)
Copy(p, b) == p.from = b.from /\ p.pc = b.pc

\* A copy that says the same, whatever way it came.
Same(p, b) ==
    Copy(p, b) /\ p.cmd = b.cmd /\ p.to = b.to /\ p.bi = b.bi /\ p.data = b.data

CopyOn(l, b) == \E i \in DOMAIN wire[l] : Copy(wire[l][i], b)

Holders(q) == {x \in Servers : Refuses(x, q)}

\* The packet q on the connection l was sent by a server that it came from, or
\* that had handled it.
Proper(l, q) ==
    /\ Plain(q)
    /\ Joined(l[1], l[2]) /\ Reachable(q.from, l[1])
    /\ q.pc < count[q.from] /\ Refuses(l[1], q)
    /\ q.from = l[1] <=> q.hc = 1

\* A broadcast under way is one of B, and has made no more hops than there are
\* servers that had it.
Traced(B, q) ==
    /\ q.bi => (\E b \in B : Same(q, b)) /\ q.hc <= Cardinality(Holders(q))
    /\ ~q.bi => \A b \in B : ~Copy(q, b)

\* Who had b gave it to all neighbours.  The login of a client is not passed on
\* by a server that knows the client, hence the kinds of packets.
Handed(b, kinds) ==
    \A x \in Servers : \A y \in Servers :
        /\ Reachable(b.from, x) /\ Joined(x, y) /\ Refuses(x, b)
        /\ b.cmd \in kinds \/ x = b.from
        => Refuses(y, b) \/ CopyOn(<<x, y>>, b)

\* No later packet of the same origin overtakes b on a connection.
InOrder(b) ==
    \A l \in Servers \X Servers : \A i \in DOMAIN wire[l] :
        wire[l][i].from = b.from /\ wire[l][i].pc > b.pc =>
            Refuses(l[2], b) \/ \E g \in DOMAIN wire[l] : g < i /\ Copy(wire[l][g], b)

Flooded(B, kinds) ==
    /\ \A b \in B : b.pc < count[b.from] /\ \A d \in B : Copy(b, d) => b = d
    /\ \A l \in Servers \X Servers : \A i \in DOMAIN wire[l] : \A q \in {wire[l][i]} :
          Proper(l, q) /\ Traced(B, q)
    /\ \A b \in B : Handed(b, kinds) /\ (b.cmd \in kinds => InOrder(b))

LEMMA OnWire ==
    ASSUME wire \in Wires, NEW l \in Servers \X Servers, NEW i \in DOMAIN wire[l]
    PROVE  /\ wire[l][i] \in Packets /\ i \in Nat \ {0}
           /\ wire[l][i].pc \in Nat /\ wire[l][i].hc \in Nat \ {0}
           /\ wire[l][i].from \in Servers /\ wire[l][i].bi \in BOOLEAN
<1>1. wire[l] \in Seq(Packets)
  BY DEF Wires, Channels, Peers
<1>2. wire[l][i] \in Packets /\ i \in Nat \ {0}
  BY <1>1
<1>3. wire[l][i].pc \in 0..(MaxCount + 1) /\ wire[l][i].hc \in 1..(MaxHops + 1)
  BY <1>2, PacketFields
<1>. QED  BY <1>2, <1>3, PacketFields, FsdAssumption

\* Who refuses a packet refuses its copies.
LEMMA RefusesCopy ==
    ASSUME NEW x, NEW p, NEW b, Copy(p, b)
    PROVE  Refuses(x, p) <=> Refuses(x, b)
BY DEF Copy, Refuses

LEMMA Counting ==
    ASSUME NEW H \in SUBSET Servers, NEW G \in SUBSET Servers, H \subseteq G
    PROVE  /\ Cardinality(H) \in Nat /\ Cardinality(G) \in Nat
           /\ Cardinality(H) <= Cardinality(G)
           /\ \A x \in G : x \notin H => Cardinality(H) + 1 <= Cardinality(G)
           /\ Cardinality(G) <= Cardinality(H) => H = G
<1>1. IsFiniteSet(H) /\ IsFiniteSet(G)
  BY FsdAssumption, FS_Subset
<1>2. Cardinality(H) \in Nat /\ Cardinality(G) \in Nat /\ Cardinality(H) <= Cardinality(G)
  BY <1>1, FS_Subset, FS_CardinalityType
<1>3. ASSUME NEW x \in G, x \notin H
      PROVE  Cardinality(H) + 1 <= Cardinality(G)
  <2>1. H \cup {x} \subseteq G
    BY <1>3
  <2>2. Cardinality(H \cup {x}) = Cardinality(H) + 1
    BY <1>1, <1>3, FS_AddElement
  <2>3. Cardinality(H \cup {x}) <= Cardinality(G)
    BY <1>1, <2>1, FS_Subset
  <2>. QED  BY <2>2, <2>3
<1>4. Cardinality(G) <= Cardinality(H) => H = G
  <2>1. ASSUME Cardinality(G) <= Cardinality(H), NEW x \in G, x \notin H
        PROVE  FALSE
    BY <1>2, <1>3, <2>1
  <2>. QED  BY <2>1
<1>. QED  BY <1>2, <1>3, <1>4

\* A broadcast that has made too many hops has been everywhere.
LEMMA BeenEverywhere ==
    ASSUME Cardinality(Servers) <= MaxHops + 1, NEW B, NEW q \in Packets, Traced(B, q),
           q.bi, q.hc > MaxHops, NEW s \in Servers
    PROVE  Refuses(s, q)
<1>1. Holders(q) \in SUBSET Servers /\ Servers \in SUBSET Servers
  BY DEF Holders
<1>2. q.hc <= Cardinality(Holders(q)) /\ q.hc \in 1..(MaxHops + 1)
  BY PacketFields DEF Traced
<1>3. /\ Cardinality(Holders(q)) \in Nat /\ Cardinality(Servers) \in Nat
      /\ Cardinality(Servers) <= Cardinality(Holders(q)) => Holders(q) = Servers
  BY <1>1, Counting
<1>4. Holders(q) = Servers
  BY <1>2, <1>3, FsdAssumption
<1>. QED  BY <1>4 DEF Holders
-----------------------------------------------------------------------------
(***************************************************************************)
(* The flood goes on: a packet is sent, ...                                *)
(***************************************************************************)
\* B and the packet q, if it is a broadcast.
And(B, q) == IF q.bi THEN B \cup {q} ELSE B

LEMMA CountLaunched ==
    ASSUME TypesInv, NEW s \in Servers, NEW q, NEW over, Launch(s, q, over)
    PROVE  /\ \A x \in Servers : count[x] \in Nat /\ count'[x] \in Nat
           /\ \A x \in Servers : count[x] <= count'[x]
           /\ \A x \in Servers \ {s} : count'[x] = count[x]
           /\ count'[s] = count[s] + 1
<1>1. count \in [Servers -> 0..MaxCount] /\ MaxCount \in Nat
  BY FsdAssumption DEF TypesInv
<1>2. count' = [count EXCEPT ![s] = @ + 1]
  BY DEF Launch
<1>. QED  BY <1>1, <1>2

\* Nobody else has a packet that has only been sent now.
LEMMA NewsToAll ==
    ASSUME TypesInv, Abreast, NEW s \in Servers, NEW q, NEW over, Launch(s, q, over),
           NEW x \in Servers, Reachable(s, x), Refuses(x, q)
    PROVE  x = s
<1>1. SUFFICES ASSUME x # s PROVE FALSE
  OBVIOUS
<1>2. Reachable(x, s)
  BY ReachBack
<1>3. s \in DOMAIN table[x] /\ table[x][s].pcount < count[s]
  BY <1>1, <1>2 DEF Abreast
<1>4. table[x][s].pcount \in Int /\ count[s] \in Int
  <2>1. table[x][s] \in Entries
    BY <1>3 DEF TypesInv, Typed
  <2>2. table[x][s].pcount \in -1..(MaxCount + 1) /\ count[s] \in 0..MaxCount
    BY <2>1 DEF Entries, TypesInv
  <2>. QED  BY <2>2, FsdAssumption
<1>. QED  BY <1>1, <1>3, <1>4 DEF Refuses, Launch

LEMMA FloodLaunch ==
    ASSUME TypesInv, Linked, Abreast, NEW kinds, NEW B \in SUBSET Packets,
           Flooded(B, kinds), NEW s \in Servers, NEW q, NEW over, Launch(s, q, over)
    PROVE  Flooded(And(B, q), kinds)'
<1>1. /\ UNCHANGED <<table, links, knocks>> /\ wire \in Wires
      /\ Moved({}, {s} \X over, q) /\ q \in Packets /\ Plain(q)
      /\ q.from = s /\ q.pc = count[s] /\ q.hc = 1 /\ over \in SUBSET Neighbours(s)
      /\ q.bi => over = Neighbours(s)
  BY DEF Launch, TypesInv
<1>2. /\ \A x \in Servers : count[x] \in Nat /\ count'[x] \in Nat /\ count[x] <= count'[x]
      /\ count'[s] = count[s] + 1
  BY CountLaunched
<1>3. ASSUME NEW l \in Servers \X Servers
      PROVE  /\ \A j \in DOMAIN wire'[l] :
                   \/ j \in DOMAIN wire[l] /\ wire'[l][j] = wire[l][j]
                   \/ l \in {s} \X over /\ j = Len(wire'[l]) /\ wire'[l][j] = q
             /\ \A i \in DOMAIN wire[l] : i \in DOMAIN wire'[l] /\ wire'[l][i] = wire[l][i]
             /\ l \in {s} \X over => /\ Len(wire'[l]) \in DOMAIN wire'[l]
                                     /\ wire'[l][Len(wire'[l])] = q
             /\ wire'[l] \in Seq(Packets)
  <2>1. PICK read : read = {}
    OBVIOUS
  <2>2. \A j : Was(read, l, j) = j
    BY <2>1 DEF Was
  <2>3. Moved(read, {s} \X over, q) /\ \A k \in read : wire[k] # <<>>
    BY <1>1, <2>1
  <2>4. After(read, {s} \X over, q, l)
    BY <1>1, <2>3, MovedFacts
  <2>. QED  BY <2>1, <2>2, <2>4 DEF After
<1>4. ASSUME NEW b \in B
      PROVE  b \in Packets /\ b.from \in Servers /\ b.pc \in Nat
  <2>1. b.pc \in 0..(MaxCount + 1)
    BY PacketFields
  <2>. QED  BY <2>1, PacketFields, FsdAssumption
<1>5. \A x : \A b : Refuses(x, b)' <=> Refuses(x, b)
  BY <1>1, RefusesLaunched
<1>6. \A x : \A y : (Joined(x, y)' <=> Joined(x, y)) /\ (Reachable(x, y)' <=> Reachable(x, y))
  BY <1>1, ReachKept
<1>7. \A l \in Servers \X Servers : \A b : CopyOn(l, b) => CopyOn(l, b)'
  BY <1>3 DEF CopyOn
<1>8. ASSUME NEW l \in Servers \X Servers, l \in {s} \X over
      PROVE  l[1] = s /\ l[2] \in Servers /\ Joined(s, l[2]) /\ <<s, l[2]>> = l
  <2>1. l[1] = s /\ l[2] \in over /\ <<s, l[2]>> = l
    BY <1>8
  <2>2. l[2] \in Neighbours(s) /\ l[2] \in Servers
    BY <1>1, <2>1 DEF Neighbours, Peers
  <2>. QED  BY <2>1, <2>2, JoinedNeighbours
<1>9. \A b \in And(B, q) : b.pc < count'[b.from] /\ \A d \in And(B, q) : Copy(b, d) => b = d
  <2>1. \A b \in B : b.pc < count[b.from] /\ \A d \in B : Copy(b, d) => b = d
    BY DEF Flooded
  <2>2. \A b \in B : b.pc < count'[b.from] /\ ~Copy(b, q) /\ ~Copy(q, b)
    BY <1>1, <1>2, <1>4, <2>1 DEF Copy
  <2>3. q.pc < count'[q.from]
    BY <1>1, <1>2
  <2>. QED  BY <2>1, <2>2, <2>3 DEF And
<1>10. ASSUME NEW l \in Servers \X Servers, NEW j \in DOMAIN wire'[l],
              NEW r \in {wire'[l][j]}
       PROVE  Proper(l, r)' /\ Traced(And(B, q), r)'
  <2>1. CASE j \in DOMAIN wire[l] /\ wire'[l][j] = wire[l][j]
    <3>1. r = wire[l][j]
      BY <1>10, <2>1
    <3>2. /\ r \in Packets /\ r.from \in Servers /\ r.pc \in Nat
          /\ Proper(l, r) /\ Traced(B, r)
      BY <1>1, <2>1, <3>1, OnWire DEF Flooded
    <3>3. Proper(l, r)'
      <4>1. r.pc < count'[r.from]
        BY <1>2, <3>2 DEF Proper
      <4>. QED  BY <1>5, <1>6, <3>2, <4>1 DEF Proper
    <3>4. Holders(r)' = Holders(r)
      BY <1>5 DEF Holders
    <3>5. ~Copy(r, q)
      BY <1>1, <1>2, <3>2 DEF Proper, Copy
    <3>6. Traced(And(B, q), r)'
      BY <3>2, <3>4, <3>5 DEF Traced, And
    <3>. QED  BY <3>3, <3>6
  <2>2. CASE l \in {s} \X over /\ wire'[l][j] = q
    <3>1. Proper(l, q)'
      <4>1. Reachable(s, s)
        BY ReachSelf
      <4>2. Refuses(s, q) /\ q.pc < count'[q.from]
        BY <1>1, <1>2 DEF Refuses
      <4>. QED  BY <1>1, <1>5, <1>6, <1>8, <2>2, <4>1, <4>2 DEF Proper
    <3>2. Traced(And(B, q), q)'
      <4>1. q.bi => q \in And(B, q) /\ Same(q, q)
        BY DEF And, Same, Copy
      <4>2. 1 <= Cardinality(Holders(q)')
        <5>1. s \in Holders(q)' /\ Holders(q)' \in SUBSET Servers
          BY <1>1, <1>5 DEF Holders, Refuses
        <5>2. {} \in SUBSET Servers /\ {} \subseteq Holders(q)' /\ s \notin {}
          OBVIOUS
        <5>3. Cardinality({}) \in Nat /\ Cardinality({}) + 1 <= Cardinality(Holders(q)')
          BY <5>1, <5>2, Counting
        <5>4. Cardinality({}) = 0
          BY FS_EmptySet
        <5>. QED  BY <5>3, <5>4
      <4>3. \A b \in B : ~Copy(q, b)
        <5>1. \A b \in B : b.pc < count[b.from]
          BY DEF Flooded
        <5>. QED  BY <1>1, <1>2, <1>4, <5>1 DEF Copy
      <4>. QED  BY <1>1, <4>1, <4>2, <4>3 DEF Traced, And
    <3>3. r = q
      BY <1>10, <2>2
    <3>. QED  BY <3>1, <3>2, <3>3
  <2>. QED  BY <1>3, <2>1, <2>2
<1>11. \A b \in B : Handed(b, kinds)'
  <2>1. ASSUME NEW b \in B, NEW x \in Servers, NEW y \in Servers,
               Reachable(b.from, x), Joined(x, y), Refuses(x, b),
               b.cmd \in kinds \/ x = b.from
        PROVE  Refuses(y, b) \/ CopyOn(<<x, y>>, b)'
    <3>1. Refuses(y, b) \/ CopyOn(<<x, y>>, b)
      BY <2>1 DEF Flooded, Handed
    <3>. QED  BY <1>7, <3>1
  <2>. QED  BY <1>5, <1>6, <2>1 DEF Handed
<1>12. q.bi => Handed(q, kinds)'
  <2>1. ASSUME q.bi, NEW x \in Servers, NEW y \in Servers, Reachable(q.from, x),
               Joined(x, y), Refuses(x, q)
        PROVE  CopyOn(<<x, y>>, q)'
    <3>1. x = s
      BY <1>1, <2>1, NewsToAll
    <3>2. PICK l : l = <<s, y>>
      OBVIOUS
    <3>3. y \in over
      BY <1>1, <2>1, <3>1, JoinedNeighbours
    <3>4. l \in Servers \X Servers /\ l \in {s} \X over
      BY <3>2, <3>3
    <3>5. Len(wire'[l]) \in DOMAIN wire'[l] /\ wire'[l][Len(wire'[l])] = q
      BY <1>3, <3>4
    <3>6. Copy(q, q)
      BY DEF Copy
    <3>. QED  BY <3>1, <3>2, <3>5, <3>6 DEF CopyOn
  <2>. QED  BY <1>5, <1>6, <2>1 DEF Handed
<1>13. ASSUME NEW b \in B, b.cmd \in kinds
       PROVE  InOrder(b)'
  <2>1. SUFFICES ASSUME NEW l \in Servers \X Servers, NEW j \in DOMAIN wire'[l],
                        wire'[l][j].from = b.from, wire'[l][j].pc > b.pc
                 PROVE  Refuses(l[2], b) \/ \E g \in DOMAIN wire'[l] :
                                               g < j /\ Copy(wire'[l][g], b)
    BY <1>5 DEF InOrder
  <2>2. CASE j \in DOMAIN wire[l] /\ wire'[l][j] = wire[l][j]
    <3>1. Refuses(l[2], b) \/ \E g \in DOMAIN wire[l] : g < j /\ Copy(wire[l][g], b)
      BY <1>13, <2>1, <2>2 DEF Flooded, InOrder
    <3>. QED  BY <1>3, <3>1
  <2>3. CASE l \in {s} \X over /\ j = Len(wire'[l]) /\ wire'[l][j] = q
    <3>1. b.from = s
      BY <1>1, <2>1, <2>3
    <3>2. Reachable(b.from, s) /\ Refuses(s, b)
      BY <3>1, ReachSelf DEF Refuses
    <3>3. /\ l[1] = s /\ l[2] \in Servers /\ Joined(s, l[2]) /\ <<s, l[2]>> = l
      BY <1>8, <2>3
    <3>4. Refuses(l[2], b) \/ CopyOn(l, b)
      BY <1>13, <3>2, <3>3 DEF Flooded, Handed
    <3>5. ASSUME NEW g \in DOMAIN wire[l], Copy(wire[l][g], b)
          PROVE  g \in DOMAIN wire'[l] /\ g < j /\ Copy(wire'[l][g], b)
      <4>1. g \in DOMAIN wire'[l] /\ wire'[l][g] = wire[l][g]
        BY <1>3
      <4>2. g # j
        <5>1. b.pc < count[s]
          BY <1>13, <3>1 DEF Flooded
        <5>2. wire[l][g].pc = b.pc
          BY <3>5 DEF Copy
        <5>. QED  BY <1>1, <1>2, <1>4, <2>3, <4>1, <5>1, <5>2
      <4>3. wire'[l] \in Seq(Packets)
        BY <1>3
      <4>. QED  BY <2>3, <3>5, <4>1, <4>2, <4>3
    <3>. QED  BY <3>4, <3>5 DEF CopyOn
  <2>. QED  BY <1>3, <2>2, <2>3
<1>14. q.bi => InOrder(q)'
  <2>1. ASSUME NEW l \in Servers \X Servers, NEW j \in DOMAIN wire'[l],
               wire'[l][j].from = q.from, wire'[l][j].pc > q.pc
        PROVE  FALSE
    <3>1. CASE j \in DOMAIN wire[l] /\ wire'[l][j] = wire[l][j]
      <4>1. wire[l][j].pc < count[s] /\ wire[l][j].pc \in Nat
        BY <1>1, <2>1, <3>1, OnWire DEF Flooded, Proper
      <4>. QED  BY <1>1, <1>2, <2>1, <3>1, <4>1
    <3>2. CASE wire'[l][j] = q
      BY <1>1, <1>2, <2>1, <3>2
    <3>. QED  BY <1>3, <3>1, <3>2
  <2>. QED  BY <2>1 DEF InOrder
<1>15. \A b \in And(B, q) : b \in B \/ (b = q /\ q.bi)
  BY DEF And
<1>. QED  BY <1>9, <1>10, <1>11, <1>12, <1>13, <1>14, <1>15 DEF Flooded

(***************************************************************************)
(* ... or read: the first packet p of <<n, s>> is dropped, or, if it is    *)
(* new, noted by s and written to the servers of over as q.                *)
(***************************************************************************)
Passing(kinds, s, n, p, q, over, new) ==
    /\ UNCHANGED <<links, knocks, count>>
    /\ p = wire[<<n, s>>][1] /\ 1 \in DOMAIN wire[<<n, s>>]
    /\ q \in Packets /\ over \in SUBSET Neighbours(s)
    /\ Moved({<<n, s>>}, {s} \X over, q)
    /\ \A x \in Servers : \A b \in Packets :
          Refuses(x, b)' <=>
              \/ Refuses(x, b)
              \/ new /\ x = s /\ b.from = p.from /\ b.pc <= p.pc
    /\ new => /\ p.from # s /\ Same(q, p) /\ q.hc = p.hc + 1
              /\ p.bi => ~Refuses(s, p)
              /\ p.bi /\ p.cmd \in kinds => over = Neighbours(s) \ {n}
    /\ ~new => over = {} /\ (p.bi => Refuses(s, p))

\* What s gets to know of the broadcasts in B is p itself.
LEMMA NextOnly ==
    ASSUME NEW kinds, NEW B, Flooded(B, kinds), wire \in Wires,
           NEW s \in Servers, NEW n \in Servers, 1 \in DOMAIN wire[<<n, s>>],
           NEW p, p = wire[<<n, s>>][1],
           NEW b \in B, b \in Packets, b.cmd \in kinds, b.from = p.from, b.pc <= p.pc,
           ~Refuses(s, b)
    PROVE  p.bi /\ Same(p, b)
<1>1. PICK l : l = <<n, s>>
  OBVIOUS
<1>2. l \in Servers \X Servers /\ l[2] = s /\ 1 \in DOMAIN wire[l] /\ p = wire[l][1]
  BY <1>1
<1>3. \A g \in DOMAIN wire[l] : g \in Nat /\ ~(g < 1)
  BY <1>2, OnWire
<1>4. p.pc = b.pc
  <2>1. InOrder(b)
    BY DEF Flooded
  <2>2. ~(p.pc > b.pc)
    BY <1>2, <1>3, <2>1 DEF InOrder
  <2>3. p.pc \in Nat /\ b.pc \in Nat
    <3>1. b.pc \in 0..(MaxCount + 1)
      BY PacketFields
    <3>. QED  BY <1>2, <3>1, OnWire, FsdAssumption
  <2>. QED  BY <2>2, <2>3
<1>5. Copy(p, b)
  BY <1>4 DEF Copy
<1>6. Traced(B, p) /\ p.bi \in BOOLEAN
  BY <1>2, OnWire DEF Flooded
<1>7. p.bi
  BY <1>5, <1>6 DEF Traced
<1>8. PICK d \in B : Same(p, d)
  BY <1>6, <1>7 DEF Traced
<1>9. d = b
  <2>1. Copy(d, b)
    BY <1>5, <1>8 DEF Same, Copy
  <2>. QED  BY <2>1 DEF Flooded
<1>. QED  BY <1>7, <1>8, <1>9

\* What is on a connection afterwards, and where it was.
LEMMA PassingWires ==
    ASSUME wire \in Wires, NEW kinds, NEW s \in Servers, NEW n \in Servers, NEW p,
           NEW q, NEW over, NEW new, Passing(kinds, s, n, p, q, over, new),
           NEW l \in Servers \X Servers
    PROVE  After({<<n, s>>}, {s} \X over, q, l)
<1>1. PICK read : read = {<<n, s>>}
  OBVIOUS
<1>2. wire[<<n, s>>] # <<>>
  <2>1. DOMAIN <<>> = {}
    OBVIOUS
  <2>. QED  BY <2>1 DEF Passing
<1>3. \A k \in read : wire[k] # <<>>
  BY <1>1, <1>2
<1>4. Moved(read, {s} \X over, q) /\ q \in Packets
  BY <1>1 DEF Passing
<1>5. After(read, {s} \X over, q, l)
  BY <1>3, <1>4, MovedFacts
<1>. QED  BY <1>1, <1>5

\* A copy of b stays under way, or its reader has it now.
Kept(s, n, l, i, b) ==
    \/ Refuses(l[2], b)'
    \/ \E j \in DOMAIN wire'[l] : Was({<<n, s>>}, l, j) = i /\ wire'[l][j] = wire[l][i]

LEMMA CopyKept ==
    ASSUME wire \in Wires, NEW kinds, NEW B \in SUBSET Packets, Flooded(B, kinds),
           NEW s \in Servers, NEW n \in Servers, NEW p,
           NEW q, NEW over, NEW new, Passing(kinds, s, n, p, q, over, new),
           NEW b \in B, NEW l \in Servers \X Servers, NEW i \in DOMAIN wire[l],
           Copy(wire[l][i], b)
    PROVE  Kept(s, n, l, i, b)
<1>1. After({<<n, s>>}, {s} \X over, q, l)
  BY PassingWires
<1>2. CASE l \in {<<n, s>>} /\ i = 1
  <2>1. l = <<n, s>> /\ l[2] = s /\ Copy(p, b)
    BY <1>2 DEF Passing
  <2>2. p \in Packets /\ p.bi \in BOOLEAN /\ p.pc \in Nat
    BY <1>2, <2>1, OnWire DEF Passing
  <2>3. Traced(B, p)
    BY <1>2, <2>1 DEF Flooded, Passing
  <2>4. p.bi
    BY <2>1, <2>2, <2>3 DEF Traced
  <2>5. CASE new
    <3>1. b.from = p.from /\ b.pc <= p.pc
      BY <2>1, <2>2 DEF Copy
    <3>. QED  BY <2>1, <2>5, <3>1 DEF Passing, Kept
  <2>6. CASE ~new
    <3>1. Refuses(s, p)
      BY <2>4, <2>6 DEF Passing
    <3>2. Refuses(s, b)
      BY <2>1, <3>1, RefusesCopy
    <3>. QED  BY <2>1, <3>2 DEF Passing, Kept
  <2>. QED  BY <2>5, <2>6
<1>3. CASE ~(l \in {<<n, s>>} /\ i = 1)
  BY <1>1, <1>3 DEF After, Kept
<1>. QED  BY <1>2, <1>3

LEMMA FloodPass ==
    ASSUME TypesInv, Linked, NEW kinds, NEW B \in SUBSET Packets, Flooded(B, kinds),
           NEW s \in Servers, NEW n \in Servers, NEW p,
           NEW q, NEW over, NEW new, Passing(kinds, s, n, p, q, over, new)
    PROVE  Flooded(B, kinds)'
<1>1. wire \in Wires
  BY DEF TypesInv
<1>2. /\ UNCHANGED <<links, knocks, count>> /\ q \in Packets /\ over \in SUBSET Neighbours(s)
      /\ ~new => over = {}
      /\ new => /\ p.from # s /\ Same(q, p) /\ q.hc = p.hc + 1
                /\ p.bi => ~Refuses(s, p)
                /\ p.bi /\ p.cmd \in kinds => over = Neighbours(s) \ {n}
  BY DEF Passing
<1>3. /\ p \in Packets /\ p.bi \in BOOLEAN /\ p.pc \in Nat /\ p.hc \in Nat \ {0}
      /\ p.from \in Servers
      /\ Proper(<<n, s>>, p) /\ Traced(B, p)
  <2>1. PICK l : l = <<n, s>>
    OBVIOUS
  <2>2. l \in Servers \X Servers /\ 1 \in DOMAIN wire[l] /\ p = wire[l][1]
    BY <2>1 DEF Passing
  <2>. QED  BY <1>1, <2>1, <2>2, OnWire DEF Flooded
<1>4. \A x \in Servers : \A b \in Packets :
         /\ Refuses(x, b) => Refuses(x, b)'
         /\ Refuses(x, b)' => \/ Refuses(x, b)
                              \/ new /\ x = s /\ b.from = p.from /\ b.pc <= p.pc
         /\ new /\ x = s /\ b.from = p.from /\ b.pc <= p.pc => Refuses(x, b)'
  BY DEF Passing
<1>5. \A x : \A y : (Joined(x, y)' <=> Joined(x, y)) /\ (Reachable(x, y)' <=> Reachable(x, y))
  BY <1>2, ReachKept
<1>6. ASSUME NEW l \in Servers \X Servers, NEW j \in DOMAIN wire'[l]
      PROVE  /\ \/ /\ Was({<<n, s>>}, l, j) \in DOMAIN wire[l]
                   /\ wire'[l][j] = wire[l][Was({<<n, s>>}, l, j)]
                \/ /\ new /\ j = Len(wire'[l]) /\ wire'[l][j] = q
                   /\ l[1] = s /\ l[2] \in Servers /\ Joined(s, l[2]) /\ <<s, l[2]>> = l
             /\ j \in 1..Len(wire'[l])
  <2>1. After({<<n, s>>}, {s} \X over, q, l)
    BY <1>1, PassingWires
  <2>2. ASSUME l \in {s} \X over
        PROVE  new /\ l[1] = s /\ l[2] \in Servers /\ Joined(s, l[2]) /\ <<s, l[2]>> = l
    <3>1. l[1] = s /\ l[2] \in over /\ <<s, l[2]>> = l
      BY <2>2
    <3>2. l[2] \in Neighbours(s) /\ l[2] \in Servers /\ new
      BY <1>2, <3>1 DEF Neighbours, Peers
    <3>. QED  BY <3>1, <3>2, JoinedNeighbours
  <2>3. wire'[l] \in Seq(Packets)
    BY <2>1 DEF After
  <2>4. j \in 1..Len(wire'[l])
    BY <2>3
  <2>. QED  BY <2>1, <2>2, <2>4 DEF After
<1>7. ASSUME NEW b \in B, NEW x \in Servers, NEW y \in Servers, CopyOn(<<x, y>>, b)
      PROVE  Refuses(y, b)' \/ CopyOn(<<x, y>>, b)'
  <2>1. PICK l : l = <<x, y>>
    OBVIOUS
  <2>2. l \in Servers \X Servers /\ l[2] = y
    BY <2>1
  <2>3. PICK i \in DOMAIN wire[l] : Copy(wire[l][i], b)
    BY <1>7, <2>1 DEF CopyOn
  <2>4. Kept(s, n, l, i, b)
    BY <1>1, <2>2, <2>3, CopyKept
  <2>. QED  BY <2>1, <2>2, <2>3, <2>4 DEF CopyOn, Kept
<1>8. ASSUME NEW b \in B, b.cmd \in kinds, NEW x \in Servers, ~Refuses(x, b), Refuses(x, b)'
      PROVE  new /\ x = s /\ p.bi /\ Same(p, b)
  <2>1. b \in Packets /\ new /\ x = s /\ b.from = p.from /\ b.pc <= p.pc
    BY <1>4, <1>8
  <2>2. p = wire[<<n, s>>][1] /\ 1 \in DOMAIN wire[<<n, s>>]
    BY DEF Passing
  <2>. QED  BY <1>1, <1>8, <2>1, <2>2, NextOnly
<1>9. ASSUME new, p.bi, p.cmd \in kinds, NEW y \in Servers, Joined(s, y)
      PROVE  Refuses(y, p) \/ CopyOn(<<s, y>>, p)'
  <2>1. CASE y = n
    BY <1>3, <2>1 DEF Proper
  <2>2. CASE y # n
    <3>1. PICK l : l = <<s, y>>
      OBVIOUS
    <3>2. y \in over
      <4>1. y \in Neighbours(s)
        BY <1>9, JoinedNeighbours
      <4>2. over = Neighbours(s) \ {n}
        BY <1>2, <1>9
      <4>. QED  BY <2>2, <4>1, <4>2
    <3>3. l \in Servers \X Servers /\ l \in {s} \X over
      BY <3>1, <3>2
    <3>4. Len(wire'[l]) \in DOMAIN wire'[l] /\ wire'[l][Len(wire'[l])] = q
      <4>1. After({<<n, s>>}, {s} \X over, q, l)
        BY <1>1, <3>3, PassingWires
      <4>. QED  BY <3>3, <4>1 DEF After
    <3>5. Copy(q, p)
      BY <1>2, <1>9 DEF Same
    <3>. QED  BY <3>1, <3>4, <3>5 DEF CopyOn
  <2>. QED  BY <2>1, <2>2
<1>10. \A b \in B : Handed(b, kinds)'
  <2>1. ASSUME NEW b \in B, NEW x \in Servers, NEW y \in Servers,
               Reachable(b.from, x), Joined(x, y), Refuses(x, b)',
               b.cmd \in kinds \/ x = b.from
        PROVE  Refuses(y, b)' \/ CopyOn(<<x, y>>, b)'
    <3>1. CASE Refuses(x, b)
      <4>1. Refuses(y, b) \/ CopyOn(<<x, y>>, b)
        BY <2>1, <3>1 DEF Flooded, Handed
      <4>. QED  BY <1>4, <1>7, <4>1
    <3>2. CASE ~Refuses(x, b)
      <4>1. x # b.from
        BY <3>2 DEF Refuses
      <4>2. new /\ x = s /\ p.bi /\ Same(p, b)
        BY <1>8, <2>1, <3>2, <4>1
      <4>3. Refuses(y, p) \/ CopyOn(<<s, y>>, p)'
        BY <1>9, <2>1, <4>1, <4>2 DEF Same
      <4>4. Refuses(y, p) => Refuses(y, b)
        BY <4>2, RefusesCopy DEF Same
      <4>5. CopyOn(<<s, y>>, p)' => CopyOn(<<s, y>>, b)'
        BY <4>2 DEF CopyOn, Same, Copy
      <4>. QED  BY <1>4, <4>2, <4>3, <4>4, <4>5
    <3>. QED  BY <3>1, <3>2
  <2>. QED  BY <1>5, <2>1 DEF Handed
<1>11. ASSUME NEW b \in B, b.cmd \in kinds
       PROVE  InOrder(b)'
  <2>1. SUFFICES ASSUME NEW l \in Servers \X Servers, NEW j \in DOMAIN wire'[l],
                        wire'[l][j].from = b.from, wire'[l][j].pc > b.pc, ~Refuses(l[2], b)'
                 PROVE  \E g \in DOMAIN wire'[l] : g < j /\ Copy(wire'[l][g], b)
    BY DEF InOrder
  <2>2. l[2] \in Servers /\ l[1] \in Servers /\ l = <<l[1], l[2]>> /\ ~Refuses(l[2], b)
    BY <1>4, <2>1
  <2>3. CASE /\ Was({<<n, s>>}, l, j) \in DOMAIN wire[l]
             /\ wire'[l][j] = wire[l][Was({<<n, s>>}, l, j)]
    <3>1. PICK i \in DOMAIN wire[l] : i = Was({<<n, s>>}, l, j)
      BY <2>3
    <3>2. PICK h \in DOMAIN wire[l] : h < i /\ Copy(wire[l][h], b)
      BY <1>11, <2>1, <2>2, <2>3, <3>1 DEF Flooded, InOrder
    <3>3. PICK g \in DOMAIN wire'[l] :
              Was({<<n, s>>}, l, g) = h /\ wire'[l][g] = wire[l][h]
      <4>1. Kept(s, n, l, h, b)
        BY <1>1, <3>2, CopyKept
      <4>. QED  BY <2>1, <4>1 DEF Kept
    <3>4. g \in Nat /\ j \in Nat /\ h \in Nat /\ i \in Nat
      BY <1>1, <1>6, OnWire
    <3>5. g < j
      BY <3>1, <3>2, <3>3, <3>4 DEF Was
    <3>. QED  BY <3>2, <3>3, <3>5
  <2>4. CASE /\ new /\ j = Len(wire'[l]) /\ wire'[l][j] = q
             /\ l[1] = s /\ l[2] \in Servers /\ Joined(s, l[2]) /\ <<s, l[2]>> = l
    <3>1. q.from = p.from /\ q.pc = p.pc
      BY <1>2, <2>4 DEF Same, Copy
    <3>2. p.from = b.from /\ b.pc < p.pc
      BY <2>1, <2>4, <3>1
    <3>3. b \in Packets /\ b.pc \in Nat
      <4>1. b.pc \in 0..(MaxCount + 1)
        BY PacketFields
      <4>. QED  BY <4>1, FsdAssumption
    <3>4. Refuses(s, b)'
      BY <1>3, <1>4, <2>4, <3>2, <3>3
    <3>5. Reachable(b.from, s)
      <4>1. Reachable(p.from, n) /\ Joined(n, s)
        BY <1>3 DEF Proper
      <4>. QED  BY <1>3, <3>2, <4>1, ReachStep
    <3>6. CopyOn(l, b)'
      BY <1>5, <1>10, <1>11, <2>1, <2>4, <3>4, <3>5 DEF Handed
    <3>7. PICK g \in DOMAIN wire'[l] : Copy(wire'[l][g], b)
      BY <3>6 DEF CopyOn
    <3>8. g # j
      BY <1>3, <2>4, <3>1, <3>2, <3>3, <3>7 DEF Copy
    <3>9. g < j
      BY <1>6, <2>4, <3>8
    <3>. QED  BY <3>7, <3>9
  <2>. QED  BY <1>6, <2>3, <2>4
<1>12. ASSUME NEW l \in Servers \X Servers, NEW j \in DOMAIN wire'[l],
              NEW r \in {wire'[l][j]}
       PROVE  Proper(l, r)' /\ Traced(B, r)'
  <2>1. l[1] \in Servers
    OBVIOUS
  <2>2. CASE /\ Was({<<n, s>>}, l, j) \in DOMAIN wire[l]
             /\ wire'[l][j] = wire[l][Was({<<n, s>>}, l, j)]
    <3>1. r \in Packets /\ Proper(l, r) /\ Traced(B, r) /\ r.hc \in Nat
      BY <1>1, <1>12, <2>2, OnWire DEF Flooded
    <3>2. Proper(l, r)'
      BY <1>2, <1>4, <1>5, <2>1, <3>1 DEF Proper
    <3>3. Traced(B, r)'
      <4>1. Holders(r) \in SUBSET Servers /\ Holders(r)' \in SUBSET Servers
        BY DEF Holders
      <4>2. Holders(r) \subseteq Holders(r)'
        BY <1>4, <3>1 DEF Holders
      <4>3. /\ Cardinality(Holders(r)) \in Nat /\ Cardinality(Holders(r)') \in Nat
            /\ Cardinality(Holders(r)) <= Cardinality(Holders(r)')
        BY <4>1, <4>2, Counting
      <4>. QED  BY <3>1, <4>3 DEF Traced
    <3>. QED  BY <3>2, <3>3
  <2>3. CASE /\ new /\ wire'[l][j] = q
             /\ l[1] = s /\ l[2] \in Servers /\ Joined(s, l[2])
    <3>1. r = q
      BY <1>12, <2>3
    <3>2. Same(q, p) /\ q.hc = p.hc + 1 /\ p.from # s /\ (p.bi => ~Refuses(s, p))
      BY <1>2, <2>3
    <3>3. /\ q.cmd = p.cmd /\ q.to = p.to /\ q.bi = p.bi /\ q.data = p.data
          /\ q.from = p.from /\ q.pc = p.pc
      BY <3>2 DEF Same, Copy
    <3>4. Proper(l, q)'
      <4>1. Plain(q)
        BY <1>3, <3>3 DEF Proper, Plain
      <4>2. Reachable(p.from, s)
        <5>1. Reachable(p.from, n) /\ Joined(n, s)
          BY <1>3 DEF Proper
        <5>. QED  BY <1>3, <5>1, ReachStep
      <4>3. q.pc < count[q.from] /\ Refuses(s, q)'
        <5>1. p.pc < count[p.from]
          BY <1>3 DEF Proper
        <5>. QED  BY <1>2, <1>3, <1>4, <2>3, <3>3, <5>1
      <4>4. ~(q.from = l[1]) /\ ~(q.hc = 1)
        BY <1>3, <2>3, <3>2, <3>3
      <4>. QED  BY <1>2, <1>5, <2>3, <3>3, <4>1, <4>2, <4>3, <4>4 DEF Proper
    <3>5. Traced(B, q)'
      <4>1. ASSUME q.bi
            PROVE  /\ \E b \in B : Same(q, b)
                   /\ q.hc <= Cardinality(Holders(q)')
        <5>1. PICK b \in B : Same(p, b)
          BY <1>3, <3>3, <4>1 DEF Traced
        <5>2. Same(q, b)
          BY <3>2, <5>1 DEF Same, Copy
        <5>3. p.hc <= Cardinality(Holders(p)) /\ ~Refuses(s, p)
          BY <1>3, <3>2, <3>3, <4>1 DEF Traced
        <5>4. Holders(p) \in SUBSET Servers /\ Holders(q)' \in SUBSET Servers
          BY DEF Holders
        <5>5. Holders(p) = Holders(q)
          BY <3>2, RefusesCopy DEF Holders, Same
        <5>6. Holders(p) \subseteq Holders(q)'
          BY <1>2, <1>4, <5>5 DEF Holders
        <5>7. s \in Holders(q)' /\ s \notin Holders(p)
          BY <1>2, <1>3, <1>4, <2>3, <3>3, <5>3 DEF Holders
        <5>8. /\ Cardinality(Holders(p)) \in Nat /\ Cardinality(Holders(q)') \in Nat
              /\ Cardinality(Holders(p)) + 1 <= Cardinality(Holders(q)')
          BY <5>4, <5>6, <5>7, Counting
        <5>9. q.hc <= Cardinality(Holders(q)')
          BY <1>3, <3>2, <5>3, <5>8
        <5>. QED  BY <5>2, <5>9
      <4>2. ~q.bi => \A b \in B : ~Copy(q, b)
        BY <1>3, <3>3 DEF Traced, Copy
      <4>. QED  BY <4>1, <4>2 DEF Traced
    <3>. QED  BY <3>1, <3>4, <3>5
  <2>. QED  BY <1>6, <2>2, <2>3
<1>13. \A b \in B : b.pc < count'[b.from] /\ \A d \in B : Copy(b, d) => b = d
  BY <1>2 DEF Flooded
<1>. QED  BY <1>10, <1>11, <1>12, <1>13 DEF Flooded

\* A broadcast of which no copy is under way has been everywhere.
LEMMA AllRefuse ==
    ASSUME NEW kinds, NEW B \in SUBSET Packets, Flooded(B, kinds),
           NEW b \in B, b.cmd \in kinds, \A l \in Servers \X Servers : ~CopyOn(l, b),
           NEW x \in Servers, Reachable(b.from, x)
    PROVE  Refuses(x, b)
<1>1. b \in Packets /\ b.from \in Servers
  BY PacketFields
<1>2. PICK Q : Q = {y \in Servers : Reachable(b.from, y) /\ Refuses(y, b)}
  OBVIOUS
<1>3. Q \in SUBSET Servers /\ b.from \in Q
  BY <1>1, <1>2, ReachSelf DEF Refuses
<1>4. ASSUME NEW y \in Q, NEW z \in Servers, Joined(y, z)
      PROVE  z \in Q
  <2>1. y \in Servers /\ Reachable(b.from, y) /\ Refuses(y, b)
    BY <1>2
  <2>2. ~CopyOn(<<y, z>>, b)
    BY <2>1
  <2>3. Refuses(z, b)
    BY <1>4, <2>1, <2>2 DEF Flooded, Handed
  <2>. QED  BY <1>1, <1>2, <1>4, <2>1, <2>3, ReachStep
<1>5. x \in Q
  BY <1>1, <1>3, <1>4, Closed
<1>. QED  BY <1>2, <1>5
-----------------------------------------------------------------------------
(***************************************************************************)
(* The routes.  The way to a neighbour is the connection, unless a packet  *)
(* of the neighbour, that comes this way, is still to say so.              *)
(***************************************************************************)
Coming(o, x) == \E i \in DOMAIN wire[<<o, x>>] : wire[<<o, x>>][i].from = o

Led(x, o, e) ==
    e.path # NoServer =>
        /\ Reachable(x, o)
        /\ Joined(x, o) => (e.path = o /\ e.hops = 1) \/ (e.hops >= 2 /\ Coming(o, x))

Routed ==
    \A x \in Servers : \A o \in DOMAIN table[x] : \A e \in {table[x][o]} : Led(x, o, e)

LEMMA ComingKept ==
    ASSUME wire \in Wires, NEW kinds, NEW s \in Servers, NEW n \in Servers, NEW p,
           NEW q, NEW over, NEW new, Passing(kinds, s, n, p, q, over, new),
           NEW x \in Servers, NEW o \in Servers, Coming(o, x)
    PROVE  Coming(o, x)' \/ (x = s /\ n = o /\ p.from = o)
<1>1. PICK l : l = <<o, x>>
  OBVIOUS
<1>2. l \in Servers \X Servers /\ l[1] = o /\ l[2] = x
  BY <1>1
<1>3. PICK i \in DOMAIN wire[l] : wire[l][i].from = o
  BY <1>1 DEF Coming
<1>4. After({<<n, s>>}, {s} \X over, q, l)
  BY <1>2, PassingWires
<1>5. CASE l \in {<<n, s>>} /\ i = 1
  BY <1>2, <1>3, <1>5 DEF Passing
<1>6. CASE ~(l \in {<<n, s>>} /\ i = 1)
  BY <1>1, <1>3, <1>4, <1>6 DEF After, Coming
<1>. QED  BY <1>5, <1>6

LEMMA LedKept ==
    ASSUME TypesInv, NEW kinds, NEW s \in Servers, NEW n \in Servers, NEW p,
           NEW q, NEW over, NEW new, Passing(kinds, s, n, p, q, over, new),
           NEW x \in Servers, NEW o \in Servers, NEW e, Led(x, o, e),
           ~(x = s /\ n = o /\ p.from = o)
    PROVE  Led(x, o, e)'
<1>1. Coming(o, x) => Coming(o, x)'
  BY ComingKept DEF TypesInv
<1>2. (Joined(x, o)' <=> Joined(x, o)) /\ (Reachable(x, o)' <=> Reachable(x, o))
  BY ReachKept DEF Passing
<1>. QED  BY <1>1, <1>2 DEF Led

\* What s has noted of the origin of p leads there.
LEMMA LedNoted ==
    ASSUME TypesInv, Linked, Abreast, NEW kinds, NEW B \in SUBSET Packets,
           Flooded(B, kinds), NEW s \in Servers, NEW n \in Servers, NEW p,
           NEW q, NEW over, NEW new, Passing(kinds, s, n, p, q, over, new),
           p.from \in DOMAIN table[s] \ {s}, NEW e, e = table[s][p.from],
           Led(s, p.from, e), NEW f, Noted(e, f, n, p)
    PROVE  Led(s, p.from, f)'
<1>1. wire \in Wires /\ DOMAIN table[s] \subseteq Servers /\ e \in Entries /\ f \in Entries
  BY DEF TypesInv, Typed, Noted
<1>2. /\ p \in Packets /\ p.hc \in Nat \ {0} /\ p.from \in Servers /\ p.pc \in Nat
      /\ Proper(<<n, s>>, p) /\ Traced(B, p)
  <2>1. PICK l : l = <<n, s>>
    OBVIOUS
  <2>2. l \in Servers \X Servers /\ 1 \in DOMAIN wire[l] /\ p = wire[l][1]
    BY <2>1 DEF Passing
  <2>. QED  BY <1>1, <2>1, <2>2, OnWire DEF Flooded
<1>3. Reachable(s, p.from) /\ Joined(n, s) /\ (p.from = n <=> p.hc = 1)
  <2>1. Reachable(p.from, n) /\ Joined(n, s) /\ (p.from = n <=> p.hc = 1)
    BY <1>2 DEF Proper
  <2>2. Reachable(p.from, s)
    BY <1>2, <2>1, ReachStep
  <2>. QED  BY <1>2, <2>1, <2>2, ReachBack
<1>4. e.path # NoServer /\ e.hops \in Int /\ e.pcount \in Int
  <2>1. e.path # NoServer
    BY <1>2, <1>3 DEF Abreast
  <2>2. e.hops \in NoHops..MaxHops /\ e.pcount \in -1..(MaxCount + 1)
    BY <1>1 DEF Entries
  <2>. QED  BY <2>1, <2>2, FsdAssumption DEF NoHops
<1>5. (Joined(s, p.from)' <=> Joined(s, p.from)) /\ Reachable(s, p.from)'
  BY <1>3, ReachKept DEF Passing
<1>6. SUFFICES ASSUME Joined(s, p.from)
               PROVE  \/ f.path = p.from /\ f.hops = 1
                      \/ f.hops >= 2 /\ Coming(p.from, s)'
  BY <1>5 DEF Led
<1>7. (e.path = p.from /\ e.hops = 1) \/ (e.hops >= 2 /\ Coming(p.from, s))
  BY <1>4, <1>6 DEF Led
<1>8. Coming(p.from, s) => Coming(p.from, s)' \/ n = p.from
  BY <1>1, <1>2, ComingKept
<1>9. CASE n = p.from
  <2>1. p.hc = 1
    BY <1>3, <1>9
  <2>2. e.hops >= 2 => f.path = n /\ f.hops = 1
    BY <1>4, <2>1 DEF Noted
  <2>3. (f.path = e.path /\ f.hops = e.hops) \/ (f.path = n /\ f.hops = 1)
    BY <2>1 DEF Noted
  <2>. QED  BY <1>4, <1>7, <1>9, <2>2, <2>3
<1>10. CASE n # p.from
  <2>1. p.hc >= 2
    BY <1>2, <1>3, <1>10
  <2>2. CASE f.path = e.path /\ f.hops = e.hops
    BY <1>7, <1>8, <1>10, <2>2
  <2>3. CASE f.hops = p.hc /\ (p.hc < e.hops \/ e.hops = NoHops)
    <3>1. e.hops >= 2 /\ Coming(p.from, s)
      BY <1>2, <1>4, <1>7, <2>1, <2>3 DEF NoHops
    <3>. QED  BY <1>8, <1>10, <2>1, <2>3, <3>1
  <2>4. CASE f.hops = p.hc /\ p.bi /\ e.pcount < p.pc
    <3>1. PICK b \in B : Same(p, b)
      BY <1>2, <2>4 DEF Traced
    <3>2. b.from = p.from /\ b.pc = p.pc
      BY <3>1 DEF Same, Copy
    <3>3. ~Refuses(s, b)
      BY <1>2, <1>4, <2>4, <3>2 DEF Refuses
    <3>4. Reachable(b.from, p.from) /\ Refuses(p.from, b) /\ Joined(p.from, s)
      BY <1>2, <1>6, <3>2, ReachSelf, JoinedNeighbours DEF Refuses
    <3>5. CopyOn(<<p.from, s>>, b)
      BY <1>2, <3>2, <3>3, <3>4 DEF Flooded, Handed
    <3>6. Coming(p.from, s)
      BY <3>2, <3>5 DEF CopyOn, Coming, Copy
    <3>. QED  BY <1>8, <1>10, <2>1, <2>4, <3>6
  <2>. QED  BY <2>2, <2>3, <2>4 DEF Noted
<1>. QED  BY <1>9, <1>10

\* Nobody's routes change when a packet is sent.
LEMMA RoutesLaunch ==
    ASSUME TypesInv, Abreast, Routed, NEW s \in Servers, NEW q, NEW over,
           Launch(s, q, over)
    PROVE  Abreast' /\ Routed'
<1>1. /\ UNCHANGED <<table, links, knocks>> /\ wire \in Wires /\ q \in Packets
      /\ Moved({}, {s} \X over, q)
  BY DEF Launch, TypesInv
<1>2. \A x : \A o : (Joined(x, o)' <=> Joined(x, o)) /\ (Reachable(x, o)' <=> Reachable(x, o))
  BY <1>1, ReachKept
<1>3. ASSUME NEW x \in Servers, NEW o \in Servers, Coming(o, x)
      PROVE  Coming(o, x)'
  <2>1. PICK read : read = {}
    OBVIOUS
  <2>2. PICK l : l = <<o, x>>
    OBVIOUS
  <2>3. l \in Servers \X Servers /\ Moved(read, {s} \X over, q) /\ \A k \in read : wire[k] # <<>>
    BY <1>1, <2>1, <2>2
  <2>4. After(read, {s} \X over, q, l)
    BY <1>1, <2>3, MovedFacts
  <2>. QED  BY <1>3, <2>1, <2>2, <2>4 DEF After, Coming
<1>4. Routed'
  <2>1. \A x \in Servers : DOMAIN table[x] \subseteq Servers
    BY DEF TypesInv, Typed
  <2>2. ASSUME NEW x \in Servers, NEW o \in DOMAIN table[x], NEW e \in {table[x][o]}
        PROVE  Led(x, o, e)'
    <3>1. o \in Servers /\ Led(x, o, e)
      BY <2>1, <2>2 DEF Routed
    <3>. QED  BY <1>2, <1>3, <3>1 DEF Led
  <2>. QED  BY <1>1, <2>2 DEF Routed
<1>5. Abreast'
  <2>1. ASSUME NEW x \in Servers, NEW o \in Servers, x # o, Reachable(x, o)
        PROVE  /\ o \in DOMAIN table[x]
               /\ table[x][o].path # NoServer
               /\ table[x][o].pcount < count'[o]
    <3>1. /\ o \in DOMAIN table[x] /\ table[x][o].path # NoServer
          /\ table[x][o].pcount < count[o]
      BY <2>1 DEF Abreast
    <3>2. table[x][o].pcount \in Int
      <4>1. table[x][o] \in Entries
        BY <3>1 DEF TypesInv, Typed
      <4>2. table[x][o].pcount \in -1..(MaxCount + 1)
        BY <4>1 DEF Entries
      <4>. QED  BY <4>2, FsdAssumption
    <3>3. count[o] \in Nat /\ count'[o] \in Nat /\ count[o] <= count'[o]
      BY CountLaunched
    <3>. QED  BY <3>1, <3>2, <3>3
  <2>. QED  BY <1>1, <1>2, <2>1 DEF Abreast
<1>. QED  BY <1>4, <1>5

\* They do when a packet is read, ...
LEMMA RoutesNoted ==
    ASSUME TypesInv, Linked, Abreast, Routed, NEW kinds, NEW B \in SUBSET Packets,
           Flooded(B, kinds), NEW s \in Servers, NEW n \in Servers, NEW p,
           NEW q, NEW over, NEW new, Passing(kinds, s, n, p, q, over, new),
           p.from \in DOMAIN table[s] \ {s}, NEW f,
           Noted(table[s][p.from], f, n, p), Update(s, With(table[s], p.from, f))
    PROVE  Abreast' /\ Routed'
<1>1. PICK e : e = table[s][p.from]
  OBVIOUS
<1>2. /\ \A x \in Servers : DOMAIN table[x] \subseteq Servers
      /\ \A x \in Servers : \A o \in DOMAIN table[x] : table[x][o] \in Entries
  BY DEF TypesInv, Typed
<1>3. /\ \A x \in Servers : DOMAIN table'[x] = DOMAIN table[x]
      /\ \A x \in Servers : \A o \in DOMAIN table[x] :
            ~(x = s /\ o = p.from) => table'[x][o] = table[x][o]
      /\ table'[s][p.from] = f
  BY DEF TypesInv, Update, With
<1>4. /\ p.from \in Servers /\ p.pc < count[p.from] /\ p.pc \in Nat
  <2>1. PICK l : l = <<n, s>>
    OBVIOUS
  <2>2. l \in Servers \X Servers /\ 1 \in DOMAIN wire[l] /\ p = wire[l][1] /\ wire \in Wires
    BY <2>1 DEF Passing, TypesInv
  <2>3. Proper(l, p)
    BY <2>2 DEF Flooded
  <2>. QED  BY <2>2, <2>3, OnWire DEF Proper
<1>5. ASSUME NEW x \in Servers, NEW o \in DOMAIN table[x], NEW r \in {table'[x][o]}
      PROVE  Led(x, o, r)'
  <2>1. Led(x, o, table[x][o]) /\ o \in Servers
    BY <1>2 DEF Routed
  <2>2. CASE x = s /\ o = p.from
    <3>1. Led(s, p.from, e) /\ Noted(e, f, n, p)
      BY <1>1, <2>1, <2>2
    <3>2. Led(s, p.from, f)'
      BY <1>1, <3>1, LedNoted
    <3>. QED  BY <1>3, <1>5, <2>2, <3>2
  <2>3. CASE ~(x = s /\ o = p.from)
    <3>1. r = table[x][o]
      BY <1>3, <1>5, <2>3
    <3>2. Led(x, o, r)
      BY <2>1, <3>1
    <3>. QED  BY <2>1, <2>3, <3>2, LedKept
  <2>. QED  BY <2>2, <2>3
<1>6. Routed'
  BY <1>3, <1>5 DEF Routed
<1>7. ASSUME NEW x \in Servers, NEW o \in Servers, x # o, Reachable(x, o)
      PROVE  /\ o \in DOMAIN table'[x]
             /\ table'[x][o].path # NoServer
             /\ table'[x][o].pcount < count[o]
  <2>1. /\ o \in DOMAIN table[x] /\ table[x][o].path # NoServer
        /\ table[x][o].pcount < count[o]
    BY <1>7 DEF Abreast
  <2>2. CASE x = s /\ o = p.from
    <3>1. (f.path = e.path \/ f.path = n) /\ (f.pcount = e.pcount \/ f.pcount = p.pc)
      BY <1>1 DEF Noted
    <3>2. n # NoServer
      BY FsdAssumption
    <3>. QED  BY <1>1, <1>3, <1>4, <2>1, <2>2, <3>1, <3>2
  <2>. QED  BY <1>3, <2>1, <2>2
<1>8. Abreast'
  <2>1. /\ \A x : \A o : Reachable(x, o)' <=> Reachable(x, o)
        /\ count' = count
    BY ReachKept DEF Passing
  <2>. QED  BY <1>7, <2>1 DEF Abreast
<1>. QED  BY <1>6, <1>8

\* ... but for one that came back to its origin or made too many hops.
LEMMA RoutesStill ==
    ASSUME TypesInv, PointersInv, Abreast, Routed, NEW kinds, NEW B \in SUBSET Packets,
           Flooded(B, kinds), NEW s \in Servers, NEW n \in Servers, NEW p,
           NEW q, NEW over, NEW new, Passing(kinds, s, n, p, q, over, new),
           UNCHANGED table, p.from = s \/ p.hc > MaxHops
    PROVE  Abreast' /\ Routed'
<1>1. /\ \A x : \A o : Reachable(x, o)' <=> Reachable(x, o)
      /\ count' = count
  BY ReachKept DEF Passing
<1>2. Abreast'
  BY <1>1 DEF Abreast
<1>3. \A x \in Servers : DOMAIN table[x] \subseteq Servers
  BY DEF TypesInv, Typed
<1>4. p.from = n => p.hc = 1
  <2>1. PICK l : l = <<n, s>>
    OBVIOUS
  <2>2. l \in Servers \X Servers /\ l[1] = n /\ 1 \in DOMAIN wire[l] /\ p = wire[l][1]
    BY <2>1 DEF Passing
  <2>3. Proper(l, p)
    BY <2>2 DEF Flooded
  <2>. QED  BY <2>2, <2>3 DEF Proper
<1>5. ASSUME NEW x \in Servers, NEW o \in DOMAIN table[x], NEW r \in {table[x][o]}
      PROVE  Led(x, o, r)'
  <2>1. Led(x, o, r) /\ o \in Servers
    BY <1>3, <1>5 DEF Routed
  <2>2. CASE x = s /\ n = o /\ p.from = o
    <3>1. p.hc = 1 /\ ~(1 > MaxHops)
      BY <1>4, <2>2, FsdAssumption
    <3>2. p.from = s
      BY <3>1
    <3>3. r.path = NoServer
      BY <1>5, <2>2, <3>2 DEF PointersInv, Good, Sound
    <3>. QED  BY <3>3 DEF Led
  <2>. QED  BY <2>1, <2>2, LedKept
<1>6. Routed'
  BY <1>5 DEF Routed
<1>. QED  BY <1>2, <1>6
-----------------------------------------------------------------------------
(***************************************************************************)
(* The messages to everybody: all have heard them, or who has the packet   *)
(* that carries them has.                                                  *)
(***************************************************************************)
Carries(b, m) ==
    b.from = said[m] /\ b.cmd = "MC" /\ b.to = Everyone /\ b.data.message = m

HasHeard(m, x) == heard[x][m] >= 1

Heard(B) ==
    \A m \in Messages : said[m] # NoServer /\ Addressee[m] = Everyone =>
        \/ \A x \in Servers : Reachable(said[m], x) => HasHeard(m, x)
        \/ \E b \in B : /\ Carries(b, m)
                        /\ \A x \in Servers :
                              Reachable(said[m], x) /\ Refuses(x, b) => HasHeard(m, x)

LEMMA StillHeard ==
    ASSUME TypesInv, TypesInv', NEW m \in Messages, NEW x \in Servers,
           heard'[x][m] >= heard[x][m], HasHeard(m, x)
    PROVE  HasHeard(m, x)'
<1>1. heard[x][m] \in 0..2 /\ heard'[x][m] \in 0..2
  BY DEF TypesInv, Ears
<1>. QED  BY <1>1 DEF HasHeard

LEMMA HeardPass ==
    ASSUME TypesInv, TypesInv', NEW kinds, "MC" \in kinds, NEW B \in SUBSET Packets,
           Flooded(B, kinds), Heard(B), UNCHANGED said,
           NEW s \in Servers, NEW n \in Servers, NEW p,
           NEW q, NEW over, NEW new, Passing(kinds, s, n, p, q, over, new),
           \A x \in Servers : \A m \in Messages : heard'[x][m] >= heard[x][m],
           new /\ p.cmd = "MC" /\ p.to = Everyone => heard'[s][p.data.message] >= 1
    PROVE  Heard(B)'
<1>1. \A x : \A o : Reachable(x, o)' <=> Reachable(x, o)
  BY ReachKept DEF Passing
<1>2. \A m \in Messages : \A x \in Servers : HasHeard(m, x) => HasHeard(m, x)'
  BY StillHeard
<1>3. SUFFICES ASSUME NEW m \in Messages, said[m] # NoServer, Addressee[m] = Everyone
               PROVE  \/ \A x \in Servers : Reachable(said[m], x) => HasHeard(m, x)'
                      \/ \E b \in B :
                            /\ Carries(b, m)
                            /\ \A x \in Servers :
                                  Reachable(said[m], x) /\ Refuses(x, b)' => HasHeard(m, x)'
  BY <1>1 DEF Heard, Carries
<1>4. CASE \A x \in Servers : Reachable(said[m], x) => HasHeard(m, x)
  BY <1>2, <1>4
<1>5. ASSUME NEW b \in B, Carries(b, m), NEW x \in Servers, Reachable(said[m], x),
             Refuses(x, b)', Refuses(x, b) => HasHeard(m, x)
      PROVE  HasHeard(m, x)'
  <2>1. CASE Refuses(x, b)
    BY <1>2, <1>5, <2>1
  <2>2. CASE ~Refuses(x, b)
    <3>1. new /\ x = s /\ b.from = p.from /\ b.pc <= p.pc
      BY <1>5, <2>2 DEF Passing
    <3>2. /\ b \in Packets /\ b.cmd \in kinds /\ wire \in Wires
          /\ p = wire[<<n, s>>][1] /\ 1 \in DOMAIN wire[<<n, s>>]
      BY <1>5 DEF Passing, Carries, TypesInv
    <3>3. Same(p, b)
      BY <2>2, <3>1, <3>2, NextOnly
    <3>4. p.cmd = "MC" /\ p.to = Everyone /\ p.data.message = m
      BY <1>5, <3>3 DEF Same, Carries
    <3>. QED  BY <3>1, <3>4 DEF HasHeard
  <2>. QED  BY <2>1, <2>2
<1>6. CASE \E b \in B : /\ Carries(b, m)
                        /\ \A x \in Servers :
                              Reachable(said[m], x) /\ Refuses(x, b) => HasHeard(m, x)
  <2>1. PICK b \in B : /\ Carries(b, m)
                       /\ \A x \in Servers :
                             Reachable(said[m], x) /\ Refuses(x, b) => HasHeard(m, x)
    BY <1>6
  <2>. QED  BY <1>5, <2>1
<1>. QED  BY <1>3, <1>4, <1>6 DEF Heard

\* A packet is sent that is no new message to everybody, ...
LEMMA HeardLaunch ==
    ASSUME TypesInv, TypesInv', NEW B, Heard(B), NEW s \in Servers, NEW q, NEW over,
           Launch(s, q, over), NEW news \in SUBSET Messages,
           \A m \in Messages \ news : said'[m] = said[m],
           \A x \in Servers : \A m \in Messages \ news : heard'[x][m] >= heard[x][m],
           \A m \in news : said'[m] # NoServer /\ Addressee[m] = Everyone =>
               /\ q.bi /\ Carries(q, m)'
               /\ \A x \in Servers : Reachable(said'[m], x) /\ Refuses(x, q) =>
                     HasHeard(m, x)'
    PROVE  Heard(And(B, q))'
<1>1. /\ \A x : \A o : Reachable(x, o)' <=> Reachable(x, o)
      /\ \A x : \A b : Refuses(x, b)' <=> Refuses(x, b)
  BY ReachKept, RefusesLaunched DEF Launch
<1>2. \A m \in Messages \ news : \A x \in Servers : HasHeard(m, x) => HasHeard(m, x)'
  BY StillHeard
<1>3. B \subseteq And(B, q) /\ (q.bi => q \in And(B, q))
  BY DEF And
<1>4. \A m \in Messages \ news : \A b : Carries(b, m)' <=> Carries(b, m)
  BY DEF Carries
<1>5. ASSUME NEW m \in Messages \ news, said'[m] # NoServer, Addressee[m] = Everyone
      PROVE  \/ \A x \in Servers : Reachable(said'[m], x) => HasHeard(m, x)'
             \/ \E b \in And(B, q) :
                   /\ Carries(b, m)'
                   /\ \A x \in Servers :
                         Reachable(said'[m], x) /\ Refuses(x, b) => HasHeard(m, x)'
  <2>1. said'[m] = said[m]
    OBVIOUS
  <2>2. CASE \A x \in Servers : Reachable(said[m], x) => HasHeard(m, x)
    BY <1>2, <2>1, <2>2
  <2>3. CASE \E b \in B : /\ Carries(b, m)
                          /\ \A x \in Servers :
                                Reachable(said[m], x) /\ Refuses(x, b) => HasHeard(m, x)
    <3>1. PICK b \in B : /\ Carries(b, m)
                         /\ \A x \in Servers :
                               Reachable(said[m], x) /\ Refuses(x, b) => HasHeard(m, x)
      BY <2>3
    <3>. QED  BY <1>2, <1>3, <1>4, <2>1, <3>1
  <2>. QED  BY <1>5, <2>1, <2>2, <2>3 DEF Heard
<1>6. ASSUME NEW m \in news, said'[m] # NoServer, Addressee[m] = Everyone
      PROVE  \E b \in And(B, q) :
                /\ Carries(b, m)'
                /\ \A x \in Servers :
                      Reachable(said'[m], x) /\ Refuses(x, b) => HasHeard(m, x)'
  BY <1>3, <1>6
<1>. QED  BY <1>1, <1>5, <1>6 DEF Heard

\* ... and so when it is one.
LEMMA HeardSay ==
    ASSUME TypesInv, TypesInv', PointersInv, Linked, Abreast, Homed, NEW B, Heard(B),
           NEW s \in Servers, count'[s] >= count[s], NEW m \in Messages, Say(s, m)
    PROVE  /\ UNCHANGED clients
           /\ \E q \in Packets : \E over \in SUBSET Servers :
                 /\ Launch(s, q, over) /\ q.cmd = "MC"
                 /\ Heard(And(B, q))'
<1>1. /\ said[m] = NoServer /\ said' = [said EXCEPT ![m] = s]
      /\ UNCHANGED clients
      /\ \A x \in Servers : \A k \in Messages \ {m} : heard'[x][k] = heard[x][k]
      /\ Addressee[m] = Everyone => heard'[s][m] >= 1
      /\ \E q \in Packets : \E over \in SUBSET Servers :
            /\ Launch(s, q, over)
            /\ q.cmd = "MC" /\ q.data.message = m /\ q.to = Addressee[m]
  BY SayLaunches
<1>2. PICK q \in Packets : \E over \in SUBSET Servers :
          /\ Launch(s, q, over)
          /\ q.cmd = "MC" /\ q.data.message = m /\ q.to = Addressee[m]
  BY <1>1
<1>3. PICK over \in SUBSET Servers :
          /\ Launch(s, q, over)
          /\ q.cmd = "MC" /\ q.data.message = m /\ q.to = Addressee[m]
  BY <1>2
<1>4. /\ \A k \in Messages \ {m} : said'[k] = said[k]
      /\ said'[m] = s
  BY <1>1 DEF TypesInv
<1>5. \A x \in Servers : \A k \in Messages \ {m} : heard'[x][k] >= heard[x][k]
  <2>1. \A x \in Servers : \A k \in Messages : heard[x][k] \in 0..2 /\ heard'[x][k] \in 0..2
    BY DEF TypesInv, Ears
  <2>. QED  BY <1>1, <2>1
<1>6. ASSUME Addressee[m] = Everyone
      PROVE  /\ q.bi /\ Carries(q, m)'
             /\ \A x \in Servers : Reachable(said'[m], x) /\ Refuses(x, q) => HasHeard(m, x)'
  <2>1. q.bi /\ q.from = s
    BY <1>3, <1>6 DEF Launch, Plain
  <2>2. Carries(q, m)'
    BY <1>3, <1>4, <1>6, <2>1 DEF Carries
  <2>3. ASSUME NEW x \in Servers, Reachable(s, x), Refuses(x, q)
        PROVE  HasHeard(m, x)'
    <3>1. x = s
      BY <1>3, <2>3, NewsToAll
    <3>. QED  BY <1>1, <1>6, <3>1 DEF HasHeard
  <2>. QED  BY <1>4, <2>1, <2>2, <2>3
<1>7. Heard(And(B, q))'
  <2>1. PICK news \in SUBSET Messages : news = {m}
    OBVIOUS
  <2>2. /\ \A k \in Messages \ news : said'[k] = said[k]
        /\ \A x \in Servers : \A k \in Messages \ news : heard'[x][k] >= heard[x][k]
    BY <1>4, <1>5, <2>1
  <2>3. \A k \in news : said'[k] # NoServer /\ Addressee[k] = Everyone =>
           /\ q.bi /\ Carries(q, k)'
           /\ \A x \in Servers : Reachable(said'[k], x) /\ Refuses(x, q) => HasHeard(k, x)'
    BY <1>6, <2>1
  <2>. QED  BY <1>3, <2>2, <2>3, HeardLaunch
<1>. QED  BY <1>1, <1>3, <1>7
-----------------------------------------------------------------------------
(***************************************************************************)
(* The registers.  The client c has come and gone at the server h, whose   *)
(* packets are numbered: V[k] is where c was after packet k, and a server  *)
(* that has had the packets of h up to k has V[k] in its register.         *)
(***************************************************************************)
Values == [Int -> Servers \cup {NoServer}]

Level(x, h) == IF x = h THEN count[h] - 1 ELSE table[x][h].pcount

Tells(q, c, h, V) ==
    Changes(q, c) =>
        /\ q.from = h
        /\ q.cmd = "ADDCLIENT" => V[q.pc - 1] = NoServer /\ V[q.pc] = h
        /\ q.cmd = "RMCLIENT" => V[q.pc - 1] = h /\ V[q.pc] = NoServer

Told(B, c, h, V) ==
    /\ \A l \in Servers \X Servers : \A i \in DOMAIN wire[l] : \A q \in {wire[l][i]} :
          Tells(q, c, h, V)
    /\ \A x \in Servers : Reachable(x, h) => clients[x][c] = V[Level(x, h)]
    /\ \A i \in Int : \A j \in Int : i < j /\ V[i] # V[j] =>
          \E b \in B : Changes(b, c) /\ b.from = h /\ i < b.pc /\ b.pc <= j
    /\ \A x \in Servers : \A y \in Servers :
          Joined(x, y) /\ ~Reachable(x, h) => clients[x][c] = clients[y][c]

LEMMA LevelType ==
    ASSUME TypesInv, Abreast, NEW x \in Servers, NEW h \in Servers, Reachable(x, h)
    PROVE  /\ Level(x, h) \in Int /\ count[h] \in Nat
           /\ Level(x, h) < count[h]
           /\ x # h => h \in DOMAIN table[x] /\ Level(x, h) = table[x][h].pcount
<1>1. count[h] \in 0..MaxCount
  BY DEF TypesInv
<1>2. CASE x = h
  BY <1>1, <1>2, FsdAssumption DEF Level
<1>3. CASE x # h
  <2>1. h \in DOMAIN table[x] /\ table[x][h].pcount < count[h]
    BY <1>3 DEF Abreast
  <2>2. table[x][h] \in Entries
    BY <2>1 DEF TypesInv, Typed
  <2>3. table[x][h].pcount \in -1..(MaxCount + 1)
    BY <2>2 DEF Entries
  <2>. QED  BY <1>1, <1>3, <2>1, <2>3, FsdAssumption DEF Level
<1>. QED  BY <1>2, <1>3

\* Neighbours who agree make all agree.
LEMMA AgreedFar ==
    ASSUME NEW c \in Callsigns, Agreed(c), NEW s \in Servers, NEW o \in Servers,
           Reachable(s, o)
    PROVE  clients[s][c] = clients[o][c]
<1>1. PICK Q : Q = {x \in Servers : clients[x][c] = clients[s][c]}
  OBVIOUS
<1>2. Q \in SUBSET Servers /\ s \in Q
  BY <1>1
<1>3. \A x \in Q : \A y \in Servers : Joined(x, y) => y \in Q
  BY <1>1 DEF Agreed
<1>4. o \in Q
  BY <1>2, <1>3, Closed
<1>. QED  BY <1>1, <1>4

\* When no news of c are under way, the registers agree.
LEMMA Agreement ==
    ASSUME TypesInv, Abreast, Linked, NEW kinds, {"ADDCLIENT", "RMCLIENT"} \subseteq kinds,
           NEW B \in SUBSET Packets, Flooded(B, kinds),
           NEW c \in Callsigns, NEW h \in Servers, NEW V \in Values, Told(B, c, h, V),
           \A l \in Servers \X Servers : \A i \in DOMAIN wire[l] : ~Changes(wire[l][i], c)
    PROVE  Agreed(c)
<1>1. ASSUME NEW b \in B, Changes(b, c), b.from = h, NEW x \in Servers, Reachable(x, h)
      PROVE  b.pc <= Level(x, h)
  <2>1. b \in Packets /\ b.cmd \in kinds /\ b.pc \in Nat
    <3>1. b.pc \in 0..(MaxCount + 1)
      BY PacketFields
    <3>. QED  BY <1>1, <3>1, FsdAssumption DEF Changes
  <2>2. ASSUME NEW l \in Servers \X Servers, CopyOn(l, b)
        PROVE  FALSE
    <3>1. PICK i \in DOMAIN wire[l] : Copy(wire[l][i], b)
      BY <2>2 DEF CopyOn
    <3>2. PICK r : r = wire[l][i]
      OBVIOUS
    <3>3. Traced(B, r) /\ r.bi \in BOOLEAN /\ Copy(r, b) /\ ~Changes(r, c)
      BY <3>1, <3>2, OnWire DEF Flooded, TypesInv
    <3>4. r.bi
      BY <3>3 DEF Traced
    <3>5. PICK d \in B : Same(r, d)
      BY <3>3, <3>4 DEF Traced
    <3>6. Copy(d, b)
      BY <3>3, <3>5 DEF Same, Copy
    <3>7. d = b
      BY <3>6 DEF Flooded
    <3>. QED  BY <1>1, <3>3, <3>5, <3>7 DEF Same, Changes
  <2>3. Refuses(x, b)
    <3>1. Reachable(b.from, x)
      BY <1>1, ReachBack
    <3>. QED  BY <2>1, <2>2, <3>1, AllRefuse
  <2>4. CASE x = h
    <3>1. b.pc < count[h] /\ Level(x, h) = count[h] - 1 /\ count[h] \in Nat
      BY <1>1, <2>4, LevelType DEF Flooded, Level
    <3>. QED  BY <2>1, <3>1
  <2>5. CASE x # h
    <3>1. table[x][h].pcount >= b.pc /\ Level(x, h) = table[x][h].pcount
          /\ Level(x, h) \in Int
      BY <1>1, <2>3, <2>5, LevelType DEF Refuses
    <3>. QED  BY <2>1, <3>1
  <2>. QED  BY <2>4, <2>5
<1>2. ASSUME NEW x \in Servers, NEW y \in Servers, Reachable(x, h), Reachable(y, h),
             Level(x, h) < Level(y, h)
      PROVE  V[Level(x, h)] = V[Level(y, h)]
  <2>1. SUFFICES ASSUME V[Level(x, h)] # V[Level(y, h)] PROVE FALSE
    OBVIOUS
  <2>2. Level(x, h) \in Int /\ Level(y, h) \in Int
    BY <1>2, LevelType
  <2>3. PICK b \in B : Changes(b, c) /\ b.from = h /\ Level(x, h) < b.pc
    BY <1>2, <2>1, <2>2 DEF Told
  <2>4. b.pc <= Level(x, h)
    BY <1>1, <1>2, <2>3
  <2>5. b.pc \in 0..(MaxCount + 1)
    BY PacketFields
  <2>. QED  BY <2>2, <2>3, <2>4, <2>5, FsdAssumption
<1>3. ASSUME NEW x \in Servers, NEW y \in Servers, Joined(x, y)
      PROVE  clients[x][c] = clients[y][c]
  <2>1. CASE ~Reachable(x, h)
    BY <1>3, <2>1 DEF Told
  <2>2. CASE Reachable(x, h)
    <3>1. Reachable(y, h)
      <4>1. Reachable(h, x)
        BY <2>2, ReachBack
      <4>2. Reachable(h, y)
        BY <1>3, <4>1, ReachStep
      <4>. QED  BY <4>2, ReachBack
    <3>2. Level(x, h) \in Int /\ Level(y, h) \in Int
      BY <2>2, <3>1, LevelType
    <3>3. \/ Level(x, h) < Level(y, h) \/ Level(y, h) < Level(x, h)
          \/ Level(x, h) = Level(y, h)
      BY <3>2
    <3>4. V[Level(x, h)] = V[Level(y, h)]
      BY <1>2, <2>2, <3>1, <3>3
    <3>. QED  BY <2>2, <3>1, <3>4 DEF Told
  <2>. QED  BY <2>1, <2>2
<1>. QED  BY <1>3 DEF Agreed

\* When they agree and no news of c are under way, c may come and go at s next.
LEMMA ToldAnew ==
    ASSUME TypesInv, Abreast, NEW B, NEW c \in Callsigns, Agreed(c), NEW s \in Servers,
           \A l \in Servers \X Servers : \A i \in DOMAIN wire[l] : ~Changes(wire[l][i], c)
    PROVE  \E V \in Values : Told(B, c, s, V)
<1>1. PICK v : v = clients[s][c]
  OBVIOUS
<1>2. PICK V : V = [i \in Int |-> v]
  OBVIOUS
<1>3. V \in Values
  BY <1>1, <1>2 DEF Values, TypesInv, Registers
<1>4. ASSUME NEW x \in Servers, Reachable(x, s)
      PROVE  clients[x][c] = V[Level(x, s)]
  <2>1. Level(x, s) \in Int
    BY <1>4, LevelType
  <2>. QED  BY <1>1, <1>2, <1>4, <2>1, AgreedFar
<1>5. \A i \in Int : \A j \in Int : V[i] = V[j]
  BY <1>2
<1>6. \A x \in Servers : \A y \in Servers : Joined(x, y) => clients[x][c] = clients[y][c]
  BY DEF Agreed
<1>7. Told(B, c, s, V)
  BY <1>4, <1>5, <1>6 DEF Told, Tells
<1>. QED  BY <1>3, <1>7

\* What is on the wires after q was sent.
LEMMA LaunchWires ==
    ASSUME TypesInv, NEW s \in Servers, NEW q, NEW over, Launch(s, q, over),
           NEW l \in Servers \X Servers, NEW j \in DOMAIN wire'[l]
    PROVE  (j \in DOMAIN wire[l] /\ wire'[l][j] = wire[l][j]) \/ wire'[l][j] = q
<1>1. wire \in Wires /\ Moved({}, {s} \X over, q) /\ q \in Packets
  BY DEF Launch, TypesInv
<1>2. PICK read : read = {}
  OBVIOUS
<1>3. Moved(read, {s} \X over, q) /\ \A k \in read : wire[k] # <<>>
  BY <1>1, <1>2
<1>4. After(read, {s} \X over, q, l)
  BY <1>1, <1>3, MovedFacts
<1>. QED  BY <1>2, <1>4 DEF After, Was

\* A server sends something that is not about c.
LEMMA ToldLaunch ==
    ASSUME TypesInv, Abreast, NEW kinds, NEW B \in SUBSET Packets, Flooded(B, kinds),
           NEW c \in Callsigns, NEW h \in Servers, NEW V \in Values, Told(B, c, h, V),
           NEW s \in Servers, NEW q, NEW over, Launch(s, q, over), ~Changes(q, c),
           \A x \in Servers : clients'[x][c] = clients[x][c]
    PROVE  Told(And(B, q), c, h, V)'
<1>1. /\ \A x : \A o : (Joined(x, o)' <=> Joined(x, o)) /\ (Reachable(x, o)' <=> Reachable(x, o))
      /\ UNCHANGED table
  BY ReachKept DEF Launch
<1>2. ASSUME NEW l \in Servers \X Servers, NEW j \in DOMAIN wire'[l], NEW r \in {wire'[l][j]}
      PROVE  Tells(r, c, h, V)
  <2>1. CASE j \in DOMAIN wire[l] /\ wire'[l][j] = wire[l][j]
    BY <1>2, <2>1 DEF Told
  <2>2. CASE wire'[l][j] = q
    BY <1>2, <2>2 DEF Tells
  <2>. QED  BY <2>1, <2>2, LaunchWires
<1>3. ASSUME NEW x \in Servers, Reachable(x, h)
      PROVE  clients[x][c] = V[Level(x, h)']
  <2>1. clients[x][c] = V[Level(x, h)] /\ Level(x, h) \in Int /\ count[h] \in Nat
    BY <1>3, LevelType DEF Told
  <2>2. CASE x = h /\ s = h
    <3>1. count'[h] = count[h] + 1
      BY <2>2, CountLaunched
    <3>2. Level(x, h) = count[h] - 1 /\ Level(x, h)' = count[h]
      BY <2>1, <2>2, <3>1 DEF Level
    <3>3. \A b \in B : ~(b.from = h /\ count[h] - 1 < b.pc /\ b.pc <= count[h])
      <4>1. \A b \in B : b.pc < count[b.from]
        BY DEF Flooded
      <4>2. \A b \in B : b.pc \in Int
        <5>1. \A b \in B : b.pc \in 0..(MaxCount + 1)
          BY PacketFields
        <5>. QED  BY <5>1, FsdAssumption
      <4>. QED  BY <2>1, <4>1, <4>2
    <3>4. V[count[h] - 1] = V[count[h]]
      BY <2>1, <3>3 DEF Told
    <3>. QED  BY <2>1, <3>2, <3>4
  <2>3. CASE ~(x = h /\ s = h)
    <3>1. Level(x, h)' = Level(x, h)
      <4>1. x = h => count'[h] = count[h]
        BY <2>3, CountLaunched
      <4>. QED  BY <1>1, <4>1 DEF Level
    <3>. QED  BY <2>1, <3>1
  <2>. QED  BY <2>2, <2>3
<1>4. B \subseteq And(B, q)
  BY DEF And
<1>5. \A i \in Int : \A j \in Int : i < j /\ V[i] # V[j] =>
          \E b \in And(B, q) : Changes(b, c) /\ b.from = h /\ i < b.pc /\ b.pc <= j
  BY <1>4 DEF Told
<1>6. \A x \in Servers : \A y \in Servers :
          Joined(x, y) /\ ~Reachable(x, h) => clients[x][c] = clients[y][c]
  BY DEF Told
<1>. QED  BY <1>1, <1>2, <1>3, <1>5, <1>6 DEF Told

\* The client c comes or goes at s, where it has been coming and going.
LEMMA ToldChange ==
    ASSUME TypesInv, Abreast, NEW kinds, NEW B \in SUBSET Packets, Flooded(B, kinds),
           NEW c \in Callsigns, NEW s \in Servers, NEW V \in Values, Told(B, c, s, V),
           NEW q, NEW over, Launch(s, q, over), Changes(q, c), q.bi,
           NEW v \in {s, NoServer}, clients' = [clients EXCEPT ![s][c] = v],
           q.cmd = "ADDCLIENT" => clients[s][c] = NoServer /\ v = s,
           q.cmd = "RMCLIENT" => clients[s][c] = s /\ v = NoServer
    PROVE  \E W \in Values : Told(And(B, q), c, s, W)'
<1>1. /\ \A x : \A o : (Joined(x, o)' <=> Joined(x, o)) /\ (Reachable(x, o)' <=> Reachable(x, o))
      /\ UNCHANGED table /\ q.from = s /\ q.pc = count[s]
  BY ReachKept DEF Launch
<1>2. PICK k : k = count[s]
  OBVIOUS
<1>3. k \in Nat /\ count'[s] = k + 1
  BY <1>2, CountLaunched
<1>4. PICK W : W = [i \in Int |-> IF i < k THEN V[i] ELSE v]
  OBVIOUS
<1>5. /\ W \in Values
      /\ \A i \in Int : W[i] = IF i < k THEN V[i] ELSE v
  BY <1>4 DEF Values
<1>6. /\ \A x \in Servers \ {s} : clients'[x][c] = clients[x][c]
      /\ clients'[s][c] = v
  BY DEF TypesInv, Registers
<1>7. V[k - 1] = clients[s][c]
  <2>1. Reachable(s, s) /\ Level(s, s) = k - 1
    BY <1>2, ReachSelf DEF Level
  <2>. QED  BY <2>1 DEF Told
<1>8. Tells(q, c, s, W)
  <2>1. W[k - 1] = V[k - 1] /\ W[k] = v
    BY <1>3, <1>5
  <2>. QED  BY <1>1, <1>2, <1>7, <2>1 DEF Tells
<1>9. ASSUME NEW l \in Servers \X Servers, NEW j \in DOMAIN wire'[l], NEW r \in {wire'[l][j]}
      PROVE  Tells(r, c, s, W)
  <2>1. CASE j \in DOMAIN wire[l] /\ wire'[l][j] = wire[l][j]
    <3>1. r = wire[l][j] /\ r.pc \in Nat
      BY <1>9, <2>1, OnWire DEF TypesInv
    <3>2. Tells(r, c, s, V) /\ r.pc < count[r.from]
      BY <2>1, <3>1 DEF Told, Flooded, Proper
    <3>3. Changes(r, c) => W[r.pc] = V[r.pc] /\ W[r.pc - 1] = V[r.pc - 1]
      BY <1>2, <1>3, <1>5, <3>1, <3>2 DEF Tells
    <3>. QED  BY <3>2, <3>3 DEF Tells
  <2>2. CASE wire'[l][j] = q
    BY <1>8, <1>9, <2>2
  <2>. QED  BY <2>1, <2>2, LaunchWires
<1>10. ASSUME NEW x \in Servers, Reachable(x, s)
       PROVE  clients'[x][c] = W[Level(x, s)']
  <2>1. CASE x = s
    <3>1. Level(x, s)' = k
      BY <1>3, <2>1 DEF Level
    <3>. QED  BY <1>3, <1>5, <1>6, <2>1, <3>1
  <2>2. CASE x # s
    <3>1. Level(x, s)' = Level(x, s)
      BY <1>1, <2>2 DEF Level
    <3>2. Level(x, s) \in Int /\ Level(x, s) < k /\ clients[x][c] = V[Level(x, s)]
      BY <1>2, <1>10, LevelType DEF Told
    <3>. QED  BY <1>5, <1>6, <2>2, <3>1, <3>2
  <2>. QED  BY <2>1, <2>2
<1>11. ASSUME NEW i \in Int, NEW j \in Int, i < j, W[i] # W[j]
       PROVE  \E b \in And(B, q) : Changes(b, c) /\ b.from = s /\ i < b.pc /\ b.pc <= j
  <2>1. i < k
    BY <1>3, <1>5, <1>11
  <2>2. CASE j < k
    <3>1. V[i] # V[j]
      BY <1>5, <1>11, <2>1, <2>2
    <3>2. PICK b \in B : Changes(b, c) /\ b.from = s /\ i < b.pc /\ b.pc <= j
      BY <1>11, <3>1 DEF Told
    <3>. QED  BY <3>2 DEF And
  <2>3. CASE ~(j < k)
    <3>1. q \in And(B, q) /\ i < q.pc /\ q.pc <= j
      BY <1>1, <1>2, <1>3, <2>1, <2>3 DEF And
    <3>. QED  BY <1>1, <3>1
  <2>. QED  BY <2>2, <2>3
<1>12. ASSUME NEW x \in Servers, NEW y \in Servers, Joined(x, y), ~Reachable(x, s)
       PROVE  clients'[x][c] = clients'[y][c]
  <2>1. x # s /\ y # s
    <3>1. Reachable(s, s)
      BY ReachSelf
    <3>2. Joined(x, y) /\ y = s => Reachable(x, s)
      <4>1. Reachable(x, x)
        BY ReachSelf
      <4>. QED  BY <4>1, ReachStep
    <3>. QED  BY <1>12, <3>1, <3>2
  <2>2. clients[x][c] = clients[y][c]
    BY <1>12 DEF Told
  <2>. QED  BY <1>6, <2>1, <2>2
<1>13. Told(And(B, q), c, s, W)'
  BY <1>1, <1>9, <1>10, <1>11, <1>12 DEF Told
<1>. QED  BY <1>5, <1>13

\* The next packet that s gets of h is the next that is about c, if any is.
LEMMA NextNews ==
    ASSUME TypesInv, Abreast, NEW kinds, {"ADDCLIENT", "RMCLIENT"} \subseteq kinds,
           NEW B \in SUBSET Packets, Flooded(B, kinds),
           NEW c \in Callsigns, NEW h \in Servers, NEW V \in Values, Told(B, c, h, V),
           NEW s \in Servers, NEW n \in Servers, 1 \in DOMAIN wire[<<n, s>>],
           NEW p, p = wire[<<n, s>>][1], p.from = h, s # h, Reachable(s, h),
           Level(s, h) < p.pc
    PROVE  /\ clients[s][c] = V[p.pc - 1]
           /\ ~Changes(p, c) => V[p.pc] = V[p.pc - 1]
<1>1. /\ wire \in Wires /\ p.pc \in Nat /\ Level(s, h) \in Int
      /\ h \in DOMAIN table[s] /\ Level(s, h) = table[s][h].pcount
  <2>1. wire \in Wires
    BY DEF TypesInv
  <2>2. PICK l : l = <<n, s>>
    OBVIOUS
  <2>3. l \in Servers \X Servers /\ 1 \in DOMAIN wire[l] /\ p = wire[l][1]
    BY <2>2
  <2>. QED  BY <2>1, <2>3, OnWire, LevelType
<1>2. ASSUME NEW b \in B, Changes(b, c), b.from = h, Level(s, h) < b.pc, b.pc <= p.pc
      PROVE  Same(p, b)
  <2>1. b \in Packets /\ b.cmd \in kinds
    BY <1>2 DEF Changes
  <2>2. b.pc \in 0..(MaxCount + 1)
    BY <2>1, PacketFields
  <2>3. ~Refuses(s, b)
    BY <1>1, <1>2, <2>2, FsdAssumption DEF Refuses
  <2>. QED  BY <1>1, <1>2, <2>1, <2>3, NextOnly
<1>3. \A b \in B : b.pc \in Int
  <2>1. \A b \in B : b.pc \in 0..(MaxCount + 1)
    BY PacketFields
  <2>. QED  BY <2>1, FsdAssumption
<1>4. V[Level(s, h)] = V[p.pc - 1]
  <2>1. SUFFICES ASSUME V[Level(s, h)] # V[p.pc - 1] PROVE FALSE
    OBVIOUS
  <2>2. Level(s, h) < p.pc - 1 /\ p.pc - 1 \in Int
    BY <1>1, <2>1
  <2>3. PICK b \in B : /\ Changes(b, c) /\ b.from = h
                       /\ Level(s, h) < b.pc /\ b.pc <= p.pc - 1
    BY <1>1, <2>1, <2>2 DEF Told
  <2>4. Same(p, b)
    BY <1>1, <1>2, <1>3, <2>3
  <2>5. b.pc = p.pc
    BY <2>4 DEF Same, Copy
  <2>. QED  BY <1>1, <2>3, <2>5
<1>5. ASSUME V[p.pc] # V[p.pc - 1]
      PROVE  Changes(p, c)
  <2>1. p.pc - 1 \in Int /\ p.pc \in Int /\ p.pc - 1 < p.pc
    BY <1>1
  <2>2. PICK b \in B : Changes(b, c) /\ b.from = h /\ p.pc - 1 < b.pc /\ b.pc <= p.pc
    BY <1>5, <2>1 DEF Told
  <2>3. Level(s, h) < b.pc
    BY <1>1, <1>3, <2>2
  <2>4. Same(p, b)
    BY <1>2, <2>2, <2>3
  <2>. QED  BY <2>2, <2>4 DEF Same, Changes
<1>6. clients[s][c] = V[Level(s, h)]
  BY DEF Told
<1>. QED  BY <1>4, <1>5, <1>6

\* What s notes of the origin of p, if it notes anything.
Learning(s, n, p, new) ==
    \/ ~new /\ UNCHANGED table
    \/ /\ p.from \in DOMAIN table[s] \ {s}
       /\ \E f : /\ Noted(table[s][p.from], f, n, p)
                 /\ Update(s, With(table[s], p.from, f))
                 /\ new => f.pcount >= p.pc
                 /\ ~new => f.pcount = table[s][p.from].pcount

LEMMA LevelPass ==
    ASSUME TypesInv, Abreast, NEW kinds, NEW B \in SUBSET Packets, Flooded(B, kinds),
           NEW s \in Servers, NEW n \in Servers, NEW p,
           NEW q, NEW over, NEW new, Passing(kinds, s, n, p, q, over, new),
           Learning(s, n, p, new), NEW x \in Servers, NEW h \in Servers, Reachable(x, h)
    PROVE  \/ /\ Level(x, h)' = Level(x, h)
              /\ new /\ x = s /\ p.from = h => ~p.bi
           \/ /\ new /\ x = s /\ p.from = h /\ s # h
              /\ Level(x, h) < p.pc /\ Level(x, h)' = p.pc
<1>1. count' = count /\ (new => p.from # s /\ (p.bi => ~Refuses(s, p)))
  BY DEF Passing
<1>2. p.pc \in Nat /\ p.bi \in BOOLEAN
  <2>1. PICK l : l = <<n, s>>
    OBVIOUS
  <2>2. l \in Servers \X Servers /\ 1 \in DOMAIN wire[l] /\ p = wire[l][1] /\ wire \in Wires
    BY <2>1 DEF Passing, TypesInv
  <2>. QED  BY <2>2, OnWire
<1>3. CASE ~new /\ UNCHANGED table
  BY <1>1, <1>3 DEF Level
<1>4. CASE /\ p.from \in DOMAIN table[s] \ {s}
           /\ \E f : /\ Noted(table[s][p.from], f, n, p)
                     /\ Update(s, With(table[s], p.from, f))
                     /\ new => f.pcount >= p.pc
                     /\ ~new => f.pcount = table[s][p.from].pcount
  <2>1. PICK f : /\ Noted(table[s][p.from], f, n, p)
                 /\ Update(s, With(table[s], p.from, f))
                 /\ new => f.pcount >= p.pc
                 /\ ~new => f.pcount = table[s][p.from].pcount
    BY <1>4
  <2>2. /\ \A y \in Servers : \A o \in DOMAIN table[y] :
              ~(y = s /\ o = p.from) => table'[y][o] = table[y][o]
        /\ table'[s][p.from] = f
    BY <1>4, <2>1 DEF TypesInv, Update, With
  <2>3. x # h => h \in DOMAIN table[x] /\ Level(x, h) \in Int
    BY LevelType
  <2>4. CASE x = h
    BY <1>1, <1>4, <2>4 DEF Level
  <2>5. CASE x # h /\ ~(x = s /\ p.from = h)
    BY <2>2, <2>3, <2>5 DEF Level
  <2>6. CASE x # h /\ x = s /\ p.from = h
    <3>1. Level(x, h) = table[s][h].pcount /\ Level(x, h)' = f.pcount
      BY <2>2, <2>6 DEF Level
    <3>2. f.pcount = table[s][h].pcount \/ (table[s][h].pcount < p.pc /\ f.pcount = p.pc)
      BY <2>1, <2>6 DEF Noted
    <3>3. CASE f.pcount = table[s][h].pcount
      <4>1. new => ~p.bi
        BY <1>1, <1>2, <2>1, <2>3, <2>6, <3>1, <3>3 DEF Refuses
      <4>. QED  BY <3>1, <3>3, <4>1
    <3>4. CASE f.pcount # table[s][h].pcount
      <4>1. new
        BY <2>1, <2>6, <3>4
      <4>. QED  BY <2>6, <3>1, <3>2, <3>4, <4>1
    <3>. QED  BY <3>3, <3>4
  <2>. QED  BY <2>4, <2>5, <2>6
<1>. QED  BY <1>3, <1>4 DEF Learning

LEMMA ToldPass ==
    ASSUME TypesInv, Abreast, NEW kinds, {"ADDCLIENT", "RMCLIENT"} \subseteq kinds,
           NEW B \in SUBSET Packets, Flooded(B, kinds),
           NEW c \in Callsigns, NEW h \in Servers, NEW V \in Values, Told(B, c, h, V),
           NEW s \in Servers, NEW n \in Servers, NEW p,
           NEW q, NEW over, NEW new, Passing(kinds, s, n, p, q, over, new),
           Learning(s, n, p, new),
           new => Noticed(s, p), ~new => UNCHANGED clients
    PROVE  Told(B, c, h, V)'
<1>1. \A x : \A o : (Joined(x, o)' <=> Joined(x, o)) /\ (Reachable(x, o)' <=> Reachable(x, o))
  BY ReachKept DEF Passing
<1>2. /\ wire \in Wires /\ p.pc \in Nat /\ p.from \in Servers
      /\ p = wire[<<n, s>>][1] /\ 1 \in DOMAIN wire[<<n, s>>]
      /\ Proper(<<n, s>>, p) /\ Tells(p, c, h, V)
  <2>1. PICK l : l = <<n, s>>
    OBVIOUS
  <2>2. l \in Servers \X Servers /\ 1 \in DOMAIN wire[l] /\ p = wire[l][1] /\ wire \in Wires
    BY <2>1 DEF Passing, TypesInv
  <2>3. Proper(l, p) /\ Tells(p, c, h, V)
    BY <2>2 DEF Flooded, Told
  <2>. QED  BY <2>1, <2>2, <2>3, OnWire
<1>3. Reachable(s, p.from)
  <2>1. Reachable(p.from, n) /\ Joined(n, s)
    BY <1>2 DEF Proper
  <2>2. Reachable(p.from, s)
    BY <1>2, <2>1, ReachStep
  <2>. QED  BY <1>2, <2>2, ReachBack
<1>4. ASSUME NEW l \in Servers \X Servers, NEW j \in DOMAIN wire'[l], NEW r \in {wire'[l][j]}
      PROVE  Tells(r, c, h, V)
  <2>1. After({<<n, s>>}, {s} \X over, q, l)
    BY <1>2, PassingWires
  <2>2. CASE /\ Was({<<n, s>>}, l, j) \in DOMAIN wire[l]
             /\ wire'[l][j] = wire[l][Was({<<n, s>>}, l, j)]
    BY <1>4, <2>2 DEF Told
  <2>3. CASE l \in {s} \X over /\ wire'[l][j] = q
    <3>1. over # {}
      BY <2>3
    <3>2. new /\ Same(q, p)
      BY <3>1 DEF Passing
    <3>3. Tells(q, c, h, V)
      BY <1>2, <3>2 DEF Tells, Same, Copy, Changes
    <3>. QED  BY <1>4, <2>3, <3>3
  <2>. QED  BY <2>1, <2>2, <2>3 DEF After
<1>5. \A x \in Servers : ~(new /\ x = s /\ Changes(p, c)) => clients'[x][c] = clients[x][c]
  BY DEF Noticed
<1>6. Changes(p, c) => p.from = h /\ p.bi
  <2>1. Changes(p, c) => p.cmd # "MC"
    BY DEF Changes
  <2>. QED  BY <1>2, <2>1 DEF Tells, Proper, Plain
<1>7. ASSUME NEW x \in Servers, Reachable(x, h)
      PROVE  clients'[x][c] = V[Level(x, h)']
  <2>1. clients[x][c] = V[Level(x, h)]
    BY <1>7 DEF Told
  <2>2. CASE /\ Level(x, h)' = Level(x, h)
             /\ new /\ x = s /\ p.from = h => ~p.bi
    <3>1. ~(new /\ x = s /\ Changes(p, c))
      BY <1>6, <2>2
    <3>. QED  BY <1>5, <2>1, <2>2, <3>1
  <2>3. CASE /\ new /\ x = s /\ p.from = h /\ s # h
             /\ Level(x, h) < p.pc /\ Level(x, h)' = p.pc
    <3>1. /\ clients[s][c] = V[p.pc - 1]
          /\ ~Changes(p, c) => V[p.pc] = V[p.pc - 1]
      BY <1>2, <1>7, <2>3, NextNews
    <3>2. CASE ~Changes(p, c)
      BY <1>5, <2>3, <3>1, <3>2
    <3>3. CASE Changes(p, c)
      <4>1. clients'[s][c] = Entered(s, p, clients[s][c])
        BY <2>3, <3>3 DEF Noticed
      <4>2. h # NoServer
        BY FsdAssumption
      <4>3. CASE p.cmd = "ADDCLIENT"
        BY <1>2, <2>3, <3>1, <3>3, <4>1, <4>3 DEF Tells, Entered
      <4>4. CASE p.cmd = "RMCLIENT"
        BY <1>2, <2>3, <3>1, <3>3, <4>1, <4>4 DEF Tells, Entered
      <4>. QED  BY <3>3, <4>3, <4>4 DEF Changes
    <3>. QED  BY <3>2, <3>3
  <2>. QED  BY <1>7, <2>2, <2>3, LevelPass
<1>8. ASSUME NEW x \in Servers, NEW y \in Servers, Joined(x, y), ~Reachable(x, h)
      PROVE  clients'[x][c] = clients'[y][c]
  <2>1. clients[x][c] = clients[y][c]
    BY <1>8 DEF Told
  <2>2. CASE Changes(p, c)
    <3>1. Reachable(s, h)
      BY <1>3, <1>6, <2>2
    <3>2. x # s /\ y # s
      <4>1. y = s => Reachable(x, h)
        <5>1. Reachable(h, s) /\ (y = s => Joined(s, x))
          BY <1>8, <3>1, ReachBack DEF Joined
        <5>2. y = s => Reachable(h, x)
          BY <5>1, ReachStep
        <5>. QED  BY <5>2, ReachBack
      <4>. QED  BY <1>8, <3>1, <4>1
    <3>. QED  BY <1>5, <2>1, <3>2
  <2>. QED  BY <1>5, <2>1, <2>2
<1>9. \A i \in Int : \A j \in Int : i < j /\ V[i] # V[j] =>
          \E b \in B : Changes(b, c) /\ b.from = h /\ i < b.pc /\ b.pc <= j
  BY DEF Told
<1>. QED  BY <1>1, <1>4, <1>7, <1>8, <1>9 DEF Told
-----------------------------------------------------------------------------
(***************************************************************************)
(* The invariant of the peace.  The kinds are those of the packets that    *)
(* all servers pass on: all kinds, or all but the logins if clients may    *)
(* come and go anywhere at any time.                                       *)
(***************************************************************************)
Registered(B) ==
    Servers # {} =>
        \A c \in Callsigns : \E h \in Servers : \E V \in Values : Told(B, c, h, V)

Peaceful(kinds) ==
    /\ Linked /\ Abreast /\ Homed /\ Routed
    /\ Cardinality(Servers) <= MaxHops + 1
    /\ \E B \in SUBSET Packets :
          /\ Flooded(B, kinds) /\ Heard(B)
          /\ "ADDCLIENT" \in kinds => Registered(B)

\* A packet that is dropped leaves the flood as it is.
LEMMA DroppedPasses ==
    ASSUME TypesInv, UNCHANGED <<links, knocks, count>>, NEW kinds,
           NEW s \in Servers, NEW n \in Servers,
           1 \in DOMAIN wire[<<n, s>>], NEW p \in Packets, p = wire[<<n, s>>][1],
           Dropped(s, n, p)
    PROVE  Passing(kinds, s, n, p, p, {}, FALSE) /\ Learning(s, n, p, FALSE)
<1>1. Learning(s, n, p, FALSE)
  BY DEF Dropped, Learning
<1>2. \A x \in Servers : \A b \in Packets : Refuses(x, b)' <=> Refuses(x, b)
  <2>1. CASE UNCHANGED table
    BY <2>1, RefusesLaunched
  <2>2. CASE /\ p.from \in DOMAIN table[s] \ {s}
             /\ \E f : /\ Noted(table[s][p.from], f, n, p)
                       /\ f.pcount = table[s][p.from].pcount
                       /\ Update(s, With(table[s], p.from, f))
    <3>1. PICK f : /\ Noted(table[s][p.from], f, n, p)
                   /\ f.pcount = table[s][p.from].pcount
                   /\ Update(s, With(table[s], p.from, f))
      BY <2>2
    <3>2. ASSUME NEW x \in Servers, NEW b \in Packets
          PROVE  Refuses(x, b)' <=> Refuses(x, b)
      BY <2>2, <3>1, RefusesUpdated
    <3>. QED  BY <3>2
  <2>. QED  BY <2>1, <2>2 DEF Dropped
<1>3. Moved({<<n, s>>}, {s} \X {}, p) /\ (p.bi => Refuses(s, p))
  BY DEF Dropped
<1>4. {} \in SUBSET Neighbours(s)
  OBVIOUS
<1>. QED  BY <1>1, <1>2, <1>3, <1>4 DEF Passing

\* So does one that is handled, unless it is the login of a client that is known.
LEMMA HandledPasses ==
    ASSUME TypesInv, UNCHANGED <<links, knocks, count>>, NEW kinds,
           NEW s \in Servers, NEW n \in Servers,
           1 \in DOMAIN wire[<<n, s>>], NEW p \in Packets, p = wire[<<n, s>>][1],
           NEW over, Handled(s, n, p, over),
           p.cmd = "ADDCLIENT" /\ "ADDCLIENT" \in kinds =>
               clients[s][p.data.callsign] = NoServer
    PROVE  Passing(kinds, s, n, p, Onward(p), over, TRUE) /\ Learning(s, n, p, TRUE)
<1>1. Learning(s, n, p, TRUE)
  BY DEF Handled, Learning
<1>2. PICK f : /\ Noted(table[s][p.from], f, n, p)
               /\ f.pcount >= p.pc
               /\ Update(s, With(table[s], p.from, f))
  BY DEF Handled
<1>3. p.from \in DOMAIN table[s] \ {s} /\ p.hc <= MaxHops /\ (p.bi => ~Refuses(s, p))
  BY DEF Handled
<1>4. \A x \in Servers : \A b \in Packets :
         Refuses(x, b)' <=> Refuses(x, b) \/ (x = s /\ b.from = p.from /\ b.pc <= p.pc)
  <2>1. ASSUME NEW x \in Servers, NEW b \in Packets
        PROVE  Refuses(x, b)' <=>
                   Refuses(x, b) \/ (x = s /\ b.from = p.from /\ b.pc <= p.pc)
    BY <1>2, <1>3, RefusesUpdated
  <2>. QED  BY <2>1
<1>5. /\ Onward(p) \in Packets /\ Same(Onward(p), p) /\ Onward(p).hc = p.hc + 1
  <2>1. /\ Onward(p) \in Packets /\ Onward(p).hc = p.hc + 1
        /\ Onward(p).cmd = p.cmd /\ Onward(p).data = p.data /\ Onward(p).to = p.to
        /\ Onward(p).from = p.from /\ Onward(p).pc = p.pc /\ Onward(p).bi = p.bi
    <3>1. p.hc <= MaxHops
      BY <1>3
    <3>. QED  BY <3>1, OnwardFields, ZenonT(30)
  <2>. QED  BY <2>1 DEF Same, Copy
<1>6. /\ over \in SUBSET Neighbours(s)
      /\ Moved({<<n, s>>}, {s} \X over, Onward(p))
      /\ p.bi /\ p.cmd \in kinds => over = Neighbours(s) \ {n}
  BY DEF Handled, Passes
<1>. QED  BY <1>1, <1>3, <1>4, <1>5, <1>6 DEF Passing

\* A client that logs in is not known to a server that the news reach.
LEMMA Admitted ==
    ASSUME TypesInv, Abreast, NEW kinds, {"ADDCLIENT", "RMCLIENT"} \subseteq kinds,
           NEW B \in SUBSET Packets, Flooded(B, kinds), Registered(B),
           NEW s \in Servers, NEW n \in Servers,
           1 \in DOMAIN wire[<<n, s>>], NEW p \in Packets, p = wire[<<n, s>>][1],
           p.cmd = "ADDCLIENT", p.from \in DOMAIN table[s] \ {s}, ~Refuses(s, p),
           Reachable(s, p.from)
    PROVE  clients[s][p.data.callsign] = NoServer
<1>1. PICK c : c = p.data.callsign
  OBVIOUS
<1>2. c \in Callsigns /\ Changes(p, c)
  <2>1. p.data \in Payload["ADDCLIENT"]
    BY PacketFields
  <2>. QED  BY <1>1, <2>1 DEF Payload, Changes
<1>3. PICK h \in Servers : \E V \in Values : Told(B, c, h, V)
  BY <1>2 DEF Registered
<1>4. PICK V \in Values : Told(B, c, h, V)
  BY <1>3
<1>5. Tells(p, c, h, V)
  <2>1. PICK l : l = <<n, s>>
    OBVIOUS
  <2>2. l \in Servers \X Servers /\ 1 \in DOMAIN wire[l] /\ p = wire[l][1]
    BY <2>1
  <2>. QED  BY <1>4, <2>2 DEF Told
<1>6. p.from = h /\ V[p.pc - 1] = NoServer /\ s # h
  BY <1>2, <1>5 DEF Tells
<1>7. Level(s, h) < p.pc
  <2>1. Level(s, h) \in Int /\ Level(s, h) = table[s][h].pcount
    BY <1>6, LevelType
  <2>2. p.pc \in 0..(MaxCount + 1)
    BY PacketFields
  <2>3. ~(table[s][h].pcount >= p.pc)
    BY <1>6 DEF Refuses
  <2>. QED  BY <2>1, <2>2, <2>3, FsdAssumption
<1>8. clients[s][c] = V[p.pc - 1]
  BY <1>2, <1>4, <1>6, <1>7, NextNews
<1>. QED  BY <1>1, <1>6, <1>8

\* A packet is read.
LEMMA PeaceReceive ==
    ASSUME TypesInv, TypesInv', PointersInv, Peace, NEW kinds, "MC" \in kinds,
           "ADDCLIENT" \in kinds => "RMCLIENT" \in kinds, Peaceful(kinds),
           NEW s \in Servers, NEW n \in Servers, Receive(s, n)
    PROVE  Peaceful(kinds)'
<1>1. Linked /\ Abreast /\ Homed /\ Routed /\ Cardinality(Servers) <= MaxHops + 1
  BY DEF Peaceful
<1>2. PICK B \in SUBSET Packets :
          /\ Flooded(B, kinds) /\ Heard(B)
          /\ "ADDCLIENT" \in kinds => Registered(B)
  BY DEF Peaceful
<1>3. PICK p : p = wire[<<n, s>>][1]
  OBVIOUS
<1>4. /\ p \in Packets /\ 1 \in DOMAIN wire[<<n, s>>] /\ p.from \in Servers /\ p.bi \in BOOLEAN
      /\ Proper(<<n, s>>, p) /\ Traced(B, p)
  <2>1. wire[<<n, s>>] # <<>> /\ wire \in Wires
    BY DEF Receive, TypesInv
  <2>2. PICK l : l = <<n, s>>
    OBVIOUS
  <2>3. l \in Servers \X Servers /\ p = wire[l][1]
    BY <1>3, <2>2
  <2>4. wire[l] \in Seq(Packets) /\ wire[l] # <<>>
    BY <2>1, <2>2, <2>3 DEF Wires, Channels, Peers
  <2>5. 1 \in DOMAIN wire[l]
    BY <2>4
  <2>. QED  BY <1>2, <2>1, <2>2, <2>3, <2>5, OnWire DEF Flooded
<1>5. Plain(p) /\ Reachable(p.from, s) /\ Reachable(s, p.from)
  <2>1. Plain(p) /\ Reachable(p.from, n) /\ Joined(n, s)
    BY <1>4 DEF Proper
  <2>2. Reachable(p.from, s)
    BY <1>4, <2>1, ReachStep
  <2>. QED  BY <1>4, <2>1, <2>2, ReachBack
<1>6. p.bi /\ p.hc > MaxHops => Refuses(s, p)
  BY <1>1, <1>4, BeenEverywhere
<1>7. /\ UNCHANGED <<links, knocks, said, count>>
      /\ Dropped(s, n, p) \/ \E over : Handled(s, n, p, over)
  BY <1>1, <1>3, <1>5, <1>6, ReceiveInPeace
<1>8. Linked' /\ \A x : \A o : Reachable(x, o)' <=> Reachable(x, o)
  BY <1>1, <1>7, ReachKept DEF Linked
<1>9. \A x \in Servers : \A m \in Messages : heard[x][m] \in Int
  <2>1. \A x \in Servers : \A m \in Messages : heard[x][m] \in 0..2
    BY DEF TypesInv, Ears
  <2>. QED  BY <2>1
<1>10. CASE Dropped(s, n, p)
  <2>1. Passing(kinds, s, n, p, p, {}, FALSE) /\ Learning(s, n, p, FALSE)
    BY <1>3, <1>4, <1>7, <1>10, DroppedPasses
  <2>2. UNCHANGED <<clients, heard>>
    BY <1>10 DEF Dropped
  <2>3. Flooded(B, kinds)'
    BY <1>1, <1>2, <2>1, FloodPass
  <2>4. Heard(B)'
    <3>1. \A x \in Servers : \A m \in Messages : heard'[x][m] >= heard[x][m]
      BY <1>9, <2>2
    <3>2. FALSE /\ p.cmd = "MC" /\ p.to = Everyone => heard'[s][p.data.message] >= 1
      OBVIOUS
    <3>. QED  BY <1>2, <1>7, <2>1, <3>1, <3>2, HeardPass
  <2>5. Homed'
    BY <1>1, <1>8, <2>2 DEF Homed
  <2>6. Abreast' /\ Routed'
    <3>1. CASE UNCHANGED table /\ (p.from = s \/ p.hc > MaxHops)
      BY <1>1, <1>2, <2>1, <3>1, RoutesStill
    <3>2. CASE /\ p.from \in DOMAIN table[s] \ {s}
               /\ \E f : /\ Noted(table[s][p.from], f, n, p)
                         /\ f.pcount = table[s][p.from].pcount
                         /\ Update(s, With(table[s], p.from, f))
      BY <1>1, <1>2, <2>1, <3>2, RoutesNoted
    <3>. QED  BY <1>10, <3>1, <3>2 DEF Dropped
  <2>7. ASSUME "ADDCLIENT" \in kinds
        PROVE  Registered(B)'
    <3>1. {"ADDCLIENT", "RMCLIENT"} \subseteq kinds /\ Registered(B)
      BY <1>2, <2>7
    <3>2. ASSUME NEW c \in Callsigns, NEW h \in Servers, NEW V \in Values, Told(B, c, h, V)
          PROVE  Told(B, c, h, V)'
      BY <1>1, <1>2, <2>1, <2>2, <3>1, <3>2, ToldPass
    <3>. QED  BY <3>1, <3>2 DEF Registered
  <2>. QED  BY <1>1, <1>8, <2>3, <2>4, <2>5, <2>6, <2>7 DEF Peaceful
<1>11. ASSUME NEW over, Handled(s, n, p, over)
       PROVE  Peaceful(kinds)'
  <2>1. /\ p.from \in DOMAIN table[s] \ {s} /\ (p.bi => ~Refuses(s, p))
        /\ Noticed(s, p)
        /\ \E f : Noted(table[s][p.from], f, n, p) /\ Update(s, With(table[s], p.from, f))
    BY <1>11 DEF Handled
  <2>2. p.cmd = "ADDCLIENT" /\ "ADDCLIENT" \in kinds =>
            clients[s][p.data.callsign] = NoServer
    <3>1. p.cmd = "ADDCLIENT" => p.bi
      BY <1>5 DEF Plain
    <3>. QED  BY <1>1, <1>2, <1>3, <1>4, <1>5, <2>1, <3>1, Admitted
  <2>3. Passing(kinds, s, n, p, Onward(p), over, TRUE) /\ Learning(s, n, p, TRUE)
    BY <1>3, <1>4, <1>7, <1>11, <2>2, HandledPasses
  <2>4. Flooded(B, kinds)'
    BY <1>1, <1>2, <2>3, FloodPass
  <2>5. Heard(B)'
    <3>1. /\ \A x \in Servers : \A m \in Messages : heard'[x][m] >= heard[x][m]
          /\ p.cmd = "MC" /\ p.to = Everyone => heard'[s][p.data.message] >= 1
      BY <2>1 DEF Noticed
    <3>. QED  BY <1>2, <1>7, <2>3, <3>1, HeardPass
  <2>6. Homed'
    <3>1. ASSUME NEW x \in Servers, NEW c \in Callsigns, clients'[x][c] # NoServer
          PROVE  Reachable(x, clients'[x][c])
      <4>1. \/ clients'[x][c] = clients[x][c]
            \/ x = s /\ clients'[x][c] \in {p.from, clients[x][c], NoServer}
        BY <2>1 DEF Noticed, Entered
      <4>. QED  BY <1>1, <1>5, <3>1, <4>1 DEF Homed
    <3>. QED  BY <1>8, <3>1 DEF Homed
  <2>7. Abreast' /\ Routed'
    BY <1>1, <1>2, <2>1, <2>3, RoutesNoted
  <2>8. ASSUME "ADDCLIENT" \in kinds
        PROVE  Registered(B)'
    <3>1. {"ADDCLIENT", "RMCLIENT"} \subseteq kinds /\ Registered(B)
      BY <1>2, <2>8
    <3>2. ASSUME NEW c \in Callsigns, NEW h \in Servers, NEW V \in Values, Told(B, c, h, V)
          PROVE  Told(B, c, h, V)'
      BY <1>1, <1>2, <2>1, <2>3, <3>1, <3>2, ToldPass
    <3>. QED  BY <3>1, <3>2 DEF Registered
  <2>. QED  BY <1>1, <1>8, <2>4, <2>5, <2>6, <2>7, <2>8 DEF Peaceful
<1>. QED  BY <1>7, <1>10, <1>11

\* A packet is sent, and what else it takes.
LEMMA PeaceLaunch ==
    ASSUME TypesInv, NEW kinds, Linked, Abreast, Routed, Homed',
           Cardinality(Servers) <= MaxHops + 1, NEW B \in SUBSET Packets, Flooded(B, kinds),
           NEW s \in Servers, NEW q \in Packets, NEW over, Launch(s, q, over),
           Heard(And(B, q))',
           "ADDCLIENT" \in kinds => Registered(And(B, q))'
    PROVE  Peaceful(kinds)'
<1>1. PICK D : D = And(B, q)
  OBVIOUS
<1>2. D \in SUBSET Packets
  BY <1>1 DEF And
<1>3. Flooded(D, kinds)'
  BY <1>1, FloodLaunch
<1>4. Heard(D)' /\ ("ADDCLIENT" \in kinds => Registered(D)')
  BY <1>1
<1>5. Linked' /\ Abreast' /\ Routed'
  BY RoutesLaunch DEF Linked, Launch
<1>. QED  BY <1>2, <1>3, <1>4, <1>5 DEF Peaceful

\* What is not about c leaves the register as it is.
LEMMA RegisteredLaunch ==
    ASSUME TypesInv, Abreast, NEW kinds, NEW B \in SUBSET Packets, Flooded(B, kinds),
           Registered(B), NEW s \in Servers, NEW q, NEW over, Launch(s, q, over),
           q.cmd \notin {"ADDCLIENT", "RMCLIENT"}, UNCHANGED clients
    PROVE  Registered(And(B, q))'
<1>1. \A c : ~Changes(q, c)
  BY DEF Changes
<1>2. ASSUME NEW c \in Callsigns
      PROVE  \E h \in Servers : \E V \in Values : Told(And(B, q), c, h, V)'
  <2>1. PICK h \in Servers : \E V \in Values : Told(B, c, h, V)
    BY DEF Registered
  <2>2. PICK V \in Values : Told(B, c, h, V)
    BY <2>1
  <2>3. \A x \in Servers : clients'[x][c] = clients[x][c]
    OBVIOUS
  <2>4. Told(And(B, q), c, h, V)'
    BY <1>1, <2>2, <2>3, ToldLaunch
  <2>. QED  BY <2>4
<1>. QED  BY <1>2 DEF Registered

\* A server does its chores.
LEMMA PeaceChores ==
    ASSUME TypesInv, TypesInv', NEW kinds, Peaceful(kinds), NEW s \in Servers,
           count'[s] >= count[s], Sync(s) \/ Notify(s)
    PROVE  Peaceful(kinds)'
<1>1. Linked /\ Abreast /\ Homed /\ Routed /\ Cardinality(Servers) <= MaxHops + 1
  BY DEF Peaceful
<1>2. PICK B \in SUBSET Packets :
          /\ Flooded(B, kinds) /\ Heard(B)
          /\ "ADDCLIENT" \in kinds => Registered(B)
  BY DEF Peaceful
<1>3. UNCHANGED <<clients, said, heard>>
  BY <1>1, ChoresLaunch
<1>4. PICK q \in Packets : Launch(s, q, Neighbours(s)) /\ q.cmd \in {"SYNC", "NOTIFY"}
  BY <1>1, ChoresLaunch
<1>5. Homed'
  BY <1>1, <1>3, <1>4, ReachKept DEF Homed, Launch
<1>6. Heard(And(B, q))'
  <2>1. PICK news \in SUBSET Messages : news = {}
    OBVIOUS
  <2>2. \A x \in Servers : \A m \in Messages : heard'[x][m] >= heard[x][m]
    <3>1. \A x \in Servers : \A m \in Messages : heard[x][m] \in 0..2
      BY DEF TypesInv, Ears
    <3>. QED  BY <1>3, <3>1
  <2>. QED  BY <1>2, <1>3, <1>4, <2>1, <2>2, HeardLaunch
<1>7. "ADDCLIENT" \in kinds => Registered(And(B, q))'
  BY <1>1, <1>2, <1>3, <1>4, RegisteredLaunch
<1>. QED  BY <1>1, <1>2, <1>4, <1>5, <1>6, <1>7, PeaceLaunch

\* A message is sent.
LEMMA PeaceSay ==
    ASSUME TypesInv, TypesInv', PointersInv, NEW kinds, Peaceful(kinds), NEW s \in Servers,
           count'[s] >= count[s], NEW m \in Messages, Say(s, m)
    PROVE  Peaceful(kinds)'
<1>1. Linked /\ Abreast /\ Homed /\ Routed /\ Cardinality(Servers) <= MaxHops + 1
  BY DEF Peaceful
<1>2. PICK B \in SUBSET Packets :
          /\ Flooded(B, kinds) /\ Heard(B)
          /\ "ADDCLIENT" \in kinds => Registered(B)
  BY DEF Peaceful
<1>3. /\ UNCHANGED clients
      /\ \E q \in Packets : \E over \in SUBSET Servers :
            /\ Launch(s, q, over) /\ q.cmd = "MC"
            /\ Heard(And(B, q))'
  BY <1>1, <1>2, HeardSay
<1>4. PICK q \in Packets : \E over \in SUBSET Servers :
          /\ Launch(s, q, over) /\ q.cmd = "MC"
          /\ Heard(And(B, q))'
  BY <1>3
<1>5. PICK over \in SUBSET Servers :
          /\ Launch(s, q, over) /\ q.cmd = "MC"
          /\ Heard(And(B, q))'
  BY <1>4
<1>6. Homed'
  BY <1>1, <1>3, <1>5, ReachKept DEF Homed, Launch
<1>7. "ADDCLIENT" \in kinds => Registered(And(B, q))'
  BY <1>1, <1>2, <1>3, <1>5, RegisteredLaunch
<1>. QED  BY <1>1, <1>2, <1>5, <1>6, <1>7, PeaceLaunch

\* A client comes or goes.
LEMMA PeaceClient ==
    ASSUME TypesInv, TypesInv', NEW kinds, "ADDCLIENT" \in kinds => "RMCLIENT" \in kinds,
           Peaceful(kinds), NEW s \in Servers, count'[s] >= count[s],
           NEW c \in Callsigns, Login(s, c) \/ Logout(s, c),
           "ADDCLIENT" \in kinds => Orderly
    PROVE  Peaceful(kinds)'
<1>1. Linked /\ Abreast /\ Homed /\ Routed /\ Cardinality(Servers) <= MaxHops + 1
  BY DEF Peaceful
<1>2. PICK B \in SUBSET Packets :
          /\ Flooded(B, kinds) /\ Heard(B)
          /\ "ADDCLIENT" \in kinds => Registered(B)
  BY DEF Peaceful
<1>3. UNCHANGED <<said, heard>>
  BY <1>1, ClientLaunches
<1>4. PICK q \in Packets : \E v \in {s, NoServer} :
          /\ Launch(s, q, Neighbours(s))
          /\ clients' = [clients EXCEPT ![s][c] = v]
          /\ Changes(q, c) /\ q.bi
          /\ q.cmd = "ADDCLIENT" => clients[s][c] = NoServer /\ v = s
          /\ q.cmd = "RMCLIENT" => clients[s][c] = s /\ v = NoServer
  BY <1>1, ClientLaunches
<1>5. PICK v \in {s, NoServer} :
          /\ Launch(s, q, Neighbours(s))
          /\ clients' = [clients EXCEPT ![s][c] = v]
          /\ Changes(q, c) /\ q.bi
          /\ q.cmd = "ADDCLIENT" => clients[s][c] = NoServer /\ v = s
          /\ q.cmd = "RMCLIENT" => clients[s][c] = s /\ v = NoServer
  BY <1>4
<1>6. /\ \A x \in Servers : \A d \in Callsigns :
            ~(x = s /\ d = c) => clients'[x][d] = clients[x][d]
      /\ clients'[s][c] = v
  BY <1>5 DEF TypesInv, Registers
<1>7. Homed'
  <2>1. ASSUME NEW x \in Servers, NEW d \in Callsigns, clients'[x][d] # NoServer
        PROVE  Reachable(x, clients'[x][d])
    <3>1. CASE x = s /\ d = c
      BY <1>6, <2>1, <3>1, ReachSelf
    <3>2. CASE ~(x = s /\ d = c)
      BY <1>1, <1>6, <2>1, <3>2 DEF Homed
    <3>. QED  BY <3>1, <3>2
  <2>2. \A x : \A o : Reachable(x, o)' <=> Reachable(x, o)
    BY <1>5, ReachKept DEF Launch
  <2>. QED  BY <2>1, <2>2 DEF Homed
<1>8. Heard(And(B, q))'
  <2>1. PICK news \in SUBSET Messages : news = {}
    OBVIOUS
  <2>2. \A x \in Servers : \A m \in Messages : heard'[x][m] >= heard[x][m]
    <3>1. \A x \in Servers : \A m \in Messages : heard[x][m] \in 0..2
      BY DEF TypesInv, Ears
    <3>. QED  BY <1>3, <3>1
  <2>. QED  BY <1>2, <1>3, <1>5, <2>1, <2>2, HeardLaunch
<1>9. ASSUME "ADDCLIENT" \in kinds, NEW d \in Callsigns
      PROVE  \E h \in Servers : \E V \in Values : Told(And(B, q), d, h, V)'
  <2>1. {"ADDCLIENT", "RMCLIENT"} \subseteq kinds /\ Orderly
    BY <1>9
  <2>2. PICK h \in Servers : \E V \in Values : Told(B, d, h, V)
    BY <1>2, <1>9 DEF Registered
  <2>3. PICK V \in Values : Told(B, d, h, V)
    BY <2>2
  <2>4. CASE d # c
    <3>1. ~Changes(q, d) /\ \A x \in Servers : clients'[x][d] = clients[x][d]
      BY <1>5, <1>6, <2>4 DEF Changes
    <3>2. Told(And(B, q), d, h, V)'
      BY <1>1, <1>2, <1>5, <2>3, <3>1, ToldLaunch
    <3>. QED  BY <3>2
  <2>5. CASE d = c
    <3>1. \E W \in Values : Told(B, c, s, W)
      <4>1. CASE h = s
        BY <2>3, <2>5, <4>1
      <4>2. CASE h # s
        <5>1. (clients[s][c] = s) # (clients'[s][c] = s)
          <6>1. s # NoServer
            BY FsdAssumption
          <6>. QED  BY <1>5, <1>6, <6>1 DEF Changes
        <5>2. ASSUME NEW l \in Servers \X Servers, NEW i \in DOMAIN wire[l],
                     Changes(wire[l][i], c)
              PROVE  FALSE
          <6>1. wire[l][i].from = s
            BY <2>1, <5>1, <5>2 DEF Orderly
          <6>2. Tells(wire[l][i], c, h, V)
            BY <2>3, <2>5 DEF Told
          <6>. QED  BY <4>2, <5>2, <6>1, <6>2 DEF Tells
        <5>3. Agreed(c)
          BY <1>1, <1>2, <2>1, <2>3, <2>5, <5>2, Agreement
        <5>. QED  BY <1>1, <5>2, <5>3, ToldAnew
      <4>. QED  BY <4>1, <4>2
    <3>2. PICK W \in Values : Told(B, c, s, W)
      BY <3>1
    <3>3. \E X \in Values : Told(And(B, q), c, s, X)'
      BY <1>1, <1>2, <1>5, <3>2, ToldChange
    <3>. QED  BY <2>5, <3>3
  <2>. QED  BY <2>4, <2>5
<1>10. "ADDCLIENT" \in kinds => Registered(And(B, q))'
  BY <1>9 DEF Registered
<1>. QED  BY <1>1, <1>2, <1>5, <1>7, <1>8, <1>10, PeaceLaunch

\* In a calm the network stays peaceful.
LEMMA PeaceStep ==
    ASSUME TypesInv, TypesInv', PointersInv, Peace, NEW kinds, "MC" \in kinds,
           "ADDCLIENT" \in kinds => "RMCLIENT" \in kinds, Peaceful(kinds),
           Next, Calm, "ADDCLIENT" \in kinds => Orderly
    PROVE  Peaceful(kinds)'
<1>1. knocks = {} /\ \A l \in links : <<l[2], l[1]>> \in links
  BY DEF Peaceful, Linked
<1>2. PICK s \in Servers :
          \/ Sync(s) \/ Notify(s) \/ Crash(s) \/ Start(s)
          \/ \E c \in Callsigns : Login(s, c) \/ Logout(s, c) \/ ClientTimeout(s, c)
          \/ \E m \in Messages : Say(s, m)
          \/ \E n \in Servers : \/ Connect(s, n) \/ ServerTimeout(s, n)
                                \/ \E g \in Stubs : Reconnect(s, n, g)
          \/ \E n \in Peers : Accept(s, n) \/ Fail(s, n) \/ Close(s, n) \/ Receive(s, n)
  BY DEF Next
<1>3. /\ ~Crash(s) /\ ~Start(s) /\ count'[s] >= count[s]
      /\ \A n \in Servers : /\ ~Connect(s, n) /\ ~ServerTimeout(s, n)
                            /\ \A g \in Stubs : ~Reconnect(s, n, g)
      /\ \A n \in Peers : ~Fail(s, n)
      /\ \A c \in Callsigns : ~ClientTimeout(s, c)
  BY DEF Calm
<1>4. CASE Sync(s) \/ Notify(s)
  BY <1>3, <1>4, PeaceChores
<1>5. CASE \E c \in Callsigns : Login(s, c) \/ Logout(s, c)
  BY <1>3, <1>5, PeaceClient
<1>6. CASE \E m \in Messages : Say(s, m)
  BY <1>3, <1>6, PeaceSay
<1>7. CASE \E n \in Peers : Receive(s, n)
  <2>1. PICK n \in Peers : Receive(s, n)
    BY <1>7
  <2>2. Linked /\ n \in Neighbours(s)
    BY <2>1 DEF Peaceful, Receive, Neighbours
  <2>3. n \in Servers
    BY <2>2, NeighbourServers
  <2>. QED  BY <2>1, <2>3, PeaceReceive
<1>8. \A n \in Peers : ~Accept(s, n)
  BY <1>1 DEF Accept
<1>9. \A n \in Peers : ~Close(s, n)
  <2>1. ASSUME NEW n \in Peers, Close(s, n)
        PROVE  FALSE
    <3>1. PICK l : l = <<s, n>>
      OBVIOUS
    <3>2. l \in links /\ <<n, s>> \notin links
      BY <2>1, <3>1 DEF Close
    <3>3. l[1] = s /\ l[2] = n
      BY <3>1
    <3>. QED  BY <1>1, <3>2, <3>3
  <2>. QED  BY <2>1
<1>. QED  BY <1>2, <1>3, <1>4, <1>5, <1>6, <1>7, <1>8, <1>9

LEMMA PeaceStutter ==
    ASSUME NEW kinds, Peaceful(kinds), UNCHANGED netVars
    PROVE  Peaceful(kinds)'
<1>1. /\ table' = table /\ count' = count /\ clients' = clients /\ links' = links
      /\ knocks' = knocks /\ wire' = wire /\ said' = said /\ heard' = heard
  BY DEF netVars
<1>2. PICK B \in SUBSET Packets :
          /\ Flooded(B, kinds) /\ Heard(B)
          /\ "ADDCLIENT" \in kinds => Registered(B)
  BY DEF Peaceful
<1>3. /\ \A x : \A o : Joined(x, o)' <=> Joined(x, o)
      /\ \A x : \A o : Reachable(x, o)' <=> Reachable(x, o)
      /\ \A x : \A b : Refuses(x, b)' <=> Refuses(x, b)
      /\ \A l : \A b : CopyOn(l, b)' <=> CopyOn(l, b)
      /\ \A x : \A o : Coming(o, x)' <=> Coming(o, x)
      /\ \A x : \A h : Level(x, h)' = Level(x, h)
  BY <1>1, ReachKept, RefusesLaunched DEF CopyOn, Coming, Level
<1>4. Linked' /\ Abreast' /\ Homed'
  BY <1>1, <1>3 DEF Peaceful, Linked, Abreast, Homed
<1>5. Routed'
  BY <1>1, <1>3 DEF Peaceful, Routed, Led
<1>6. Flooded(B, kinds)'
  <2>1. \A l : \A q : Proper(l, q)' <=> Proper(l, q)
    BY <1>1, <1>3 DEF Proper
  <2>2. \A q : Holders(q)' = Holders(q)
    BY <1>3 DEF Holders
  <2>3. \A q : Traced(B, q)' <=> Traced(B, q)
    BY <2>2 DEF Traced
  <2>4. \A b : (Handed(b, kinds)' <=> Handed(b, kinds)) /\ (InOrder(b)' <=> InOrder(b))
    BY <1>1, <1>3 DEF Handed, InOrder
  <2>. QED  BY <1>1, <1>2, <2>1, <2>3, <2>4 DEF Flooded
<1>7. Heard(B)'
  BY <1>1, <1>2, <1>3 DEF Heard, HasHeard, Carries
<1>8. "ADDCLIENT" \in kinds => Registered(B)'
  <2>1. \A c : \A h : \A V : Told(B, c, h, V) => Told(B, c, h, V)'
    BY <1>1, <1>3 DEF Told
  <2>. QED  BY <1>2, <2>1 DEF Registered
<1>. QED  BY <1>4, <1>5, <1>6, <1>7, <1>8 DEF Peaceful

\* A settled network is peaceful: nothing is under way.
LEMMA PeaceSettled ==
    ASSUME TypesInv, Settled, NEW kinds
    PROVE  Peaceful(kinds)
<1>1. /\ Quiet /\ Abreast /\ Direct /\ Homed /\ EveryoneHears
      /\ \A c \in Callsigns : Agreed(c)
      /\ Cardinality(Servers) <= MaxHops + 1
  BY DEF Settled
<1>2. \A l \in Servers \X Servers : wire[l] = <<>> /\ DOMAIN wire[l] = {}
  <2>1. DOMAIN <<>> = {}
    OBVIOUS
  <2>. QED  BY <1>1, <2>1 DEF Quiet, Channels, Peers
<1>3. Linked
  BY <1>1 DEF Quiet, Linked
<1>4. Routed
  BY <1>1 DEF Direct, Routed, Led
<1>5. PICK B \in SUBSET Packets : B = {}
  OBVIOUS
<1>6. Flooded(B, kinds)
  BY <1>2, <1>5 DEF Flooded
<1>7. Heard(B)
  BY <1>1 DEF EveryoneHears, Heard, HasHeard
<1>8. ASSUME NEW c \in Callsigns, NEW h \in Servers
      PROVE  \E V \in Values : Told(B, c, h, V)
  BY <1>1, <1>2, ToldAnew
<1>9. Registered(B)
  BY <1>8 DEF Registered
<1>. QED  BY <1>1, <1>3, <1>4, <1>6, <1>7, <1>9 DEF Peaceful

(***************************************************************************)
(* What it says of the network at rest.                                    *)
(***************************************************************************)
LEMMA PeaceHeard ==
    ASSUME NEW kinds, "MC" \in kinds, Peaceful(kinds)
    PROVE  EveryoneHears
<1>1. SUFFICES ASSUME Quiet, NEW m \in Messages, said[m] # NoServer,
                      Addressee[m] = Everyone, NEW x \in Servers, Reachable(said[m], x)
               PROVE  heard[x][m] >= 1
  BY DEF EveryoneHears
<1>2. PICK B \in SUBSET Packets : Flooded(B, kinds) /\ Heard(B)
  BY DEF Peaceful
<1>3. CASE \A y \in Servers : Reachable(said[m], y) => HasHeard(m, y)
  BY <1>1, <1>3 DEF HasHeard
<1>4. ASSUME NEW b \in B, Carries(b, m), Refuses(x, b) => HasHeard(m, x)
      PROVE  heard[x][m] >= 1
  <2>1. b.cmd \in kinds /\ b.from = said[m]
    BY <1>4 DEF Carries
  <2>2. \A l \in Servers \X Servers : ~CopyOn(l, b)
    <3>1. DOMAIN <<>> = {}
      OBVIOUS
    <3>. QED  BY <1>1, <3>1 DEF Quiet, CopyOn, Channels, Peers
  <2>3. Refuses(x, b)
    BY <1>1, <1>2, <2>1, <2>2, AllRefuse
  <2>. QED  BY <1>4, <2>3 DEF HasHeard
<1>. QED  BY <1>1, <1>2, <1>3, <1>4 DEF Heard

LEMMA PeaceRoutes ==
    ASSUME TypesInv, NEW kinds, Peaceful(kinds)
    PROVE  RoutesLead
<1>1. SUFFICES ASSUME Quiet, NEW s \in Servers, NEW o \in DOMAIN table[s]
               PROVE  /\ table[s][o].path # NoServer => Reachable(s, o)
                      /\ Joined(s, o) => table[s][o].path \in {o, NoServer}
  BY DEF RoutesLead
<1>2. o \in Servers /\ Led(s, o, table[s][o])
  BY DEF Peaceful, Routed, TypesInv, Typed
<1>3. ~Coming(o, s)
  <2>1. DOMAIN <<>> = {}
    OBVIOUS
  <2>2. wire[<<o, s>>] = <<>>
    BY <1>1, <1>2 DEF Quiet, Channels, Peers
  <2>. QED  BY <2>1, <2>2 DEF Coming
<1>. QED  BY <1>2, <1>3 DEF Led

LEMMA PeaceAgrees ==
    ASSUME TypesInv, NEW kinds, {"ADDCLIENT", "RMCLIENT"} \subseteq kinds, Peaceful(kinds),
           Quiet, NEW c \in Callsigns, NEW s \in Servers, NEW o \in Servers,
           Reachable(s, o)
    PROVE  clients[s][c] = clients[o][c]
<1>1. Linked /\ Abreast
  BY DEF Peaceful
<1>2. PICK B \in SUBSET Packets : Flooded(B, kinds) /\ Registered(B)
  BY DEF Peaceful
<1>3. PICK h \in Servers : \E V \in Values : Told(B, c, h, V)
  BY <1>2 DEF Registered
<1>4. PICK V \in Values : Told(B, c, h, V)
  BY <1>3
<1>5. \A l \in Servers \X Servers : \A i \in DOMAIN wire[l] : ~Changes(wire[l][i], c)
  <2>1. DOMAIN <<>> = {}
    OBVIOUS
  <2>. QED  BY <2>1 DEF Quiet, Channels, Peers
<1>6. Agreed(c)
  BY <1>1, <1>2, <1>4, <1>5, Agreement
<1>. QED  BY <1>6, AgreedFar

LEMMA PeaceRegisters ==
    ASSUME TypesInv, NEW kinds, {"ADDCLIENT", "RMCLIENT"} \subseteq kinds, Peaceful(kinds)
    PROVE  ClientsKnown /\ NoGhosts
<1>1. ASSUME Quiet, NEW c \in Callsigns, NEW s \in Servers, NEW o \in Servers,
             OnlineAt(c) = {s}, Reachable(s, o)
      PROVE  clients[o][c] = s
  <2>1. s \in OnlineAt(c)
    BY <1>1
  <2>2. clients[s][c] = s
    BY <2>1 DEF OnlineAt
  <2>. QED  BY <1>1, <2>2, PeaceAgrees
<1>2. ASSUME Quiet, NEW s \in Servers, NEW c \in Callsigns, clients[s][c] # NoServer
      PROVE  clients[clients[s][c]][c] = clients[s][c]
  <2>1. clients[s][c] \in Servers /\ Reachable(s, clients[s][c])
    BY <1>2 DEF TypesInv, Registers, Peaceful, Homed
  <2>. QED  BY <1>2, <2>1, PeaceAgrees
<1>. QED  BY <1>1, <1>2 DEF ClientsKnown, NoGhosts
-----------------------------------------------------------------------------
\* The kinds of packets that every server passes on, whoever logs in when.
PassedOn == DOMAIN Payload \ {"ADDCLIENT"}

LEMMA AllPassedOn == {"MC", "ADDCLIENT", "RMCLIENT"} \subseteq DOMAIN Payload
BY DEF Payload

(***************************************************************************)
(* Everybody hears what is said to everybody, whatever else is said, and   *)
(* however the copies overtake each other on their ways through the        *)
(* network, from any moment on at which it is settled, for as long as the  *)
(* peace lasts.                                                            *)
(***************************************************************************)
THEOREM EveryoneHearsInPeace ==
    Spec => [](Settled => ([]Peace /\ [][Calm]_netVars => []EveryoneHears))
<1>1. "MC" \in PassedOn /\ "ADDCLIENT" \notin PassedOn
  BY DEF PassedOn, Payload
<1>2. TypesInv /\ Settled => Peaceful(PassedOn)
  BY PeaceSettled
<1>3. TypesInv /\ TypesInv' /\ PointersInv /\ Peace /\ Peaceful(PassedOn)
          /\ [Next]_netVars /\ [Calm]_netVars => Peaceful(PassedOn)'
  BY <1>1, PeaceStep, PeaceStutter
<1>4. Peaceful(PassedOn) => EveryoneHears
  BY <1>1, PeaceHeard
<1>. QED  BY <1>2, <1>3, <1>4, TypesCorrect, PointersCorrect, PTL DEF Spec

(***************************************************************************)
(* In the same way every route leads to where it says, and to a neighbour  *)
(* over the connection.                                                    *)
(***************************************************************************)
THEOREM RoutesLeadInPeace ==
    Spec => [](Settled => ([]Peace /\ [][Calm]_netVars => []RoutesLead))
<1>1. "MC" \in PassedOn /\ "ADDCLIENT" \notin PassedOn
  BY DEF PassedOn, Payload
<1>2. TypesInv /\ Settled => Peaceful(PassedOn)
  BY PeaceSettled
<1>3. TypesInv /\ TypesInv' /\ PointersInv /\ Peace /\ Peaceful(PassedOn)
          /\ [Next]_netVars /\ [Calm]_netVars => Peaceful(PassedOn)'
  BY <1>1, PeaceStep, PeaceStutter
<1>4. TypesInv /\ Peaceful(PassedOn) => RoutesLead
  BY PeaceRoutes
<1>. QED  BY <1>2, <1>3, <1>4, TypesCorrect, PointersCorrect, PTL DEF Spec

(***************************************************************************)
(* If moreover no client comes to a server while the news of what it did   *)
(* at another are under way, every server that can reach the server of a   *)
(* client has it in its register, with its server.                         *)
(***************************************************************************)
THEOREM ClientsKnownInPeace ==
    Spec => [](Settled => ([]Peace /\ [][Calm /\ Orderly]_netVars => []ClientsKnown))
<1>1. TypesInv /\ Settled => Peaceful(DOMAIN Payload)
  BY PeaceSettled
<1>2. TypesInv /\ TypesInv' /\ PointersInv /\ Peace /\ Peaceful(DOMAIN Payload)
          /\ [Next]_netVars /\ [Calm /\ Orderly]_netVars => Peaceful(DOMAIN Payload)'
  BY AllPassedOn, PeaceStep, PeaceStutter
<1>3. TypesInv /\ Peaceful(DOMAIN Payload) => ClientsKnown
  BY AllPassedOn, PeaceRegisters
<1>. QED  BY <1>1, <1>2, <1>3, TypesCorrect, PointersCorrect, PTL DEF Spec

(***************************************************************************)
(* And no register at rest holds a client that has left: no old ADDCLIENT  *)
(* that comes round the network brings it back.                            *)
(***************************************************************************)
THEOREM NoGhostsInPeace ==
    Spec => [](Settled => ([]Peace /\ [][Calm /\ Orderly]_netVars => []NoGhosts))
<1>1. TypesInv /\ Settled => Peaceful(DOMAIN Payload)
  BY PeaceSettled
<1>2. TypesInv /\ TypesInv' /\ PointersInv /\ Peace /\ Peaceful(DOMAIN Payload)
          /\ [Next]_netVars /\ [Calm /\ Orderly]_netVars => Peaceful(DOMAIN Payload)'
  BY AllPassedOn, PeaceStep, PeaceStutter
<1>3. TypesInv /\ Peaceful(DOMAIN Payload) => NoGhosts
  BY AllPassedOn, PeaceRegisters
<1>. QED  BY <1>1, <1>2, <1>3, TypesCorrect, PointersCorrect, PTL DEF Spec
=============================================================================
