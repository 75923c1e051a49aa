-------------------------- MODULE FsdNetwork_proofs --------------------------
(***************************************************************************)
(* Proofs about the FSD servers, for any network, clients, messages and    *)
(* faults, in three parts.                                                 *)
(*                                                                         *)
(* The pointers: routes lead over connections that are open, and clients   *)
(* are at servers that are known. Nothing is assumed of the packets that   *)
(* are under way, so it does not matter what a neighbour sends.            *)
(*                                                                         *)
(* The types: counts, hops and drops keep to their ranges, and packets     *)
(* carry what their commands read.                                         *)
(*                                                                         *)
(* The messages: nobody hears one twice as long as no packet count goes    *)
(* back, and the three ways in which a count may go back.                  *)
(***************************************************************************)
EXTENDS FsdNetwork, FiniteSetTheorems, WellFoundedInduction, TLAPS

IsEntry(e) ==
    e = [path |-> e.path, hops |-> e.hops, pcount |-> e.pcount, drops |-> e.drops]

\* What s may keep of o while it has the connections `open`.
Sound(e, s, o, open) ==
    /\ IsEntry(e)
    /\ e.path # NoServer => <<s, e.path>> \in open /\ o # s
    /\ e.path = NoServer => e.hops = NoHops /\ e.pcount = -1

\* A table that s may have.
Good(t, s, open) ==
    /\ t = [o \in DOMAIN t |-> t[o]]
    /\ s \in DOMAIN t
    /\ \A o \in DOMAIN t : Sound(t[o], s, o, open)

\* A register of clients that s may have beside the table t.
Housed(r, t) ==
    /\ r = [c \in Callsigns |-> r[c]]
    /\ \A c \in Callsigns : r[c] # NoServer => r[c] \in DOMAIN t

PointersInv ==
    /\ table = [s \in Servers |-> table[s]]
    /\ clients = [s \in Servers |-> clients[s]]
    /\ \A s \in Servers : Good(table[s], s, links) /\ Housed(clients[s], table[s])

\* Only the table and the register of s change, and its connections.
AtServer(s) ==
    /\ table' = [table EXCEPT ![s] = table'[s]]
    /\ clients' = [clients EXCEPT ![s] = clients'[s]]
    /\ \A l \in links : l[1] # s => l \in links'
-----------------------------------------------------------------------------
\* A step of s keeps the pointers if it keeps those of s.
LEMMA LocalStep ==
    ASSUME PointersInv, NEW s \in Servers, AtServer(s),
           Good(table'[s], s, links'), Housed(clients'[s], table'[s])
    PROVE  PointersInv'
<1>1. table' = [o \in Servers |-> table'[o]] /\ clients' = [o \in Servers |-> clients'[o]]
  BY DEF PointersInv, AtServer
<1>2. ASSUME NEW o \in Servers
      PROVE  Good(table'[o], o, links') /\ Housed(clients'[o], table'[o])
  <2>1. CASE o = s
    BY <2>1
  <2>2. CASE o # s
    <3>1. table'[o] = table[o] /\ clients'[o] = clients[o]
      BY <2>2 DEF PointersInv, AtServer
    <3>2. \A n : <<o, n>> \in links => <<o, n>> \in links'
      BY <2>2 DEF AtServer
    <3>3. Good(table[o], o, links) /\ Housed(clients[o], table[o])
      BY DEF PointersInv
    <3>. QED  BY <3>1, <3>2, <3>3 DEF Good, Sound
  <2>. QED  BY <2>1, <2>2
<1>. QED  BY <1>1, <1>2 DEF PointersInv

\* More connections do no harm.
LEMMA MoreLinks ==
    ASSUME NEW t, NEW s, NEW open, NEW more, Good(t, s, open), open \subseteq more
    PROVE  Good(t, s, more)
BY DEF Good, Sound

-----------------------------------------------------------------------------
(***************************************************************************)
(* What becomes of the table of s when it receives p from n.               *)
(***************************************************************************)
\* A route through n is sound while s is connected to n.
LEMMA SetPathSound ==
    ASSUME NEW e, NEW s, NEW o, NEW open, NEW n \in Peers, NEW h,
           IsEntry(e), <<s, n>> \in open, o # s
    PROVE  /\ Sound(SetPath(e, n, h), s, o, open)
           /\ SetPath(e, n, h).path = n
<1>1. n # NoServer
  BY FsdAssumption DEF Peers
<1>2. SetPath(e, n, h) =
          [[path |-> e.path, hops |-> e.hops, pcount |-> e.pcount, drops |-> e.drops]
              EXCEPT !.path = n, !.hops = h, !.pcount = e.pcount]
  BY <1>1 DEF SetPath, IsEntry
<1>3. SetPath(e, n, h) =
          [path |-> n, hops |-> h, pcount |-> e.pcount, drops |-> e.drops]
  BY <1>2
<1>. QED  BY <1>1, <1>3 DEF Sound, IsEntry

\* After the first look at a packet its origin has a route.
LEMMA ReroutedSound ==
    ASSUME NEW e, NEW s, NEW o, NEW open, NEW n \in Peers, NEW p,
           Sound(e, s, o, open), <<s, n>> \in open, o # s
    PROVE  /\ Sound(Rerouted(e, n, p), s, o, open)
           /\ Rerouted(e, n, p).path # NoServer
<1>1. CASE p.hc < e.hops \/ e.hops = NoHops
  <2>1. Rerouted(e, n, p) = SetPath(e, n, p.hc)
    BY <1>1 DEF Rerouted
  <2>2. IsEntry(e)
    BY DEF Sound
  <2>. QED  BY <2>1, <2>2, SetPathSound, FsdAssumption DEF Peers
<1>2. CASE ~(p.hc < e.hops \/ e.hops = NoHops)
  BY <1>2 DEF Rerouted, Sound
<1>. QED  BY <1>1, <1>2

\* Counting a drop or a packet keeps the route.
LEMMA CountedSound ==
    ASSUME NEW e, NEW s, NEW o, NEW open, NEW n \in Peers, NEW p,
           Sound(e, s, o, open), e.path # NoServer, <<s, n>> \in open, o # s
    PROVE  /\ Sound(DropCounted(e), s, o, open)
           /\ Sound(Passed(e, n, p), s, o, open)
           /\ Passed(e, n, p).path # NoServer
<1>1. Sound(DropCounted(e), s, o, open)
  BY DEF DropCounted, Sound, IsEntry
<1>. DEFINE k == IF e.drops >= DropLimit \/ p.pc > e.pcount THEN p.pc ELSE e.pcount
            c == [e EXCEPT !.pcount = k]
<1>2. IsEntry(c) /\ c.path = e.path
  BY DEF Sound, IsEntry
<1>3. Sound(c, s, o, open)
  BY <1>2 DEF Sound
<1>4. CASE p.bi
  <2>1. Sound(SetPath(c, n, p.hc), s, o, open) /\ SetPath(c, n, p.hc).path = n
    BY <1>2, SetPathSound
  <2>2. Passed(e, n, p) = [SetPath(c, n, p.hc) EXCEPT !.drops = 0]
    BY <1>4 DEF Passed
  <2>. HIDE DEF c
  <2>. QED  BY <1>1, <2>1, <2>2, FsdAssumption DEF Sound, IsEntry, Peers
<1>5. CASE ~p.bi
  <2>1. Passed(e, n, p) = c
    BY <1>5 DEF Passed
  <2>. QED  BY <1>1, <1>2, <1>3, <2>1
<1>. QED  BY <1>4, <1>5

\* NOTIFY, SYNC and RESET; a RESET comes from a server that has a route.
LEMMA TabledGood ==
    ASSUME NEW t, NEW s \in Servers, NEW open, NEW n \in Peers, NEW p,
           Good(t, s, open), <<s, n>> \in open,
           p.cmd = "RESET" => p.from \in DOMAIN t /\ t[p.from].path # NoServer
    PROVE  /\ Good(Tabled(s, n, p, t), s, open)
           /\ DOMAIN t \subseteq DOMAIN Tabled(s, n, p, t)
<1>1. CASE p.cmd = "NOTIFY"
  <2>. DEFINE o == p.data.server
              e == IF o \in DOMAIN t THEN t[o] ELSE Fresh
              f == IF p.data.feed \/ (e.hops > NoHops /\ p.hc >= e.hops) THEN e
                   ELSE SetPath(e, n, p.hc)
  <2>1. Tabled(s, n, p, t) = IF o = s THEN t ELSE With(t, o, f)
    BY <1>1 DEF Tabled, Notified
  <2>2. CASE o = s
    BY <2>1, <2>2
  <2>3. CASE o # s
    <3>1. Sound(e, s, o, open)
      BY DEF Good, Fresh, Sound, IsEntry
    <3>2. Sound(f, s, o, open)
      <4>1. CASE f = e
        BY <3>1, <4>1
      <4>2. CASE f = SetPath(e, n, p.hc)
        <5>1. IsEntry(e)
          BY <3>1 DEF Sound
        <5>. HIDE DEF e, o
        <5>. QED  BY <5>1, <4>2, <2>3, SetPathSound
      <4>. QED  BY <4>1, <4>2
    <3>3. ASSUME NEW x, NEW y, Sound(y, s, x, open)
          PROVE  Good(With(t, x, y), s, open) /\ DOMAIN With(t, x, y) = DOMAIN t \cup {x}
      BY <3>3 DEF Good, With
    <3>4. Good(With(t, o, f), s, open) /\ DOMAIN With(t, o, f) = DOMAIN t \cup {o}
      <4>. HIDE DEF f, o
      <4>. QED  BY <3>2, <3>3
    <3>. QED  BY <3>4, <2>1, <2>3
  <2>. QED  BY <2>2, <2>3
<1>2. CASE p.cmd = "RESET"
  <2>. DEFINE u == Tabled(s, n, p, t)
  <2>1. u = [t EXCEPT ![p.from].pcount = 0]
    BY <1>2 DEF Tabled
  <2>2. /\ DOMAIN u = DOMAIN t
        /\ u = [o \in DOMAIN u |-> u[o]]
        /\ \A o \in DOMAIN t : o # p.from => u[o] = t[o]
        /\ u[p.from] = [t[p.from] EXCEPT !.pcount = 0]
    BY <1>2, <2>1 DEF Good
  <2>3. Sound(u[p.from], s, p.from, open)
    BY <1>2, <2>2 DEF Good, Sound, IsEntry
  <2>. QED  BY <2>2, <2>3 DEF Good
<1>3. CASE p.cmd \notin {"NOTIFY", "RESET"}
  BY <1>3 DEF Tabled
<1>. QED  BY <1>1, <1>2, <1>3

\* Routes that are cleared are sound.
LEMMA ClearedGood ==
    ASSUME NEW t, NEW s, NEW open, NEW gone, Good(t, s, open)
    PROVE  LET u == [o \in DOMAIN t |-> IF o \in gone THEN Unrouted(t[o]) ELSE t[o]]
           IN  Good(u, s, open) /\ DOMAIN u = DOMAIN t
<1>1. ASSUME NEW e, IsEntry(e)
      PROVE  Unrouted(e) =
                 [path |-> NoServer, hops |-> NoHops, pcount |-> -1, drops |-> e.drops]
  <2>1. Unrouted(e) =
            [[path |-> e.path, hops |-> e.hops, pcount |-> e.pcount, drops |-> e.drops]
                EXCEPT !.path = NoServer, !.hops = NoHops, !.pcount = -1]
    BY <1>1 DEF Unrouted, SetPath, IsEntry
  <2>. QED  BY <2>1
<1>2. ASSUME NEW o \in DOMAIN t
      PROVE  Sound(Unrouted(t[o]), s, o, open)
  <2>1. IsEntry(t[o])
    BY DEF Good, Sound
  <2>. QED  BY <2>1, <1>1 DEF Sound, IsEntry
<1>. QED  BY <1>2 DEF Good

LEMMA DownedGood ==
    ASSUME NEW t, NEW s, NEW open, NEW n, NEW p, Good(t, s, open)
    PROVE  Good(Downed(n, p, t), s, open) /\ DOMAIN Downed(n, p, t) = DOMAIN t
<1>. DEFINE gone == {o \in DOMAIN t : o \in p.data.servers /\ t[o].path = n}
<1>1. Downed(n, p, t) = [o \in DOMAIN t |-> IF o \in gone THEN Unrouted(t[o]) ELSE t[o]]
  BY DEF Downed
<1>. HIDE DEF gone
<1>. QED  BY <1>1, ClearedGood
-----------------------------------------------------------------------------
(***************************************************************************)
(* Receiving.                                                              *)
(***************************************************************************)
\* A register that was housed by a table is by a table with more servers.
LEMMA MoreServers ==
    ASSUME NEW r, NEW t, NEW u, Housed(r, t), DOMAIN t \subseteq DOMAIN u
    PROVE  Housed(r, u)
BY DEF Housed

\* s writes u into its table and leaves the register and the connections alone.
LEMMA TableStep ==
    ASSUME PointersInv, NEW s \in Servers, NEW u, Update(s, u), Good(u, s, links'),
           DOMAIN table[s] \subseteq DOMAIN u, UNCHANGED clients,
           \A l \in links : l[1] # s => l \in links'
    PROVE  PointersInv'
<1>1. table'[s] = u /\ table' = [table EXCEPT ![s] = table'[s]]
  BY DEF Update, PointersInv
<1>2. clients' = [clients EXCEPT ![s] = clients'[s]]
  BY DEF PointersInv
<1>3. Housed(clients'[s], u)
  BY MoreServers DEF PointersInv
<1>. QED  BY <1>1, <1>2, <1>3, LocalStep DEF AtServer

\* A client is added where a server is known, or removed.
LEMMA ClientStep ==
    ASSUME PointersInv, NEW s \in Servers, NEW u, NEW c, NEW o, Update(s, u),
           Good(u, s, links), DOMAIN table[s] \subseteq DOMAIN u, UNCHANGED links,
           clients' = [clients EXCEPT ![s][c] = o], o # NoServer => o \in DOMAIN u
    PROVE  PointersInv'
<1>1. table'[s] = u /\ table' = [table EXCEPT ![s] = table'[s]]
  BY DEF Update, PointersInv
<1>2. /\ clients' = [clients EXCEPT ![s] = clients'[s]]
      /\ clients'[s] = [clients[s] EXCEPT ![c] = o]
  BY DEF PointersInv
<1>3. clients[s] = [d \in Callsigns |-> clients[s][d]]
  BY DEF PointersInv, Housed
<1>4. Housed(clients[s], u)
  BY MoreServers DEF PointersInv
<1>5. /\ clients'[s] = [d \in Callsigns |-> clients'[s][d]]
      /\ \A d \in Callsigns : clients'[s][d] \in {clients[s][d], o}
  BY <1>2, <1>3
<1>6. Housed(clients'[s], u)
  BY <1>4, <1>5 DEF Housed
<1>. QED  BY <1>1, <1>2, <1>6, LocalStep DEF AtServer

LEMMA RunCmdStep ==
    ASSUME PointersInv, NEW s \in Servers, NEW n \in Peers, NEW p, NEW t,
           <<s, n>> \in links, UNCHANGED links, Good(t, s, links),
           DOMAIN table[s] \subseteq DOMAIN t, RunCmd(s, n, p, t),
           p.cmd = "RESET" => p.from \in DOMAIN t /\ t[p.from].path # NoServer
    PROVE  PointersInv'
<1>1. CASE Update(s, t) /\ UNCHANGED clients
  BY <1>1, TableStep
<1>2. CASE ExecTable(s, n, p, t)
  <2>1. /\ Update(s, Tabled(s, n, p, t))
        /\ UNCHANGED clients
    BY <1>2 DEF ExecTable
  <2>2. Good(Tabled(s, n, p, t), s, links) /\ DOMAIN t \subseteq DOMAIN Tabled(s, n, p, t)
    BY TabledGood
  <2>. QED  BY <2>1, <2>2, TableStep
<1>3. CASE ExecLinkdown(s, n, p, t)
  <2>1. Update(s, Downed(n, p, t)) /\ UNCHANGED clients
    BY <1>3 DEF ExecLinkdown
  <2>2. Good(Downed(n, p, t), s, links) /\ DOMAIN Downed(n, p, t) = DOMAIN t
    BY DownedGood
  <2>. QED  BY <2>1, <2>2, TableStep
<1>4. CASE ExecAddClient(s, n, p, t)
  <2>1. Update(s, t)
    BY <1>4 DEF ExecAddClient
  <2>2. CASE UNCHANGED clients
    BY <2>1, <2>2, TableStep
  <2>3. CASE /\ p.data.location \in DOMAIN t
             /\ clients' = [clients EXCEPT ![s][p.data.callsign] = p.data.location]
    BY <2>1, <2>3, ClientStep
  <2>. QED  BY <1>4, <2>2, <2>3 DEF ExecAddClient
<1>5. CASE ExecRmClient(s, n, p, t)
  <2>. DEFINE o == IF clients[s][p.data.callsign] = s THEN s ELSE NoServer
              c == p.data.callsign
  <2>1. Update(s, t) /\ s \in DOMAIN t
    BY <1>5 DEF ExecRmClient, Good
  <2>2. clients' = [clients EXCEPT ![s][c] = IF @ = s THEN @ ELSE NoServer]
    BY <1>5 DEF ExecRmClient
  <2>3. clients' = [clients EXCEPT ![s][c] = o]
    BY <2>2
  <2>4. o # NoServer => o \in DOMAIN t
    BY <2>1
  <2>. HIDE DEF o, c
  <2>. QED  BY <2>1, <2>3, <2>4, ClientStep
<1>6. CASE ExecMulticast(s, n, p, t)
  BY <1>6, <1>1 DEF ExecMulticast
<1>. QED  BY <1>1, <1>2, <1>3, <1>4, <1>5, <1>6 DEF RunCmd

LEMMA ReceiveStep ==
    ASSUME PointersInv, NEW s \in Servers, NEW n \in Peers, Receive(s, n)
    PROVE  PointersInv'
<1>. DEFINE p == Head(wire[<<n, s>>])
            t == table[s]
            e == Rerouted(t[p.from], n, p)
<1>1. /\ <<s, n>> \in links
      /\ UNCHANGED links
      /\ Discard(s, n, p) \/ FromStranger(s, n, p) \/ FromKnown(s, n, p)
  BY DEF Receive
<1>2. Good(t, s, links)
  BY DEF PointersInv
<1>3. CASE UNCHANGED <<table, clients>>
  BY <1>1, <1>3 DEF PointersInv
<1>4. CASE Discard(s, n, p)
  BY <1>3, <1>4 DEF Discard
<1>5. CASE FromStranger(s, n, p)
  <2>1. CASE p.cmd = "NOTIFY" /\ RunCmd(s, n, p, t)
    <3>. HIDE DEF p, t
    <3>1. DOMAIN table[s] \subseteq DOMAIN t
      BY DEF t
    <3>. QED  BY <2>1, <1>1, <1>2, <3>1, RunCmdStep
  <2>. QED  BY <2>1, <1>3, <1>5 DEF FromStranger
<1>6. CASE FromKnown(s, n, p)
  <2>1. p.from \in DOMAIN t \ {s}
    BY <1>6 DEF FromKnown
  <2>2. Sound(t[p.from], s, p.from, links)
    BY <1>2, <2>1 DEF Good
  <2>3. Sound(e, s, p.from, links) /\ e.path # NoServer
    <3>. HIDE DEF p, t
    <3>. QED  BY <1>1, <2>1, <2>2, ReroutedSound DEF e
  <2>4. /\ Sound(DropCounted(e), s, p.from, links)
        /\ Sound(Passed(e, n, p), s, p.from, links)
        /\ Passed(e, n, p).path # NoServer
    <3>. HIDE DEF p, t, e
    <3>. QED  BY <1>1, <2>1, <2>3, CountedSound
  <2>5. ASSUME NEW x, Sound(x, s, p.from, links)
        PROVE  /\ Good(With(t, p.from, x), s, links)
               /\ DOMAIN With(t, p.from, x) = DOMAIN t
               /\ With(t, p.from, x)[p.from] = x
    <3>. HIDE DEF p, t
    <3>. QED  BY <1>2, <2>1, <2>5 DEF Good, With
  <2>6. CASE /\ Update(s, With(t, p.from, DropCounted(e)))
             /\ UNCHANGED clients
    <3>. DEFINE u == With(t, p.from, DropCounted(e))
    <3>1. Good(u, s, links) /\ DOMAIN u = DOMAIN table[s]
      BY <2>4, <2>5
    <3>. HIDE DEF u, p, t, e
    <3>2. Update(s, u)
      BY <2>6 DEF u
    <3>. QED  BY <3>1, <3>2, <2>6, <1>1, TableStep
  <2>7. CASE RunCmd(s, n, p, With(t, p.from, Passed(e, n, p)))
    <3>. DEFINE u == With(t, p.from, Passed(e, n, p))
    <3>1. /\ Good(u, s, links)
          /\ DOMAIN u = DOMAIN table[s]
          /\ p.from \in DOMAIN u
          /\ u[p.from].path # NoServer
      BY <2>1, <2>4, <2>5
    <3>2. RunCmd(s, n, p, u)
      BY <2>7
    <3>. HIDE DEF u, p, t, e
    <3>. QED  BY <3>1, <3>2, <1>1, RunCmdStep
  <2>. QED  BY <1>6, <2>6, <2>7 DEF FromKnown
<1>. QED  BY <1>1, <1>4, <1>5, <1>6
-----------------------------------------------------------------------------
(***************************************************************************)
(* Connections and timeouts.                                               *)
(***************************************************************************)
LEMMA NewUserStep ==
    ASSUME PointersInv, NEW s \in Servers, NEW n \in Peers, UNCHANGED table,
           NewUser(s, n, links, wire)
    PROVE  PointersInv'
<1>1. links \subseteq links' /\ UNCHANGED <<table, clients>>
  BY DEF NewUser
<1>2. \A o \in Servers : Good(table[o], o, links')
  BY <1>1, MoreLinks DEF PointersInv
<1>. QED  BY <1>1, <1>2 DEF PointersInv

\* What led over the old end leads over it under its new name.
LEMMA ReconnectStep ==
    ASSUME PointersInv, NEW s \in Servers, NEW n \in Servers, NEW g \in Stubs,
           Reconnect(s, n, g)
    PROVE  PointersInv'
<1>. DEFINE u == [o \in DOMAIN table[n] |->
                     IF table[n][o].path = s THEN [table[n][o] EXCEPT !.path = g]
                     ELSE table[n][o]]
<1>1. /\ links' = {Renamed(n, s, g, l) : l \in links} \cup {<<s, n>>}
      /\ Update(n, u)
      /\ UNCHANGED clients
  BY DEF Reconnect, NewUser, Update
<1>2. s # NoServer /\ g # NoServer
  BY FsdAssumption
<1>3. /\ \A x : <<n, x>> \in links /\ x # s => <<n, x>> \in links'
      /\ <<n, s>> \in links => <<n, g>> \in links'
      /\ \A l \in links : l[1] # n => l \in links'
  <2>1. \A l \in links : Renamed(n, s, g, l) \in links'
    BY <1>1
  <2>2. \A x : x # s => Renamed(n, s, g, <<n, x>>) = <<n, x>>
    BY DEF Renamed
  <2>3. Renamed(n, s, g, <<n, s>>) = <<n, g>>
    BY DEF Renamed
  <2>4. \A l : l[1] # n => Renamed(n, s, g, l) = l
    BY DEF Renamed
  <2>. QED  BY <2>1, <2>2, <2>3, <2>4
<1>4. Good(table[n], n, links)
  BY DEF PointersInv
<1>5. ASSUME NEW o \in DOMAIN table[n]
      PROVE  Sound(u[o], n, o, links')
  <2>1. Sound(table[n][o], n, o, links)
    BY <1>4 DEF Good
  <2>2. CASE table[n][o].path = s
    <3>1. <<n, s>> \in links /\ o # n /\ IsEntry(table[n][o])
      BY <1>2, <2>1, <2>2 DEF Sound
    <3>2. u[o] = [path |-> g, hops |-> table[n][o].hops,
                  pcount |-> table[n][o].pcount, drops |-> table[n][o].drops]
      BY <2>2, <3>1 DEF IsEntry
    <3>. QED  BY <1>2, <1>3, <3>1, <3>2 DEF Sound, IsEntry
  <2>3. CASE table[n][o].path # s
    <3>1. u[o] = table[n][o]
      BY <2>3
    <3>. QED  BY <1>3, <2>1, <2>3, <3>1 DEF Sound
  <2>. QED  BY <2>2, <2>3
<1>6. Good(u, n, links')
  BY <1>4, <1>5 DEF Good
<1>7. DOMAIN u = DOMAIN table[n]
  OBVIOUS
<1>. HIDE DEF u
<1>. QED  BY <1>1, <1>3, <1>6, <1>7, TableStep

\* What led over the connection that is removed has its route cleared.
LEMMA RemoveUserStep ==
    ASSUME PointersInv, NEW s \in Servers, NEW n \in Peers, RemoveUser(s, n)
    PROVE  PointersInv'
<1>. DEFINE gone == {o \in DOMAIN table[s] : table[s][o].path = n}
            u == [o \in DOMAIN table[s] |->
                     IF o \in gone THEN Unrouted(table[s][o]) ELSE table[s][o]]
<1>1. /\ links' = links \ {<<s, n>>}
      /\ Update(s, u)
      /\ UNCHANGED clients
  BY DEF RemoveUser, Update
<1>2. Good(u, s, links) /\ DOMAIN u = DOMAIN table[s]
  <2>1. Good(table[s], s, links)
    BY DEF PointersInv
  <2>. HIDE DEF gone
  <2>. QED  BY <2>1, ClearedGood
<1>3. \A o \in DOMAIN u : u[o].path # n
  <2>1. n # NoServer
    BY FsdAssumption DEF Peers
  <2>2. \A o \in DOMAIN table[s] : Unrouted(table[s][o]).path = NoServer
    <3>1. ASSUME NEW e, IsEntry(e)
          PROVE  Unrouted(e).path = NoServer
      BY <3>1 DEF Unrouted, SetPath, IsEntry
    <3>2. \A o \in DOMAIN table[s] : IsEntry(table[s][o])
      BY DEF PointersInv, Good, Sound
    <3>. QED  BY <3>1, <3>2
  <2>. QED  BY <2>1, <2>2
<1>4. Good(u, s, links')
  <2>. HIDE DEF u
  <2>. QED  BY <1>1, <1>2, <1>3 DEF Good, Sound
<1>5. \A l \in links : l[1] # s => l \in links'
  BY <1>1
<1>. HIDE DEF u
<1>. QED  BY <1>1, <1>2, <1>4, <1>5, TableStep

LEMMA CrashStep ==
    ASSUME PointersInv, NEW s \in Servers, Crash(s)
    PROVE  PointersInv'
<1>. DEFINE t == [o \in {s} |-> Fresh]
            r == [c \in Callsigns |-> NoServer]
<1>1. table'[s] = t /\ clients'[s] = r /\ AtServer(s)
  BY DEF Crash, PointersInv, AtServer
<1>2. Good(t, s, links')
  BY DEF Good, Sound, IsEntry, Fresh
<1>3. Housed(r, t)
  BY DEF Housed
<1>. QED  BY <1>1, <1>2, <1>3, LocalStep

LEMMA ServerTimeoutStep ==
    ASSUME PointersInv, NEW s \in Servers, NEW o \in Servers, ServerTimeout(s, o)
    PROVE  PointersInv'
<1>. DEFINE t == [x \in DOMAIN table[s] \ {o} |-> table[s][x]]
            r == [c \in Callsigns |-> IF clients[s][c] = o THEN NoServer ELSE clients[s][c]]
<1>1. table'[s] = t /\ clients'[s] = r /\ AtServer(s) /\ o # s /\ links' = links
  BY DEF ServerTimeout, PointersInv, AtServer
<1>2. Good(table[s], s, links) /\ Housed(clients[s], table[s])
  BY DEF PointersInv
<1>3. Good(t, s, links') /\ Housed(r, t)
  BY <1>1, <1>2 DEF Good, Housed
<1>. QED  BY <1>1, <1>3, LocalStep

\* A client of s, or one that s forgets.
LEMMA RegisterStep ==
    ASSUME PointersInv, NEW s \in Servers, NEW c \in Callsigns, NEW o \in {s, NoServer},
           clients' = [clients EXCEPT ![s][c] = o], UNCHANGED <<table, links>>
    PROVE  PointersInv'
<1>1. Good(table[s], s, links) /\ s \in DOMAIN table[s]
  BY DEF PointersInv, Good
<1>2. Update(s, table[s])
  BY DEF PointersInv, Update
<1>. QED  BY <1>1, <1>2, ClientStep

LEMMA PointersStep ==
    ASSUME PointersInv, [Next]_netVars
    PROVE  PointersInv'
<1>1. CASE UNCHANGED <<table, clients, links>>
  BY <1>1 DEF PointersInv
<1>2. ASSUME NEW s \in Servers, Sync(s) \/ Notify(s) \/ Crash(s) \/ Start(s)
      PROVE  PointersInv'
  BY <1>1, <1>2, CrashStep DEF Sync, Notify, Start
<1>3. ASSUME NEW s \in Servers, NEW c \in Callsigns,
             Login(s, c) \/ Logout(s, c) \/ ClientTimeout(s, c)
      PROVE  PointersInv'
  BY <1>3, RegisterStep DEF Login, Logout, ClientTimeout
<1>4. ASSUME NEW s \in Servers, NEW m \in Messages, Say(s, m)
      PROVE  PointersInv'
  BY <1>1, <1>4 DEF Say
<1>5. ASSUME NEW s \in Servers, NEW o \in Servers, Connect(s, o) \/ ServerTimeout(s, o)
      PROVE  PointersInv'
  BY <1>5, NewUserStep, ServerTimeoutStep DEF Connect, Peers
<1>6. ASSUME NEW s \in Servers, NEW o \in Servers, NEW g \in Stubs, Reconnect(s, o, g)
      PROVE  PointersInv'
  BY <1>6, ReconnectStep
<1>7. ASSUME NEW s \in Servers, NEW n \in Peers, Accept(s, n)
      PROVE  PointersInv'
  BY <1>7, NewUserStep DEF Accept
<1>8. ASSUME NEW s \in Servers, NEW n \in Peers, Fail(s, n) \/ Close(s, n)
      PROVE  PointersInv'
  BY <1>8, RemoveUserStep DEF Fail, Close
<1>9. ASSUME NEW s \in Servers, NEW n \in Peers, Receive(s, n)
      PROVE  PointersInv'
  BY <1>9, ReceiveStep
<1>. QED  BY <1>1, <1>2, <1>3, <1>4, <1>5, <1>6, <1>7, <1>8, <1>9 DEF Next, netVars
-----------------------------------------------------------------------------
LEMMA PointersInit == Init => PointersInv
BY DEF Init, PointersInv, Good, Sound, IsEntry, Housed, Fresh

(***************************************************************************)
(* The pointers of all servers are good, in any network, whatever fails,   *)
(* restarts or times out and in whatever order packets come.               *)
(***************************************************************************)
THEOREM PointersCorrect == Spec => []PointersInv
<1>. QED  BY PointersInit, PointersStep, PTL DEF Spec

(***************************************************************************)
(* server::path never dangles: a route leads over a connection that is     *)
(* open.                                                                   *)
(***************************************************************************)
THEOREM RoutesCorrect == Spec => []RoutesAreLinks
<1>1. PointersInv => RoutesAreLinks
  BY DEF PointersInv, Good, Sound, RoutesAreLinks
<1>. QED  BY <1>1, PointersCorrect, PTL

(***************************************************************************)
(* client::location never dangles: a client is at a server that is known.  *)
(***************************************************************************)
THEOREM ClientsHousedCorrect == Spec => []ClientsHaveServers
<1>1. PointersInv => ClientsHaveServers
  BY DEF PointersInv, Housed, ClientsHaveServers
<1>. QED  BY <1>1, PointersCorrect, PTL
-----------------------------------------------------------------------------
(***************************************************************************)
(* Types.  What the servers write is put together from pieces, so the      *)
(* proof first needs that a sequence of sequences joins to a sequence:     *)
(* induction over its length.                                              *)
(***************************************************************************)
\* Every set of numbers that is not empty has a least one.
LEMMA Least ==
    ASSUME NEW T \in SUBSET Nat, T # {}
    PROVE  \E m \in T : \A k \in T : m <= k
<1>. DEFINE R == {ss \in Nat \X Nat : ss[1] < ss[2]}
<1>1. IsWellFoundedOn(R, Nat)
  BY NatLessThanWellFounded DEF OpToRel
<1>2. \A x, y \in Nat : y < x => <<y, x>> \in R
  OBVIOUS
<1>. HIDE DEF R
<1>3. PICK m \in T : \A k \in T : ~(<<k, m>> \in R)
  BY <1>1, WFMin
<1>4. ASSUME NEW k \in T
      PROVE  m <= k
  <2>1. m \in Nat /\ k \in Nat
    OBVIOUS
  <2>2. ~(k < m)
    BY <2>1, <1>2, <1>3
  <2>. QED  BY <2>1, <2>2
<1>. QED  BY <1>4

\* What holds of 0 and of the next number holds of all.
LEMMA Induction ==
    ASSUME NEW T \in SUBSET Nat, 0 \in T, \A k \in T : k + 1 \in T
    PROVE  T = Nat
<1>. SUFFICES ASSUME Nat \ T # {}
              PROVE  FALSE
  OBVIOUS
<1>1. PICK m \in Nat \ T : \A k \in Nat \ T : m <= k
  BY Least
<1>2. m # 0 /\ m - 1 \in Nat
  OBVIOUS
<1>3. m - 1 \in T
  BY <1>1, <1>2
<1>4. (m - 1) + 1 = m
  OBVIOUS
<1>. QED  BY <1>3, <1>4

\* g[i] is the concatenation of the first i of the sequences of q, up to k.
Joins(g, q, k) == g = [i \in 1..k |-> IF i = 1 THEN q[i] ELSE g[i - 1] \o q[i]]

\* FlattenSeq is defined by recursion: such a g exists.
LEMMA FlatJoins ==
    ASSUME NEW S, NEW q \in Seq(S), Len(q) # 0
    PROVE  \E g : Joins(g, q, Len(q)) /\ FlattenSeq(q) = g[Len(q)]
<1>. DEFINE T == {k \in Nat : k <= Len(q) => \E g : Joins(g, q, k)}
<1>1. Len(q) \in Nat
  OBVIOUS
<1>2. 0 \in T
  <2>1. Joins([i \in 1..0 |-> q[i]], q, 0)
    BY DEF Joins
  <2>. QED  BY <2>1
<1>3. ASSUME NEW k \in T
      PROVE  k + 1 \in T
  <2>. SUFFICES ASSUME k + 1 <= Len(q)
                PROVE  \E g : Joins(g, q, k + 1)
    OBVIOUS
  <2>1. PICK g : Joins(g, q, k)
    BY <1>1
  <2>. DEFINE h == [i \in 1..(k + 1) |-> IF i = k + 1
                                         THEN IF i = 1 THEN q[i] ELSE g[k] \o q[i]
                                         ELSE g[i]]
  <2>2. ASSUME NEW i \in 1..(k + 1)
        PROVE  h[i] = IF i = 1 THEN q[i] ELSE h[i - 1] \o q[i]
    <3>1. CASE i = k + 1 /\ i = 1
      BY <3>1
    <3>2. CASE i = k + 1 /\ i # 1
      <4>1. i - 1 = k /\ k \in 1..(k + 1) /\ k # k + 1
        BY <3>2
      <4>. QED  BY <3>2, <4>1
    <3>3. CASE i # k + 1
      <4>1. i \in 1..k
        BY <3>3
      <4>2. g[i] = IF i = 1 THEN q[i] ELSE g[i - 1] \o q[i]
        BY <2>1, <4>1 DEF Joins
      <4>3. i # 1 => i - 1 \in 1..(k + 1) /\ i - 1 # k + 1
        BY <4>1
      <4>. QED  BY <3>3, <4>2, <4>3
    <3>. QED  BY <3>1, <3>2, <3>3
  <2>3. Joins(h, q, k + 1)
    <3>1. h = [i \in 1..(k + 1) |-> h[i]]
      OBVIOUS
    <3>. HIDE DEF h
    <3>. QED  BY <2>2, <3>1 DEF Joins
  <2>. HIDE DEF h
  <2>. QED  BY <2>3
<1>4. T = Nat
  <2>. HIDE DEF T
  <2>1. T \in SUBSET Nat
    BY DEF T
  <2>. QED  BY <1>2, <1>3, <2>1, Induction
<1>. DEFINE f == CHOOSE g : Joins(g, q, Len(q))
<1>5. Joins(f, q, Len(q))
  <2>1. Len(q) \in T
    BY <1>1, <1>4
  <2>. QED  BY <2>1
<1>6. FlattenSeq(q) = f[Len(q)]
  BY DEF FlattenSeq, Joins
<1>. QED  BY <1>5, <1>6

LEMMA Flat ==
    ASSUME NEW S, NEW q \in Seq(Seq(S))
    PROVE  FlattenSeq(q) \in Seq(S)
<1>1. Len(q) \in Nat /\ \A i \in 1..Len(q) : q[i] \in Seq(S)
  OBVIOUS
<1>2. CASE Len(q) = 0
  BY <1>2 DEF FlattenSeq
<1>3. CASE Len(q) # 0
  <2>1. PICK f : Joins(f, q, Len(q)) /\ FlattenSeq(q) = f[Len(q)]
    BY <1>3, FlatJoins
  <2>. DEFINE U == {k \in Nat : k + 1 <= Len(q) => f[k + 1] \in Seq(S)}
  <2>2. \A i \in 1..Len(q) : f[i] = IF i = 1 THEN q[i] ELSE f[i - 1] \o q[i]
    BY <2>1 DEF Joins
  <2>3. 0 \in U
    BY <1>1, <2>2
  <2>4. ASSUME NEW k \in U
        PROVE  k + 1 \in U
    <3>. SUFFICES ASSUME (k + 1) + 1 <= Len(q)
                  PROVE  f[(k + 1) + 1] \in Seq(S)
      OBVIOUS
    <3>1. k \in Nat /\ k + 1 <= Len(q) /\ ((k + 1) + 1) - 1 = k + 1
          /\ (k + 1) + 1 \in 1..Len(q) /\ (k + 1) + 1 # 1
      BY <1>1
    <3>2. f[k + 1] \in Seq(S)
      BY <3>1
    <3>3. f[(k + 1) + 1] = f[k + 1] \o q[(k + 1) + 1]
      BY <2>2, <3>1
    <3>4. q[(k + 1) + 1] \in Seq(S)
      BY <1>1, <3>1
    <3>. QED  BY <3>2, <3>3, <3>4
  <2>5. Len(q) - 1 \in U
    <3>1. U = Nat
      <4>. HIDE DEF U
      <4>1. U \in SUBSET Nat
        BY DEF U
      <4>. QED  BY <2>3, <2>4, <4>1, Induction
    <3>2. Len(q) - 1 \in Nat
      BY <1>1, <1>3
    <3>. HIDE DEF U
    <3>. QED  BY <3>1, <3>2
  <2>6. (Len(q) - 1) + 1 = Len(q)
    BY <1>1
  <2>. QED  BY <2>1, <2>5, <2>6
<1>. QED  BY <1>2, <1>3

\* One sequence, or two.
LEMMA FlatShort ==
    /\ \A a : FlattenSeq(<<a>>) = a
    /\ \A a, b : FlattenSeq(<<a, b>>) = a \o b
<1>1. ASSUME NEW a
      PROVE  FlattenSeq(<<a>>) = a
  <2>1. PICK q : q = <<a>>
    OBVIOUS
  <2>2. q \in Seq({a}) /\ Len(q) = 1 /\ q[1] = a
    BY <2>1
  <2>3. PICK f : Joins(f, q, 1) /\ FlattenSeq(q) = f[1]
    <3>1. Len(q) # 0
      BY <2>2
    <3>2. \E f : Joins(f, q, Len(q)) /\ FlattenSeq(q) = f[Len(q)]
      BY <2>2, <3>1, FlatJoins
    <3>. QED  BY <2>2, <3>2
  <2>4. f[1] = q[1]
    BY <2>3 DEF Joins
  <2>. QED  BY <2>1, <2>2, <2>3, <2>4
<1>2. ASSUME NEW a, NEW b
      PROVE  FlattenSeq(<<a, b>>) = a \o b
  <2>1. PICK q : q = <<a, b>>
    OBVIOUS
  <2>2. q \in Seq({a, b}) /\ Len(q) = 2 /\ q[1] = a /\ q[2] = b
    BY <2>1
  <2>3. PICK f : Joins(f, q, 2) /\ FlattenSeq(q) = f[2]
    <3>1. Len(q) # 0
      BY <2>2
    <3>2. \E f : Joins(f, q, Len(q)) /\ FlattenSeq(q) = f[Len(q)]
      BY <2>2, <3>1, FlatJoins
    <3>. QED  BY <2>2, <3>2
  <2>4. \A i \in 1..2 : f[i] = IF i = 1 THEN q[i] ELSE f[i - 1] \o q[i]
    BY <2>3 DEF Joins
  <2>5. f[1] = q[1]
    <3>1. 1 \in 1..2
      OBVIOUS
    <3>. QED  BY <2>4, <3>1
  <2>6. f[2] = f[1] \o q[2]
    <3>1. 2 \in 1..2 /\ 2 # 1 /\ 2 - 1 = 1
      OBVIOUS
    <3>. QED  BY <2>4, <3>1
  <2>. QED  BY <2>1, <2>2, <2>3, <2>5, <2>6
<1>. QED  BY <1>1, <1>2

\* The members of a finite set as a sequence.
LEMMA SetToSeqType ==
    ASSUME NEW S, IsFiniteSet(S)
    PROVE  SetToSeq(S) \in Seq(S)
<1>1. Cardinality(S) \in Nat /\ ExistsBijection(1..Cardinality(S), S)
  BY FS_CardinalityType
<1>2. \E f \in [1..Cardinality(S) -> S] : IsInjective(f)
  BY <1>1 DEF ExistsBijection, Bijection, Injection, IsInjective
<1>3. SetToSeq(S) \in [1..Cardinality(S) -> S]
  BY <1>2 DEF SetToSeq
<1>. QED  BY <1>1, <1>3
-----------------------------------------------------------------------------
(***************************************************************************)
(* Packets.                                                                *)
(***************************************************************************)
\* What a server sends: a packet, or an order for one, and the neighbours.
Sends == [packet : Packets, over : SUBSET Peers]

Orders ==
    UNION {[cmd : {x}, to : Callsigns \cup {Everyone}, bi : BOOLEAN,
            data : Payload[x], over : SUBSET Peers] : x \in DOMAIN Payload}

\* Those that carry no message of a user.
Errands == {x \in Orders : x.cmd # "MC"}

QuietSends == {x \in Sends : x.packet.cmd # "MC"}

\* An order is written into a packet.
LEMMA AssembleType ==
    ASSUME NEW s \in Servers, NEW x \in Orders, NEW k \in 0..(MaxCount + 1)
    PROVE  /\ Assemble(s, x, k) \in Packets
           /\ x.over \in SUBSET Peers
<1>1. PICK y \in DOMAIN Payload :
          x \in [cmd : {y}, to : Callsigns \cup {Everyone}, bi : BOOLEAN,
                 data : Payload[y], over : SUBSET Peers]
  BY DEF Orders
<1>2. 1 \in 1..(MaxHops + 1)
  BY FsdAssumption
<1>3. Assemble(s, x, k) \in
          [cmd : {y}, to : Callsigns \cup {Everyone}, from : Servers,
           pc : 0..(MaxCount + 1), hc : 1..(MaxHops + 1), bi : BOOLEAN,
           data : Payload[y]]
  BY <1>1, <1>2 DEF Assemble
<1>. QED  BY <1>1, <1>3 DEF Packets

\* The fields of a packet.
LEMMA PacketFields ==
    ASSUME NEW p \in Packets
    PROVE  /\ p.cmd \in DOMAIN Payload /\ p.data \in Payload[p.cmd]
           /\ p.to \in Callsigns \cup {Everyone} /\ p.from \in Servers
           /\ p.pc \in 0..(MaxCount + 1) /\ p.hc \in 1..(MaxHops + 1)
           /\ p.bi \in BOOLEAN
BY DEF Packets

\* A packet that goes on is one hop further.
LEMMA RelayedType ==
    ASSUME NEW p \in Packets, p.hc <= MaxHops, NEW bi \in BOOLEAN
    PROVE  [p EXCEPT !.hc = @ + 1, !.bi = bi] \in Packets
<1>1. PICK y \in DOMAIN Payload :
          p \in [cmd : {y}, to : Callsigns \cup {Everyone}, from : Servers,
                 pc : 0..(MaxCount + 1), hc : 1..(MaxHops + 1), bi : BOOLEAN,
                 data : Payload[y]]
  BY DEF Packets
<1>2. p.hc + 1 \in 1..(MaxHops + 1)
  BY <1>1, FsdAssumption
<1>3. [p EXCEPT !.hc = @ + 1, !.bi = bi] \in
          [cmd : {y}, to : Callsigns \cup {Everyone}, from : Servers,
           pc : 0..(MaxCount + 1), hc : 1..(MaxHops + 1), bi : BOOLEAN,
           data : Payload[y]]
  BY <1>1, <1>2
<1>. QED  BY <1>3 DEF Packets

\* The orders the servers give.
LEMMA OrdersGiven ==
    ASSUME NEW over \in SUBSET Peers
    PROVE  /\ SyncTo(over) \in Errands
           /\ \A o \in Servers : \A f \in BOOLEAN : NotifyTo(o, f, over) \in Errands
           /\ \A gone \in SUBSET Servers : LinkdownTo(gone, over) \in Errands
           /\ \A c \in Callsigns : \A o \in Servers : \A b \in BOOLEAN :
                 AddClientTo(c, o, b, over) \in Errands
           /\ \A c \in Callsigns :
                 Order("RMCLIENT", Everyone, TRUE, [callsign |-> c], over) \in Errands
           /\ \A m \in Messages : \A to \in Callsigns \cup {Everyone} : \A b \in BOOLEAN :
                 Order("MC", to, b, [message |-> m], over) \in Orders
           /\ Order("RESET", Everyone, TRUE, Nothing, over) \in Errands
<1>1. ASSUME NEW x \in DOMAIN Payload, NEW to \in Callsigns \cup {Everyone},
             NEW b \in BOOLEAN, NEW d \in Payload[x]
      PROVE  /\ Order(x, to, b, d, over) \in Orders
             /\ x # "MC" => Order(x, to, b, d, over) \in Errands
  <2>1. Order(x, to, b, d, over) \in
            [cmd : {x}, to : Callsigns \cup {Everyone}, bi : BOOLEAN,
             data : Payload[x], over : SUBSET Peers]
    BY DEF Order
  <2>2. Order(x, to, b, d, over) \in Orders
    BY <2>1 DEF Orders
  <2>. QED  BY <2>1, <2>2 DEF Errands
<1>2. /\ DOMAIN Payload = {"SYNC", "RESET", "NOTIFY", "LINKDOWN", "ADDCLIENT", "RMCLIENT", "MC"}
      /\ Payload["SYNC"] = {Nothing} /\ Payload["RESET"] = {Nothing}
      /\ Payload["NOTIFY"] = [server : Servers, feed : BOOLEAN]
      /\ Payload["LINKDOWN"] = [servers : SUBSET Servers]
      /\ Payload["ADDCLIENT"] = [callsign : Callsigns, location : Servers]
      /\ Payload["RMCLIENT"] = [callsign : Callsigns]
      /\ Payload["MC"] = [message : Messages]
  BY DEF Payload
<1>3. SyncTo(over) \in Errands /\ Order("RESET", Everyone, TRUE, Nothing, over) \in Errands
  BY <1>1, <1>2 DEF SyncTo
<1>4. ASSUME NEW o \in Servers, NEW f \in BOOLEAN
      PROVE  NotifyTo(o, f, over) \in Errands
  BY <1>1, <1>2 DEF NotifyTo
<1>5. ASSUME NEW gone \in SUBSET Servers
      PROVE  LinkdownTo(gone, over) \in Errands
  BY <1>1, <1>2 DEF LinkdownTo
<1>6. ASSUME NEW c \in Callsigns, NEW o \in Servers, NEW b \in BOOLEAN
      PROVE  AddClientTo(c, o, b, over) \in Errands
  BY <1>1, <1>2 DEF AddClientTo
<1>7. ASSUME NEW c \in Callsigns
      PROVE  Order("RMCLIENT", Everyone, TRUE, [callsign |-> c], over) \in Errands
  BY <1>1, <1>2
<1>8. ASSUME NEW m \in Messages, NEW to \in Callsigns \cup {Everyone}, NEW b \in BOOLEAN
      PROVE  Order("MC", to, b, [message |-> m], over) \in Orders
  BY <1>1, <1>2
<1>. QED  BY <1>3, <1>4, <1>5, <1>6, <1>7, <1>8

\* The packets that s sends itself, the RESET packets between them included.
LEMMA OwnMade ==
    ASSUME NEW s \in Servers, count \in [Servers -> 0..MaxCount],
           NEW P, NEW R, NEW orders \in Seq(P), NEW users \in SUBSET Peers,
           \A x \in P : \A k \in 0..(MaxCount + 1) :
               [packet |-> Assemble(s, x, k), over |-> x.over] \in R,
           Order("RESET", Everyone, TRUE, Nothing, users) \in P
    PROVE  Own(s, orders, users) \in Seq(R)
<1>. DEFINE send(i) == [packet |-> Assemble(s, orders[i], CountOf(s, i)),
                        over |-> orders[i].over]
            groups == [i \in DOMAIN orders |->
                          IF CountOf(s, i) = MaxCount
                          THEN <<send(i), SendReset(s, MaxCount + 1, users)>>
                          ELSE <<send(i)>>]
<1>1. DOMAIN orders = 1..Len(orders) /\ Len(orders) \in Nat
      /\ \A i \in DOMAIN orders : orders[i] \in P
  OBVIOUS
<1>2. MaxCount \in Nat
  BY FsdAssumption
<1>3. SendReset(s, MaxCount + 1, users) \in R
  <2>1. MaxCount + 1 \in 0..(MaxCount + 1)
    BY <1>2
  <2>2. Order("RESET", Everyone, TRUE, Nothing, users).over = users
    BY DEF Order
  <2>. QED  BY <2>1, <2>2 DEF SendReset
<1>4. ASSUME NEW i \in DOMAIN orders
      PROVE  groups[i] \in Seq(R)
  <2>1. CountOf(s, i) \in 0..(MaxCount + 1)
    <3>1. count[s] + i - 1 \in Int /\ MaxCount + 1 \in Int /\ MaxCount + 1 > 0
      BY <1>1, <1>2
    <3>2. \A a \in Int : \A b \in Int : b > 0 => a % b \in 0..(b - 1)
      OBVIOUS
    <3>3. CountOf(s, i) \in 0..((MaxCount + 1) - 1)
      BY <3>1, <3>2 DEF CountOf
    <3>. QED  BY <3>3, <1>2
  <2>2. send(i) \in R
    <3>1. orders[i] \in P
      BY <1>1
    <3>. QED  BY <2>1, <3>1
  <2>3. groups[i] \in {<<send(i), SendReset(s, MaxCount + 1, users)>>, <<send(i)>>}
    OBVIOUS
  <2>. HIDE DEF send, groups
  <2>4. <<send(i), SendReset(s, MaxCount + 1, users)>> \in Seq(R) /\ <<send(i)>> \in Seq(R)
    BY <1>3, <2>2
  <2>. QED  BY <2>3, <2>4
<1>5. Own(s, orders, users) = FlattenSeq(groups)
  BY DEF Own
<1>6. groups \in Seq(Seq(R))
  <2>1. groups = [i \in 1..Len(orders) |-> groups[i]]
    BY <1>1
  <2>. HIDE DEF groups
  <2>. QED  BY <2>1, <1>1, <1>4
<1>. HIDE DEF groups
<1>. QED  BY <1>5, <1>6, Flat

LEMMA OwnType ==
    ASSUME NEW s \in Servers, count \in [Servers -> 0..MaxCount],
           NEW users \in SUBSET Peers
    PROVE  /\ \A orders \in Seq(Orders) : Own(s, orders, users) \in Seq(Sends)
           /\ \A orders \in Seq(Errands) : Own(s, orders, users) \in Seq(QuietSends)
<1>1. ASSUME NEW x \in Orders, NEW k \in 0..(MaxCount + 1)
      PROVE  /\ [packet |-> Assemble(s, x, k), over |-> x.over] \in Sends
             /\ Assemble(s, x, k).cmd = x.cmd
  BY AssembleType DEF Sends, Assemble
<1>2. ASSUME NEW x \in Errands, NEW k \in 0..(MaxCount + 1)
      PROVE  [packet |-> Assemble(s, x, k), over |-> x.over] \in QuietSends
  BY <1>1 DEF Errands, QuietSends
<1>3. Order("RESET", Everyone, TRUE, Nothing, users) \in Errands
  BY OrdersGiven
<1>4. Order("RESET", Everyone, TRUE, Nothing, users) \in Orders
  BY <1>3 DEF Errands
<1>5. \A orders \in Seq(Orders) : Own(s, orders, users) \in Seq(Sends)
  BY <1>1, <1>4, OwnMade
<1>6. \A orders \in Seq(Errands) : Own(s, orders, users) \in Seq(QuietSends)
  BY <1>2, <1>3, OwnMade
<1>. QED  BY <1>5, <1>6

\* Errands are orders, and what is sent on them is sent.
LEMMA ErrandsOrders ==
    /\ Seq(Errands) \subseteq Seq(Orders)
    /\ Seq(QuietSends) \subseteq Seq(Sends)
<1>1. Errands \subseteq Orders /\ QuietSends \subseteq Sends
  BY DEF Errands, QuietSends
<1>. QED  BY <1>1

LEMMA OverType ==
    ASSUME NEW sends \in Seq(Sends), NEW n
    PROVE  Over(sends, n) \in Seq(Packets)
<1>. DEFINE groups == [i \in DOMAIN sends |->
                          IF n \in sends[i].over THEN <<sends[i].packet>> ELSE <<>>]
<1>1. DOMAIN sends = 1..Len(sends) /\ Len(sends) \in Nat
      /\ \A i \in DOMAIN sends : sends[i] \in Sends
  OBVIOUS
<1>2. ASSUME NEW i \in DOMAIN sends
      PROVE  groups[i] \in Seq(Packets)
  <2>1. sends[i].packet \in Packets
    BY <1>1 DEF Sends
  <2>2. <<sends[i].packet>> \in Seq(Packets) /\ <<>> \in Seq(Packets)
    BY <2>1
  <2>. QED  BY <2>2
<1>3. groups \in Seq(Seq(Packets))
  <2>1. groups = [i \in 1..Len(sends) |-> groups[i]]
    BY <1>1
  <2>. HIDE DEF groups
  <2>. QED  BY <2>1, <1>1, <1>2
<1>4. Over(sends, n) = FlattenSeq(groups)
  BY DEF Over
<1>. HIDE DEF groups
<1>. QED  BY <1>3, <1>4, Flat

Wires == [Channels -> Seq(Packets)]

\* Writing packets leaves packets under way.
LEMMA TransmitType ==
    ASSUME NEW s \in Servers, NEW sends \in Seq(Sends), NEW wires \in Wires,
           Transmit(s, sends, wires)
    PROVE  wire' \in Wires
<1>1. ASSUME NEW l \in Channels
      PROVE  (IF l[1] = s /\ <<l[2], s>> \in links' \cup knocks'
              THEN wires[l] \o Over(sends, l[2]) ELSE wires[l]) \in Seq(Packets)
  <2>1. Over(sends, l[2]) \in Seq(Packets) /\ wires[l] \in Seq(Packets)
    BY OverType DEF Wires
  <2>. QED  BY <2>1
<1>. QED  BY <1>1 DEF Transmit, Wires

\* A packet that is read is gone.
LEMMA TakenType ==
    ASSUME NEW s \in Servers, NEW n \in Peers, wire \in Wires, wire[<<n, s>>] # <<>>
    PROVE  Taken(n, s) \in Wires /\ Head(wire[<<n, s>>]) \in Packets
<1>1. <<n, s>> \in Channels /\ wire[<<n, s>>] \in Seq(Packets)
  BY DEF Wires, Channels
<1>2. Tail(wire[<<n, s>>]) \in Seq(Packets) /\ Head(wire[<<n, s>>]) \in Packets
  BY <1>1
<1>. QED  BY <1>1, <1>2 DEF Taken, Wires
-----------------------------------------------------------------------------
(***************************************************************************)
(* Tables.                                                                 *)
(***************************************************************************)
\* A table of s whose entries have their types.
Typed(t, s) ==
    /\ t = [o \in DOMAIN t |-> t[o]]
    /\ s \in DOMAIN t
    /\ DOMAIN t \subseteq Servers
    /\ \A o \in DOMAIN t : t[o] \in Entries

LEMMA EntryTypes ==
    /\ Fresh \in Entries
    /\ \A e \in Entries : \A n \in Peers \cup {NoServer} : \A h \in NoHops..MaxHops :
          SetPath(e, n, h) \in Entries
    /\ \A e \in Entries : Unrouted(e) \in Entries
    /\ \A e \in Entries : DropCounted(e) \in Entries
<1>. USE FsdAssumption
<1>1. Fresh \in Entries
  BY DEF Fresh, Entries, NoHops
<1>2. ASSUME NEW e \in Entries, NEW n \in Peers \cup {NoServer}, NEW h \in NoHops..MaxHops
      PROVE  SetPath(e, n, h) \in Entries
  <2>1. -1 \in -1..(MaxCount + 1)
    OBVIOUS
  <2>. QED  BY <2>1 DEF SetPath, Entries
<1>3. NoHops \in NoHops..MaxHops
  BY DEF NoHops
<1>4. \A e \in Entries : Unrouted(e) \in Entries
  BY <1>2, <1>3 DEF Unrouted
<1>5. ASSUME NEW e \in Entries
      PROVE  DropCounted(e) \in Entries
  <2>1. e.drops \in 0..DropLimit
    BY DEF Entries
  <2>2. e.drops < DropLimit => e.drops + 1 \in 0..DropLimit
    BY <2>1
  <2>. QED  BY <2>1, <2>2 DEF DropCounted, Entries
<1>. QED  BY <1>1, <1>2, <1>4, <1>5

\* What the filter makes of an entry.
LEMMA FilterTypes ==
    ASSUME NEW e \in Entries, NEW n \in Peers, NEW p \in Packets, p.hc <= MaxHops
    PROVE  Rerouted(e, n, p) \in Entries /\ Passed(e, n, p) \in Entries
<1>1. p.hc \in NoHops..MaxHops /\ p.pc \in -1..(MaxCount + 1)
  <2>1. p.hc \in 1..(MaxHops + 1) /\ p.pc \in 0..(MaxCount + 1)
    BY PacketFields
  <2>. QED  BY <2>1, FsdAssumption DEF NoHops
<1>2. Rerouted(e, n, p) \in Entries
  BY <1>1, EntryTypes DEF Rerouted
<1>. DEFINE k == IF e.drops >= DropLimit \/ p.pc > e.pcount THEN p.pc ELSE e.pcount
            c == [e EXCEPT !.pcount = k]
<1>3. c \in Entries
  <2>1. k \in -1..(MaxCount + 1)
    BY <1>1 DEF Entries
  <2>. HIDE DEF k
  <2>. QED  BY <2>1 DEF Entries
<1>4. Passed(e, n, p) = IF p.bi THEN [SetPath(c, n, p.hc) EXCEPT !.drops = 0] ELSE c
  BY DEF Passed
<1>. HIDE DEF c
<1>5. SetPath(c, n, p.hc) \in Entries
  BY <1>1, <1>3, EntryTypes
<1>6. [SetPath(c, n, p.hc) EXCEPT !.drops = 0] \in Entries
  <2>1. 0 \in 0..DropLimit
    BY FsdAssumption
  <2>. QED  BY <1>5, <2>1 DEF Entries
<1>. QED  BY <1>2, <1>3, <1>4, <1>6

\* One entry is written.
LEMMA WithTyped ==
    ASSUME NEW t, NEW s, Typed(t, s), NEW o \in Servers, NEW e \in Entries
    PROVE  Typed(With(t, o, e), s)
BY DEF Typed, With

\* Routes are cleared.
LEMMA ClearedTyped ==
    ASSUME NEW t, NEW s, NEW gone, Typed(t, s)
    PROVE  Typed([o \in DOMAIN t |-> IF o \in gone THEN Unrouted(t[o]) ELSE t[o]], s)
BY EntryTypes DEF Typed

\* NOTIFY, SYNC and RESET.
LEMMA TabledTyped ==
    ASSUME NEW t, NEW s \in Servers, NEW n \in Peers, NEW p \in Packets,
           Typed(t, s), p.hc <= MaxHops, p.cmd = "RESET" => p.from \in DOMAIN t
    PROVE  Typed(Tabled(s, n, p, t), s)
<1>1. CASE p.cmd = "NOTIFY"
  <2>. DEFINE o == p.data.server
              e == IF o \in DOMAIN t THEN t[o] ELSE Fresh
              f == IF p.data.feed \/ (e.hops > NoHops /\ p.hc >= e.hops) THEN e
                   ELSE SetPath(e, n, p.hc)
  <2>1. Tabled(s, n, p, t) = IF o = s THEN t ELSE With(t, o, f)
    BY <1>1 DEF Tabled, Notified
  <2>2. o \in Servers
    <3>1. p.data \in Payload["NOTIFY"]
      BY <1>1, PacketFields
    <3>2. Payload["NOTIFY"] = [server : Servers, feed : BOOLEAN]
      BY DEF Payload
    <3>. QED  BY <3>1, <3>2
  <2>3. e \in Entries
    BY EntryTypes DEF Typed
  <2>4. p.hc \in NoHops..MaxHops
    <3>1. p.hc \in 1..(MaxHops + 1)
      BY PacketFields
    <3>. QED  BY <3>1, FsdAssumption DEF NoHops
  <2>. HIDE DEF e, o
  <2>5. f \in Entries
    BY <2>3, <2>4, EntryTypes
  <2>. HIDE DEF f
  <2>. QED  BY <2>1, <2>2, <2>5, WithTyped
<1>2. CASE p.cmd = "RESET"
  <2>. DEFINE u == Tabled(s, n, p, t)
  <2>1. u = [t EXCEPT ![p.from].pcount = 0]
    BY <1>2 DEF Tabled
  <2>2. /\ DOMAIN u = DOMAIN t
        /\ u = [o \in DOMAIN u |-> u[o]]
        /\ \A o \in DOMAIN t : o # p.from => u[o] = t[o]
        /\ u[p.from] = [t[p.from] EXCEPT !.pcount = 0]
    BY <1>2, <2>1 DEF Typed
  <2>3. u[p.from] \in Entries
    <3>1. t[p.from] \in Entries
      BY <1>2 DEF Typed
    <3>2. 0 \in -1..(MaxCount + 1)
      BY FsdAssumption
    <3>. QED  BY <2>2, <3>1, <3>2 DEF Entries
  <2>. QED  BY <2>2, <2>3 DEF Typed
<1>3. CASE p.cmd \notin {"NOTIFY", "RESET"}
  BY <1>3 DEF Tabled
<1>. QED  BY <1>1, <1>2, <1>3
-----------------------------------------------------------------------------
(***************************************************************************)
(* The variables.                                                          *)
(***************************************************************************)
Registers == [Servers -> [Callsigns -> Servers \cup {NoServer}]]

Ears == [Servers -> [Messages -> 0..2]]

\* Who has connected to a server is configured to, or is gone.
Dialled == \A l \in knocks : l[2] \in Stubs \/ <<l[2], l[1]>> \in Topology

TypesInv ==
    /\ started \subseteq Servers
    /\ Dialled
    /\ table = [s \in Servers |-> table[s]]
    /\ \A s \in Servers : Typed(table[s], s)
    /\ count \in [Servers -> 0..MaxCount]
    /\ clients \in Registers
    /\ links \subseteq Servers \X Peers
    /\ knocks \subseteq (Servers \X Peers) \ links
    /\ wire \in Wires
    /\ said \in [Messages -> Servers \cup {NoServer}]
    /\ heard \in Ears

LEMMA TypesInit == Init => TypesInv
<1>. SUFFICES ASSUME Init PROVE TypesInv
  OBVIOUS
<1>1. \A s \in Servers : Typed(table[s], s)
  BY EntryTypes DEF Init, Typed
<1>2. 0 \in 0..MaxCount
  BY FsdAssumption
<1>3. wire \in Wires
  <2>1. <<>> \in Seq(Packets)
    OBVIOUS
  <2>. QED  BY <2>1 DEF Init, Wires
<1>4. clients \in Registers /\ heard \in Ears
  BY DEF Init, Registers, Ears
<1>5. count \in [Servers -> 0..MaxCount] /\ said \in [Messages -> Servers \cup {NoServer}]
  BY <1>2 DEF Init
<1>6. /\ table = [s \in Servers |-> table[s]]
      /\ links \subseteq Servers \X Peers
      /\ knocks \subseteq (Servers \X Peers) \ links
      /\ started \subseteq Servers /\ Dialled
  BY DEF Init, Dialled
<1>. QED  BY <1>1, <1>3, <1>4, <1>5, <1>6 DEF TypesInv

\* Counting packets keeps the count in its range.
LEMMA CountedType ==
    ASSUME count \in [Servers -> 0..MaxCount], NEW s \in Servers,
           NEW orders \in Seq(Orders), Counted(s, orders)
    PROVE  count' \in [Servers -> 0..MaxCount]
<1>1. MaxCount \in Nat /\ Len(orders) \in Nat
  BY FsdAssumption
<1>2. count[s] + Len(orders) \in Int /\ MaxCount + 1 \in Int /\ MaxCount + 1 > 0
  BY <1>1
<1>3. \A a \in Int : \A b \in Int : b > 0 => a % b \in 0..(b - 1)
  OBVIOUS
<1>4. (count[s] + Len(orders)) % (MaxCount + 1) \in 0..((MaxCount + 1) - 1)
  BY <1>2, <1>3
<1>5. (MaxCount + 1) - 1 = MaxCount
  BY <1>1
<1>. QED  BY <1>4, <1>5 DEF Counted

\* One packet that s sends to all it is connected to, or towards a client.
LEMMA AnnounceType ==
    ASSUME TypesInv, NEW s \in Servers, NEW order \in Orders, Announce(s, order)
    PROVE  wire' \in Wires /\ count' \in [Servers -> 0..MaxCount]
<1>1. <<order>> \in Seq(Orders) /\ Neighbours(s) \in SUBSET Peers
  BY DEF Neighbours
<1>2. Own(s, <<order>>, Neighbours(s)) \in Seq(Sends)
  BY <1>1, OwnType DEF TypesInv
<1>3. wire \in Wires
  BY DEF TypesInv
<1>4. Transmit(s, Own(s, <<order>>, Neighbours(s)), wire) /\ Counted(s, <<order>>)
  BY DEF Announce
<1>5. wire' \in Wires
  BY <1>2, <1>3, <1>4, TransmitType
<1>. QED  BY <1>1, <1>4, <1>5, CountedType DEF TypesInv

\* A client is somewhere else, or nowhere.
LEMMA RegisterType ==
    ASSUME clients \in Registers, NEW s, NEW c, NEW o \in Servers \cup {NoServer},
           clients' = [clients EXCEPT ![s][c] = o]
    PROVE  clients' \in Registers
BY DEF Registers

\* Where s writes what is for a client.
LEMMA RouteType ==
    ASSUME TypesInv, PointersInv, NEW s \in Servers, NEW c \in Callsigns,
           NEW bi \in BOOLEAN, NEW except
    PROVE  /\ Route(s, c, bi, except).bi \in BOOLEAN
           /\ Route(s, c, bi, except).over \in SUBSET Peers
<1>. DEFINE o == clients[s][c]
            n == table[s][o].path
<1>1. CASE o \in {NoServer, s}
  BY <1>1 DEF Route
<1>2. CASE o \notin {NoServer, s}
  <2>1. o \in DOMAIN table[s]
    BY <1>2 DEF PointersInv, Housed
  <2>2. n \in Peers \cup {NoServer}
    BY <2>1 DEF TypesInv, Typed, Entries
  <2>3. Route(s, c, bi, except) =
            IF n # NoServer THEN [bi |-> bi, over |-> {n}]
            ELSE [bi |-> TRUE, over |-> Neighbours(s) \ except]
    BY <1>2 DEF Route
  <2>4. Neighbours(s) \ except \in SUBSET Peers
    BY DEF Neighbours
  <2>. HIDE DEF n
  <2>5. CASE n # NoServer
    BY <2>2, <2>3, <2>5
  <2>6. CASE n = NoServer
    BY <2>3, <2>4, <2>6
  <2>. QED  BY <2>5, <2>6
<1>. QED  BY <1>1, <1>2

\* What s has received goes on.
LEMMA RelayType ==
    ASSUME TypesInv, PointersInv, NEW s \in Servers, NEW n \in Peers,
           NEW p \in Packets, p.hc <= MaxHops
    PROVE  Relay(s, n, p) \in Seq(Sends)
<1>. DEFINE way == IF p.to = Everyone THEN [bi |-> TRUE, over |-> Neighbours(s) \ {n}]
                   ELSE Route(s, p.to, p.bi, {n})
<1>1. way.bi \in BOOLEAN /\ way.over \in SUBSET Peers
  <2>1. CASE p.to = Everyone
    BY <2>1 DEF Neighbours
  <2>2. CASE p.to # Everyone
    <3>1. p.to \in Callsigns /\ p.bi \in BOOLEAN
      BY <2>2, PacketFields
    <3>2. way = Route(s, p.to, p.bi, {n})
      BY <2>2
    <3>. HIDE DEF way
    <3>. QED  BY <3>1, <3>2, RouteType
  <2>. QED  BY <2>1, <2>2
<1>. HIDE DEF way
<1>2. [p EXCEPT !.hc = @ + 1, !.bi = way.bi] \in Packets
  BY <1>1, RelayedType
<1>3. [packet |-> [p EXCEPT !.hc = @ + 1, !.bi = way.bi], over |-> way.over] \in Sends
  BY <1>1, <1>2 DEF Sends
<1>4. Relay(s, n, p) =
          <<[packet |-> [p EXCEPT !.hc = @ + 1, !.bi = way.bi], over |-> way.over]>>
  BY DEF Relay, way
<1>. QED  BY <1>3, <1>4

LEMMA ForwardType ==
    ASSUME TypesInv, PointersInv, NEW s \in Servers, NEW n \in Peers,
           NEW p \in Packets, p.hc <= MaxHops, wire[<<n, s>>] # <<>>, Forward(s, n, p)
    PROVE  wire' \in Wires /\ count' \in [Servers -> 0..MaxCount]
<1>1. Taken(n, s) \in Wires
  BY TakenType DEF TypesInv
<1>2. Relay(s, n, p) \in Seq(Sends)
  BY RelayType
<1>3. Transmit(s, Relay(s, n, p), Taken(n, s)) /\ UNCHANGED count
  BY DEF Forward
<1>4. wire' \in Wires
  BY <1>1, <1>2, <1>3, TransmitType
<1>. QED  BY <1>3, <1>4 DEF TypesInv

LEMMA ConsumeType ==
    ASSUME TypesInv, NEW s \in Servers, NEW n \in Peers, wire[<<n, s>>] # <<>>,
           Consume(s, n)
    PROVE  wire' \in Wires /\ count' \in [Servers -> 0..MaxCount]
BY TakenType DEF TypesInv, Consume

\* s writes u into its table.
LEMMA UpdateType ==
    ASSUME TypesInv, NEW s \in Servers, NEW u, Typed(u, s), Update(s, u)
    PROVE  /\ table' = [o \in Servers |-> table'[o]]
           /\ \A o \in Servers : Typed(table'[o], o)
<1>1. /\ table' = [o \in Servers |-> table'[o]]
      /\ table'[s] = u
      /\ \A o \in Servers : o # s => table'[o] = table[o]
  BY DEF TypesInv, Update
<1>2. ASSUME NEW o \in Servers
      PROVE  Typed(table'[o], o)
  <2>1. CASE o = s
    BY <1>1, <2>1
  <2>2. CASE o # s
    BY <1>1, <2>2 DEF TypesInv
  <2>. QED  BY <2>1, <2>2
<1>. QED  BY <1>1, <1>2

\* The variables that a server that receives a packet may change.
Received ==
    /\ table' = [o \in Servers |-> table'[o]]
    /\ \A o \in Servers : Typed(table'[o], o)
    /\ count' \in [Servers -> 0..MaxCount]
    /\ clients' \in Registers
    /\ wire' \in Wires
    /\ heard' \in Ears

LEMMA RunCmdType ==
    ASSUME TypesInv, PointersInv, NEW s \in Servers, NEW n \in Peers,
           NEW p \in Packets, p.hc <= MaxHops, wire[<<n, s>>] # <<>>,
           NEW t, Typed(t, s), RunCmd(s, n, p, t), p.cmd = "RESET" => p.from \in DOMAIN t
    PROVE  Received
<1>1. clients \in Registers /\ heard \in Ears
  BY DEF TypesInv
<1>2. CASE /\ Update(s, t)
           /\ UNCHANGED <<clients, heard>>
           /\ Forward(s, n, p)
  <2>1. wire' \in Wires /\ count' \in [Servers -> 0..MaxCount]
    BY <1>2, ForwardType
  <2>. QED  BY <1>1, <1>2, <2>1, UpdateType DEF Received
<1>3. CASE ExecTable(s, n, p, t)
  <2>1. /\ Update(s, Tabled(s, n, p, t))
        /\ UNCHANGED <<clients, heard>>
        /\ Forward(s, n, p)
    BY <1>3 DEF ExecTable
  <2>2. wire' \in Wires /\ count' \in [Servers -> 0..MaxCount]
    BY <2>1, ForwardType
  <2>3. Typed(Tabled(s, n, p, t), s)
    BY TabledTyped
  <2>. QED  BY <1>1, <2>1, <2>2, <2>3, UpdateType DEF Received
<1>4. CASE ExecLinkdown(s, n, p, t)
  <2>. DEFINE sync == <<SyncTo(Neighbours(s))>>
  <2>1. /\ Update(s, Downed(n, p, t))
        /\ UNCHANGED <<clients, heard>>
        /\ Counted(s, sync)
        /\ Transmit(s, Own(s, sync, Neighbours(s)) \o Relay(s, n, p), Taken(n, s))
    BY <1>4 DEF ExecLinkdown
  <2>2. Neighbours(s) \in SUBSET Peers
    BY DEF Neighbours
  <2>3. sync \in Seq(Orders)
    <3>1. SyncTo(Neighbours(s)) \in Orders
      BY <2>2, OrdersGiven DEF Errands
    <3>. QED  BY <3>1
  <2>. HIDE DEF sync
  <2>4. Own(s, sync, Neighbours(s)) \in Seq(Sends) /\ Relay(s, n, p) \in Seq(Sends)
    BY <2>2, <2>3, OwnType, RelayType DEF TypesInv
  <2>5. Own(s, sync, Neighbours(s)) \o Relay(s, n, p) \in Seq(Sends)
    BY <2>4
  <2>6. Taken(n, s) \in Wires
    BY TakenType DEF TypesInv
  <2>7. wire' \in Wires
    BY <2>1, <2>5, <2>6, TransmitType
  <2>8. count' \in [Servers -> 0..MaxCount]
    BY <2>1, <2>3, CountedType DEF TypesInv
  <2>9. Typed(Downed(n, p, t), s)
    <3>. DEFINE gone == {o \in DOMAIN t : o \in p.data.servers /\ t[o].path = n}
    <3>1. Downed(n, p, t) =
              [o \in DOMAIN t |-> IF o \in gone THEN Unrouted(t[o]) ELSE t[o]]
      BY DEF Downed
    <3>. HIDE DEF gone
    <3>2. Typed([o \in DOMAIN t |-> IF o \in gone THEN Unrouted(t[o]) ELSE t[o]], s)
      BY ClearedTyped
    <3>. QED  BY <3>1, <3>2
  <2>. QED  BY <1>1, <2>1, <2>7, <2>8, <2>9, UpdateType DEF Received
<1>5. CASE ExecAddClient(s, n, p, t)
  <2>1. Update(s, t) /\ UNCHANGED heard
    BY <1>5 DEF ExecAddClient
  <2>2. Forward(s, n, p) \/ Consume(s, n)
    BY <1>5 DEF ExecAddClient
  <2>3. wire' \in Wires /\ count' \in [Servers -> 0..MaxCount]
    BY <2>2, ForwardType, ConsumeType
  <2>4. \/ UNCHANGED clients
        \/ /\ p.data.location \in DOMAIN t
           /\ clients' = [clients EXCEPT ![s][p.data.callsign] = p.data.location]
    BY <1>5 DEF ExecAddClient
  <2>5. clients' \in Registers
    <3>1. DOMAIN t \subseteq Servers
      BY DEF Typed
    <3>. QED  BY <1>1, <2>4, <3>1, RegisterType
  <2>. QED  BY <1>1, <2>1, <2>3, <2>5, UpdateType DEF Received
<1>6. CASE ExecRmClient(s, n, p, t)
  <2>. DEFINE o == IF clients[s][p.data.callsign] = s THEN s ELSE NoServer
              c == p.data.callsign
  <2>1. Update(s, t) /\ UNCHANGED heard /\ Forward(s, n, p)
    BY <1>6 DEF ExecRmClient
  <2>2. clients' = [clients EXCEPT ![s][c] = IF @ = s THEN @ ELSE NoServer]
    BY <1>6 DEF ExecRmClient
  <2>3. clients' = [clients EXCEPT ![s][c] = o]
    BY <2>2
  <2>4. o \in Servers \cup {NoServer}
    OBVIOUS
  <2>. HIDE DEF o, c
  <2>5. clients' \in Registers
    BY <1>1, <2>3, <2>4, RegisterType
  <2>6. wire' \in Wires /\ count' \in [Servers -> 0..MaxCount]
    BY <2>1, ForwardType
  <2>. QED  BY <1>1, <2>1, <2>5, <2>6, UpdateType DEF Received
<1>7. CASE ExecMulticast(s, n, p, t)
  <2>1. Update(s, t) /\ UNCHANGED clients /\ Forward(s, n, p)
    BY <1>7 DEF ExecMulticast
  <2>2. wire' \in Wires /\ count' \in [Servers -> 0..MaxCount]
    BY <2>1, ForwardType
  <2>3. heard' = [heard EXCEPT ![s][p.data.message] = IF @ < 2 THEN @ + 1 ELSE @]
    BY <1>7 DEF ExecMulticast
  <2>4. heard' \in Ears
    <3>1. \A k \in 0..2 : (IF k < 2 THEN k + 1 ELSE k) \in 0..2
      OBVIOUS
    <3>. QED  BY <1>1, <2>3, <3>1 DEF Ears
  <2>. QED  BY <1>1, <2>1, <2>2, <2>4, UpdateType DEF Received
<1>. QED  BY <1>2, <1>3, <1>4, <1>5, <1>6, <1>7 DEF RunCmd

LEMMA ReceiveTypes ==
    ASSUME TypesInv, PointersInv, NEW s \in Servers, NEW n \in Peers, Receive(s, n)
    PROVE  TypesInv'
<1>1. PICK p : p = Head(wire[<<n, s>>])
  OBVIOUS
<1>2. PICK t : t = table[s]
  OBVIOUS
<1>3. /\ wire[<<n, s>>] # <<>>
      /\ UNCHANGED <<started, links, knocks, said, left>>
      /\ Discard(s, n, p) \/ FromStranger(s, n, p) \/ FromKnown(s, n, p)
  BY <1>1 DEF Receive
<1>4. p \in Packets
  BY <1>1, <1>3, TakenType DEF TypesInv
<1>5. Typed(t, s)
  BY <1>2 DEF TypesInv
<1>6. CASE UNCHANGED <<table, clients, heard>> /\ Consume(s, n)
  BY <1>3, <1>6, ConsumeType DEF Received, TypesInv, Dialled
<1>7. CASE Discard(s, n, p)
  BY <1>6, <1>7 DEF Discard
<1>8. CASE Received
  BY <1>3, <1>8 DEF Received, TypesInv, Dialled
<1>9. CASE FromStranger(s, n, p)
  <2>1. CASE p.cmd = "NOTIFY" /\ RunCmd(s, n, p, t)
    <3>1. p.hc <= MaxHops
      BY <1>9 DEF FromStranger
    <3>. QED  BY <1>3, <1>4, <1>5, <1>8, <2>1, <3>1, RunCmdType
  <2>. QED  BY <1>2, <1>6, <1>9, <2>1 DEF FromStranger
<1>10. CASE FromKnown(s, n, p)
  <2>1. p.hc <= MaxHops /\ p.from \in DOMAIN t
    BY <1>2, <1>10 DEF FromKnown
  <2>2. PICK e : e = Rerouted(t[p.from], n, p)
    OBVIOUS
  <2>3. t[p.from] \in Entries /\ p.from \in Servers
    BY <1>5, <2>1 DEF Typed
  <2>4. e \in Entries
    BY <1>4, <2>1, <2>2, <2>3, FilterTypes
  <2>5. /\ Typed(With(t, p.from, DropCounted(e)), s)
        /\ Typed(With(t, p.from, Passed(e, n, p)), s)
    <3>1. DropCounted(e) \in Entries /\ Passed(e, n, p) \in Entries
      BY <1>4, <2>1, <2>4, FilterTypes, EntryTypes
    <3>. QED  BY <1>5, <2>3, <3>1, WithTyped
  <2>6. CASE /\ Update(s, With(t, p.from, DropCounted(e)))
             /\ UNCHANGED <<clients, heard>>
             /\ Consume(s, n)
    <3>1. wire' \in Wires /\ count' \in [Servers -> 0..MaxCount]
      BY <1>3, <2>6, ConsumeType
    <3>2. clients' \in Registers /\ heard' \in Ears
      BY <2>6 DEF TypesInv
    <3>. QED  BY <1>8, <2>5, <2>6, <3>1, <3>2, UpdateType DEF Received
  <2>7. CASE RunCmd(s, n, p, With(t, p.from, Passed(e, n, p)))
    <3>1. PICK u : u = With(t, p.from, Passed(e, n, p))
      OBVIOUS
    <3>2. p.from \in DOMAIN u
      BY <3>1 DEF With
    <3>3. Typed(u, s) /\ RunCmd(s, n, p, u)
      BY <2>5, <2>7, <3>1
    <3>. QED  BY <1>3, <1>4, <1>8, <2>1, <3>2, <3>3, RunCmdType
  <2>. QED  BY <1>2, <1>10, <2>2, <2>6, <2>7 DEF FromKnown
<1>. QED  BY <1>3, <1>7, <1>9, <1>10

\* A sequence that is made up item by item.
LEMMA ItemsType ==
    ASSUME NEW S, NEW k \in Nat, NEW f, f = [i \in 1..k |-> f[i]],
           \A i \in 1..k : f[i] \in S
    PROVE  f \in Seq(S)
OBVIOUS

\* The feed to a new neighbour.
LEMMA FeedType ==
    ASSUME TypesInv, NEW s \in Servers, NEW n \in Peers
    PROVE  Feed(s, n) \in Seq(Errands)
<1>1. PICK others : others = SetToSeq(DOMAIN table[s] \ {s})
  OBVIOUS
<1>2. PICK known : known = SetToSeq({c \in Callsigns : clients[s][c] # NoServer})
  OBVIOUS
<1>3. others \in Seq(Servers)
  <2>1. DOMAIN table[s] \ {s} \subseteq Servers
    BY DEF TypesInv, Typed
  <2>2. IsFiniteSet(DOMAIN table[s] \ {s})
    BY <2>1, FS_Subset, FsdAssumption
  <2>3. others \in Seq(DOMAIN table[s] \ {s})
    BY <1>1, <2>2, SetToSeqType
  <2>. QED  BY <2>1, <2>3
<1>4. known \in Seq({c \in Callsigns : clients[s][c] # NoServer})
  <2>1. {c \in Callsigns : clients[s][c] # NoServer} \subseteq Callsigns
    OBVIOUS
  <2>2. IsFiniteSet({c \in Callsigns : clients[s][c] # NoServer})
    BY <2>1, FS_Subset, FsdAssumption
  <2>. QED  BY <1>2, <2>2, SetToSeqType
<1>5. {n} \in SUBSET Peers
  OBVIOUS
<1>6. PICK f : f = [i \in DOMAIN others |-> NotifyTo(others[i], TRUE, {n})]
  OBVIOUS
<1>7. PICK o : o = NotifyTo(s, FALSE, {n})
  OBVIOUS
<1>8. PICK g : g = [i \in DOMAIN known |->
                       AddClientTo(known[i], clients[s][known[i]], FALSE, {n})]
  OBVIOUS
<1>9. f \in Seq(Errands)
  <2>1. \A i \in DOMAIN others : f[i] \in Errands
    <3>1. \A i \in DOMAIN others : others[i] \in Servers
      BY <1>3
    <3>. QED  BY <1>5, <1>6, <3>1, OrdersGiven
  <2>2. DOMAIN others = 1..Len(others) /\ Len(others) \in Nat
    BY <1>3
  <2>3. f = [i \in 1..Len(others) |-> f[i]]
    BY <1>6, <2>2
  <2>. QED  BY <2>1, <2>2, <2>3, ItemsType
<1>10. <<o>> \in Seq(Errands)
  <2>1. o \in Errands
    BY <1>5, <1>7, OrdersGiven
  <2>. QED  BY <2>1
<1>11. g \in Seq(Errands)
  <2>1. ASSUME NEW i \in DOMAIN known
        PROVE  g[i] \in Errands
    <3>1. known[i] \in Callsigns /\ clients[s][known[i]] # NoServer
      BY <1>4
    <3>2. clients[s][known[i]] \in Servers
      BY <3>1 DEF TypesInv, Registers
    <3>. QED  BY <1>5, <1>8, <3>1, <3>2, OrdersGiven
  <2>2. DOMAIN known = 1..Len(known) /\ Len(known) \in Nat
    BY <1>4
  <2>3. g = [i \in 1..Len(known) |-> g[i]]
    BY <1>8, <2>2
  <2>. QED  BY <2>1, <2>2, <2>3, ItemsType
<1>12. Feed(s, n) = f \o <<o>> \o g
  BY <1>1, <1>2, <1>6, <1>7, <1>8 DEF Feed
<1>. QED  BY <1>9, <1>10, <1>11, <1>12

LEMMA NewUserTypes ==
    ASSUME TypesInv, NEW s \in Servers, NEW n \in Peers,
           NEW before \in SUBSET (Servers \X Peers), NEW wires \in Wires,
           NewUser(s, n, before, wires), Dialled',
           knocks' \subseteq (Servers \X Peers) \ links',
           table' = [o \in Servers |-> table'[o]],
           \A o \in Servers : Typed(table'[o], o)
    PROVE  TypesInv'
<1>1. /\ links' = before \cup {<<s, n>>}
      /\ Counted(s, Feed(s, n))
      /\ UNCHANGED <<started, clients, said, heard>>
      /\ Transmit(s, Own(s, Feed(s, n), Neighbours(s)), wires)
  BY DEF NewUser
<1>2. Feed(s, n) \in Seq(Orders) /\ Neighbours(s) \in SUBSET Peers
  BY FeedType, ErrandsOrders DEF Neighbours
<1>3. Own(s, Feed(s, n), Neighbours(s)) \in Seq(Sends)
  BY <1>2, OwnType DEF TypesInv
<1>4. wire' \in Wires
  BY <1>1, <1>3, TransmitType
<1>5. count' \in [Servers -> 0..MaxCount]
  BY <1>1, <1>2, CountedType DEF TypesInv
<1>6. links' \subseteq Servers \X Peers
  BY <1>1
<1>. QED  BY <1>1, <1>4, <1>5, <1>6 DEF TypesInv

\* No server is configured to connect to itself, or to one that connects to it.
LEMMA OneWay ==
    ASSUME TypesInv, NEW s \in Servers, NEW n \in Servers, <<s, n>> \in Topology
    PROVE  s # n /\ <<s, n>> \notin knocks
<1>1. <<n, s>> \notin Topology
  BY FsdAssumption
<1>2. n \notin Stubs
  BY FsdAssumption
<1>. QED  BY <1>1, <1>2 DEF TypesInv, Dialled

LEMMA ConnectTypes ==
    ASSUME TypesInv, NEW s \in Servers, NEW n \in Servers, Connect(s, n)
    PROVE  TypesInv'
<1>1. /\ <<s, n>> \in Topology /\ <<n, s>> \notin links
      /\ knocks' = knocks \cup {<<n, s>>}
      /\ UNCHANGED table
      /\ NewUser(s, n, links, wire)
  BY DEF Connect
<1>2. s # n /\ <<s, n>> \notin knocks
  BY <1>1, OneWay
<1>3. links' = links \cup {<<s, n>>}
  BY <1>1 DEF NewUser
<1>4. n \in Peers /\ s \in Peers
  BY DEF Peers
<1>5. knocks' \subseteq (Servers \X Peers) \ links'
  BY <1>1, <1>2, <1>3, <1>4 DEF TypesInv
<1>6. Dialled'
  <2>1. \A l \in knocks : l[2] \in Stubs \/ <<l[2], l[1]>> \in Topology
    BY DEF TypesInv, Dialled
  <2>2. \A l \in {<<n, s>>} : <<l[2], l[1]>> \in Topology
    BY <1>1
  <2>. QED  BY <1>1, <2>1, <2>2 DEF Dialled
<1>7. links \in SUBSET (Servers \X Peers) /\ wire \in Wires
  BY DEF TypesInv
<1>8. table' = [o \in Servers |-> table'[o]] /\ \A o \in Servers : Typed(table'[o], o)
  BY <1>1 DEF TypesInv
<1>. QED  BY <1>1, <1>4, <1>5, <1>6, <1>7, <1>8, NewUserTypes

LEMMA ReconnectTypes ==
    ASSUME TypesInv, NEW s \in Servers, NEW n \in Servers, NEW g \in Stubs,
           Reconnect(s, n, g)
    PROVE  TypesInv'
<1>1. PICK u : u = [o \in DOMAIN table[n] |->
                       IF table[n][o].path = s THEN [table[n][o] EXCEPT !.path = g]
                       ELSE table[n][o]]
  OBVIOUS
<1>2. PICK before : before = {Renamed(n, s, g, l) : l \in links}
  OBVIOUS
<1>3. PICK wires : wires = [wire EXCEPT ![<<g, n>>] = wire[<<s, n>>], ![<<s, n>>] = <<>>]
  OBVIOUS
<1>4. /\ <<s, n>> \in Topology
      /\ <<n, s>> \in links \cup knocks /\ <<n, g>> \notin links \cup knocks
      /\ knocks' = {Renamed(n, s, g, l) : l \in knocks} \cup {<<n, s>>}
      /\ table' = [table EXCEPT ![n] = u]
      /\ NewUser(s, n, before, wires)
  BY <1>1, <1>2, <1>3 DEF Reconnect
<1>5. s # n /\ <<s, n>> \notin knocks
  BY <1>4, OneWay
<1>6. links' = before \cup {<<s, n>>}
  BY <1>4 DEF NewUser
<1>7. n \in Peers /\ s \in Peers /\ g \in Peers /\ g # s /\ g # n
  BY FsdAssumption DEF Peers
<1>8. before \in SUBSET (Servers \X Peers)
  BY <1>2, <1>7 DEF TypesInv, Renamed
<1>9. knocks' \subseteq (Servers \X Peers) \ links'
  <2>1. ASSUME NEW k \in knocks'
        PROVE  k \in Servers \X Peers /\ k \notin links'
    <3>1. CASE k = <<n, s>>
      <4>1. <<n, s>> # <<n, g>> /\ <<n, s>> # <<s, n>>
        BY <1>5, <1>7
      <4>2. \A l \in links : Renamed(n, s, g, l) # <<n, s>>
        BY <4>1 DEF Renamed
      <4>. QED  BY <1>2, <1>6, <1>7, <3>1, <4>1, <4>2
    <3>2. CASE k # <<n, s>>
      <4>1. PICK l \in knocks : k = Renamed(n, s, g, l)
        BY <1>4, <3>2
      <4>2. k \in Servers \X Peers
        BY <1>7, <4>1 DEF TypesInv, Renamed
      <4>3. k # <<s, n>>
        BY <1>5, <1>7, <4>1 DEF Renamed
      <4>4. ASSUME NEW e \in links, k = Renamed(n, s, g, e)
            PROVE  FALSE
        <5>1. l # e
          BY DEF TypesInv
        <5>. QED  BY <1>4, <4>1, <4>4, <5>1 DEF Renamed
      <4>. QED  BY <1>2, <1>6, <4>2, <4>3, <4>4
    <3>. QED  BY <3>1, <3>2
  <2>. QED  BY <2>1
<1>10. Dialled'
  <2>1. ASSUME NEW l \in knocks
        PROVE  LET k == Renamed(n, s, g, l)
               IN  k[2] \in Stubs \/ <<k[2], k[1]>> \in Topology
    BY DEF TypesInv, Dialled, Renamed
  <2>. QED  BY <1>4, <2>1 DEF Dialled
<1>11. wires \in Wires
  <2>1. <<>> \in Seq(Packets) /\ <<s, n>> \in Channels
    BY <1>7 DEF Channels
  <2>2. wire[<<s, n>>] \in Seq(Packets)
    BY <2>1 DEF TypesInv, Wires
  <2>. QED  BY <1>3, <2>1, <2>2 DEF TypesInv, Wires
<1>12. Typed(u, n)
  <2>1. Typed(table[n], n)
    BY DEF TypesInv
  <2>2. \A e \in Entries : [e EXCEPT !.path = g] \in Entries
    BY <1>7 DEF Entries
  <2>. QED  BY <1>1, <2>1, <2>2 DEF Typed
<1>13. table' = [o \in Servers |-> table'[o]] /\ \A o \in Servers : Typed(table'[o], o)
  <2>1. Update(n, u)
    BY <1>4 DEF Update
  <2>. QED  BY <1>12, <2>1, UpdateType
<1>. QED  BY <1>4, <1>7, <1>8, <1>9, <1>10, <1>11, <1>13, NewUserTypes

LEMMA AcceptTypes ==
    ASSUME TypesInv, NEW s \in Servers, NEW n \in Peers, Accept(s, n)
    PROVE  TypesInv'
<1>1. knocks' = knocks \ {<<s, n>>} /\ UNCHANGED table /\ NewUser(s, n, links, wire)
  BY DEF Accept
<1>2. links' = links \cup {<<s, n>>}
  BY <1>1 DEF NewUser
<1>3. knocks' \subseteq (Servers \X Peers) \ links' /\ Dialled'
  BY <1>1, <1>2 DEF TypesInv, Dialled
<1>4. links \in SUBSET (Servers \X Peers) /\ wire \in Wires
  BY DEF TypesInv
<1>5. table' = [o \in Servers |-> table'[o]] /\ \A o \in Servers : Typed(table'[o], o)
  BY <1>1 DEF TypesInv
<1>. QED  BY <1>1, <1>3, <1>4, <1>5, NewUserTypes

\* s counts from 0 again, and tells its neighbours.
LEMMA StartTypes ==
    ASSUME TypesInv, NEW s \in Servers, Start(s)
    PROVE  TypesInv'
<1>1. Neighbours(s) \in SUBSET Peers
  BY DEF Neighbours
<1>2. MaxCount \in Nat /\ count[s] \in 0..MaxCount
  BY FsdAssumption DEF TypesInv
<1>3. count[s] \in 0..(MaxCount + 1) /\ 0 \in 0..MaxCount
  BY <1>2
<1>4. SendReset(s, count[s], Neighbours(s)) \in Sends
  <2>1. PICK x : x = Order("RESET", Everyone, TRUE, Nothing, Neighbours(s))
    OBVIOUS
  <2>2. x \in Orders /\ x.over = Neighbours(s)
    BY <1>1, <2>1, OrdersGiven DEF Errands, Order
  <2>3. Assemble(s, x, count[s]) \in Packets
    BY <1>3, <2>2, AssembleType
  <2>. QED  BY <1>1, <2>1, <2>3 DEF SendReset, Sends
<1>5. <<SendReset(s, count[s], Neighbours(s))>> \in Seq(Sends)
  BY <1>4
<1>6. wire' \in Wires
  BY <1>5, TransmitType DEF Start, TypesInv
<1>7. count' \in [Servers -> 0..MaxCount]
  BY <1>3 DEF Start, TypesInv
<1>. QED  BY <1>6, <1>7 DEF Start, TypesInv, Dialled

LEMMA RemoveUserTypes ==
    ASSUME TypesInv, NEW s \in Servers, NEW n \in Peers, RemoveUser(s, n)
    PROVE  TypesInv'
<1>1. PICK gone : gone = {o \in DOMAIN table[s] : table[s][o].path = n}
  OBVIOUS
<1>2. PICK others : others = Neighbours(s) \ {n}
  OBVIOUS
<1>3. PICK orders : orders = (IF gone = {} THEN <<>> ELSE <<LinkdownTo(gone, others)>>)
                                 \o <<SyncTo(others)>>
  OBVIOUS
<1>4. PICK u : u = [o \in DOMAIN table[s] |->
                       IF o \in gone THEN Unrouted(table[s][o]) ELSE table[s][o]]
  OBVIOUS
<1>5. /\ links' = links \ {<<s, n>>}
      /\ table' = [table EXCEPT ![s] = u]
      /\ Counted(s, orders)
      /\ UNCHANGED <<started, clients, knocks, said, heard>>
      /\ Transmit(s, Own(s, orders, others), [wire EXCEPT ![<<n, s>>] = <<>>])
  BY <1>1, <1>2, <1>3, <1>4 DEF RemoveUser
<1>6. others \in SUBSET Peers /\ gone \in SUBSET Servers
  BY <1>1, <1>2 DEF Neighbours, TypesInv, Typed
<1>7. orders \in Seq(Orders)
  <2>1. LinkdownTo(gone, others) \in Orders /\ SyncTo(others) \in Orders
    BY <1>6, OrdersGiven DEF Errands
  <2>2. <<LinkdownTo(gone, others)>> \in Seq(Orders) /\ <<SyncTo(others)>> \in Seq(Orders)
        /\ <<>> \in Seq(Orders)
    BY <2>1
  <2>3. \A a, b \in Seq(Orders) : a \o b \in Seq(Orders)
    OBVIOUS
  <2>. QED  BY <1>3, <2>2, <2>3
<1>8. Own(s, orders, others) \in Seq(Sends)
  BY <1>6, <1>7, OwnType DEF TypesInv
<1>9. [wire EXCEPT ![<<n, s>>] = <<>>] \in Wires
  <2>1. <<>> \in Seq(Packets)
    OBVIOUS
  <2>. QED  BY <2>1 DEF TypesInv, Wires
<1>10. wire' \in Wires
  BY <1>5, <1>8, <1>9, TransmitType
<1>11. count' \in [Servers -> 0..MaxCount]
  BY <1>5, <1>7, CountedType DEF TypesInv
<1>12. /\ table' = [o \in Servers |-> table'[o]]
       /\ \A o \in Servers : Typed(table'[o], o)
  <2>1. Typed(u, s)
    <3>1. Typed(table[s], s)
      BY DEF TypesInv
    <3>. QED  BY <1>4, <3>1, ClearedTyped
  <2>. QED  BY <1>5, <2>1, UpdateType DEF Update
<1>13. links' \subseteq Servers \X Peers /\ knocks' \subseteq (Servers \X Peers) \ links'
  BY <1>5 DEF TypesInv
<1>. QED  BY <1>5, <1>10, <1>11, <1>12, <1>13 DEF TypesInv, Dialled

LEMMA CrashTypes ==
    ASSUME TypesInv, NEW s \in Servers, Crash(s)
    PROVE  TypesInv'
<1>1. PICK u : u = [o \in {s} |-> Fresh]
  OBVIOUS
<1>2. /\ table' = [o \in Servers |-> table'[o]]
      /\ \A o \in Servers : Typed(table'[o], o)
  <2>1. Typed(u, s)
    BY <1>1, EntryTypes DEF Typed
  <2>2. Update(s, u)
    BY <1>1 DEF Crash, Update
  <2>. QED  BY <2>1, <2>2, UpdateType
<1>3. count' \in [Servers -> 0..MaxCount]
  <2>1. 0 \in 0..MaxCount
    BY FsdAssumption
  <2>. QED  BY <2>1 DEF Crash, TypesInv
<1>4. clients' \in Registers
  BY DEF Crash, TypesInv, Registers
<1>5. wire' \in Wires
  <2>1. <<>> \in Seq(Packets)
    OBVIOUS
  <2>2. wire' = [l \in Channels |->
                    IF l[2] = s \/ (l[1] = s /\ <<l[2], s>> \notin links \cup knocks)
                    THEN <<>> ELSE wire[l]]
    BY DEF Crash
  <2>. QED  BY <2>1, <2>2 DEF TypesInv, Wires
<1>6. links' \subseteq Servers \X Peers /\ knocks' \subseteq (Servers \X Peers) \ links'
      /\ started' \subseteq Servers /\ Dialled'
  BY DEF Crash, TypesInv, Dialled
<1>. QED  BY <1>2, <1>3, <1>4, <1>5, <1>6 DEF Crash, TypesInv

LEMMA ServerTimeoutTypes ==
    ASSUME TypesInv, NEW s \in Servers, NEW o \in Servers, ServerTimeout(s, o)
    PROVE  TypesInv'
<1>1. PICK u : u = [x \in DOMAIN table[s] \ {o} |-> table[s][x]]
  OBVIOUS
<1>2. Typed(table[s], s) /\ o # s
  BY DEF TypesInv, ServerTimeout
<1>3. Typed(u, s)
  BY <1>1, <1>2 DEF Typed
<1>4. Update(s, u)
  BY <1>1 DEF ServerTimeout, Update
<1>5. /\ table' = [x \in Servers |-> table'[x]]
      /\ \A x \in Servers : Typed(table'[x], x)
  BY <1>3, <1>4, UpdateType
<1>6. clients' \in Registers
  <2>1. PICK r : r = [c \in Callsigns |->
                         IF clients[s][c] = o THEN NoServer ELSE clients[s][c]]
    OBVIOUS
  <2>2. clients' = [clients EXCEPT ![s] = r]
    BY <2>1 DEF ServerTimeout
  <2>3. r \in [Callsigns -> Servers \cup {NoServer}]
    BY <2>1 DEF TypesInv, Registers
  <2>. QED  BY <2>2, <2>3 DEF TypesInv, Registers
<1>. QED  BY <1>5, <1>6 DEF ServerTimeout, TypesInv, Dialled

LEMMA SayTypes ==
    ASSUME TypesInv, PointersInv, NEW s \in Servers, NEW m \in Messages, Say(s, m)
    PROVE  TypesInv'
<1>1. PICK way : way = IF Addressee[m] = Everyone
                       THEN [bi |-> TRUE, over |-> Neighbours(s)]
                       ELSE Route(s, Addressee[m], FALSE, {})
  OBVIOUS
<1>2. Addressee[m] \in Callsigns \cup {Everyone}
  BY FsdAssumption
<1>3. way.bi \in BOOLEAN /\ way.over \in SUBSET Peers
  <2>1. CASE Addressee[m] = Everyone
    BY <1>1, <2>1 DEF Neighbours
  <2>2. CASE Addressee[m] # Everyone
    <3>1. FALSE \in BOOLEAN /\ Addressee[m] \in Callsigns
      BY <1>2, <2>2
    <3>. QED  BY <1>1, <2>2, <3>1, RouteType
  <2>. QED  BY <2>1, <2>2
<1>4. Order("MC", Addressee[m], way.bi, [message |-> m], way.over) \in Orders
  BY <1>2, <1>3, OrdersGiven
<1>5. Announce(s, Order("MC", Addressee[m], way.bi, [message |-> m], way.over))
  BY <1>1 DEF Say
<1>6. wire' \in Wires /\ count' \in [Servers -> 0..MaxCount]
  BY <1>4, <1>5, AnnounceType
<1>7. said' \in [Messages -> Servers \cup {NoServer}] /\ heard' \in Ears
  BY DEF Say, TypesInv, Ears
<1>. QED  BY <1>6, <1>7 DEF Say, TypesInv, Dialled

LEMMA TypesStep ==
    ASSUME TypesInv, PointersInv, [Next]_netVars
    PROVE  TypesInv'
<1>1. CASE UNCHANGED netVars
  BY <1>1 DEF netVars, TypesInv, Dialled
<1>2. ASSUME NEW s \in Servers, NEW order \in Orders, Announce(s, order),
             UNCHANGED <<started, table, links, knocks, said, heard>>, clients' \in Registers
      PROVE  TypesInv'
  BY <1>2, AnnounceType DEF TypesInv, Dialled
<1>3. \A s \in Servers : Neighbours(s) \in SUBSET Peers
  BY DEF Neighbours
<1>4. clients \in Registers
  BY DEF TypesInv
<1>5. ASSUME NEW s \in Servers, Sync(s) \/ Notify(s) \/ Crash(s) \/ Start(s)
      PROVE  TypesInv'
  <2>1. SyncTo(Neighbours(s)) \in Orders /\ NotifyTo(s, FALSE, Neighbours(s)) \in Orders
    BY <1>3, OrdersGiven DEF Errands
  <2>2. CASE Sync(s)
    BY <1>2, <1>4, <2>1, <2>2 DEF Sync
  <2>3. CASE Notify(s)
    BY <1>2, <1>4, <2>1, <2>3 DEF Notify
  <2>. QED  BY <1>5, <2>2, <2>3, CrashTypes, StartTypes
<1>6. ASSUME NEW s \in Servers, NEW c \in Callsigns,
             Login(s, c) \/ Logout(s, c) \/ ClientTimeout(s, c)
      PROVE  TypesInv'
  <2>1. /\ AddClientTo(c, s, TRUE, Neighbours(s)) \in Orders
        /\ Order("RMCLIENT", Everyone, TRUE, [callsign |-> c], Neighbours(s)) \in Orders
    BY <1>3, OrdersGiven DEF Errands
  <2>2. CASE Login(s, c)
    <3>1. clients' \in Registers
      BY <1>4, <2>2, RegisterType DEF Login
    <3>. QED  BY <1>2, <2>1, <2>2, <3>1 DEF Login
  <2>3. CASE Logout(s, c)
    <3>1. clients' \in Registers
      BY <1>4, <2>3, RegisterType DEF Logout
    <3>. QED  BY <1>2, <2>1, <2>3, <3>1 DEF Logout
  <2>4. CASE ClientTimeout(s, c)
    <3>1. clients' \in Registers
      BY <1>4, <2>4, RegisterType DEF ClientTimeout
    <3>. QED  BY <2>4, <3>1 DEF ClientTimeout, TypesInv, Dialled
  <2>. QED  BY <1>6, <2>2, <2>3, <2>4
<1>7. ASSUME NEW s \in Servers, NEW n \in Peers, Fail(s, n) \/ Close(s, n)
      PROVE  TypesInv'
  BY <1>7, RemoveUserTypes DEF Fail, Close
<1>. QED  BY <1>1, <1>5, <1>6, <1>7, ConnectTypes, ReconnectTypes, AcceptTypes, SayTypes,
             ReceiveTypes, ServerTimeoutTypes DEF Next

LEMMA TypesCorrect == Spec => []TypesInv
<1>1. TypesInv /\ PointersInv /\ [Next]_netVars => TypesInv'
  BY TypesStep
<1>. QED  BY <1>1, TypesInit, PointersCorrect, PTL DEF Spec

(***************************************************************************)
(* The types of the network's variables, in any network and whatever       *)
(* fails: counts, hops and drops stay in their ranges, and what is under   *)
(* way carries what its command needs, so that no handler reads a field    *)
(* that the packet does not have.                                          *)
(***************************************************************************)
THEOREM NetTypesCorrect == Spec => []NetTypeOK
<1>1. TypesInv => NetTypeOK
  BY DEF TypesInv, NetTypeOK, Typed, Wires, Registers, Ears
<1>. QED  BY <1>1, TypesCorrect, PTL
-----------------------------------------------------------------------------
(***************************************************************************)
(* Nobody hears a message twice.  The packet counts promise it, as long as *)
(* no server forgets how far it was with another one.  For each message    *)
(* the proof keeps track of the copies that are under way: a broadcast has *)
(* any number of them, all with the count it was sent with, and a server   *)
(* that has handled one refuses the others; what goes to one user is a     *)
(* single packet until some server on its way has no route.                *)
(***************************************************************************)
\* A copy of the message m waits on the connection l.
Waits(l, i, m) ==
    /\ l \in Channels
    /\ i \in DOMAIN wire[l]
    /\ wire[l][i].cmd = "MC"
    /\ wire[l][i].data.message = m

\* s takes the broadcast q for one that it has handled.
Refuses(s, q) ==
    q.from = s \/ (q.from \in DOMAIN table[s] /\ table[s][q.from].pcount >= q.pc)

\* What is under way of m, and what of it has arrived.
Once(m) ==
    /\ said[m] = NoServer => \A s \in Servers : heard[s][m] = 0
    /\ \A s \in Servers : heard[s][m] <= 1
    /\ \A l \in Channels : \A i \in DOMAIN wire[l] : Waits(l, i, m) =>
          LET q == wire[l][i]
          IN  /\ said[m] # NoServer
              /\ q.bi => \A s \in Servers : heard[s][m] >= 1 => Refuses(s, q)
              /\ ~q.bi => q.to # Everyone /\ \A s \in Servers : heard[s][m] = 0
              /\ \A k \in Channels : \A j \in DOMAIN wire[k] :
                    Waits(k, j, m) =>
                        /\ wire[k][j].from = q.from /\ wire[k][j].pc = q.pc
                        /\ q.bi \/ (k = l /\ j = i)

OnceInv == \A m \in Messages : Once(m)

\* No server knows less of another one's packets than before.
CountsGrow ==
    \A s \in Servers : \A o \in DOMAIN table[s] :
        o \in DOMAIN table'[s] /\ table'[s][o].pcount >= table[s][o].pcount
-----------------------------------------------------------------------------
(***************************************************************************)
(* Where the copies after a step come from: a packet on l was there before *)
(* the step, one place further back if the first of l was read, or it is a *)
(* copy of q that was written, once, to a connection of `ways`.            *)
(***************************************************************************)
Was(read, l, j) == IF l \in read THEN j + 1 ELSE j

Reads(read, wires) ==
    \A l \in Channels : \A j \in DOMAIN wires[l] :
        /\ Was(read, l, j) \in DOMAIN wire[l]
        /\ wires[l][j] = wire[l][Was(read, l, j)]

Spread(read, q, ways) ==
    \A l \in Channels : \E k \in Nat : \A j \in DOMAIN wire'[l] :
        wire'[l][j].cmd = "MC" =>
            \/ /\ Was(read, l, j) \in DOMAIN wire[l]
               /\ wire'[l][j] = wire[l][Was(read, l, j)]
            \/ j = k /\ l \in ways /\ wire'[l][j] = q

\* The only packet for a user among the sends is q, to each server of over.
OverOnly(sends, q, over) ==
    \A x \in Servers : \A j \in DOMAIN Over(sends, x) :
        Over(sends, x)[j].cmd = "MC" => j = 1 /\ x \in over /\ Over(sends, x)[j] = q

LEMMA ReadsOf ==
    ASSUME wire \in Wires, NEW s \in Servers, NEW n \in Peers
    PROVE  /\ Reads({}, wire)
           /\ wire[<<n, s>>] # <<>> => Reads({<<n, s>>}, Taken(n, s))
           /\ Reads({}, [wire EXCEPT ![<<n, s>>] = <<>>])
<1>1. \A l \in Channels : wire[l] \in Seq(Packets)
  BY DEF Wires
<1>2. wire = [l \in Channels |-> wire[l]]
  BY DEF Wires
<1>3. Reads({}, wire)
  BY DEF Reads, Was
<1>4. Reads({}, [wire EXCEPT ![<<n, s>>] = <<>>])
  BY <1>2 DEF Reads, Was
<1>5. ASSUME wire[<<n, s>>] # <<>>
      PROVE  Reads({<<n, s>>}, Taken(n, s))
  <2>1. PICK w : w = Taken(n, s)
    OBVIOUS
  <2>2. /\ w[<<n, s>>] = Tail(wire[<<n, s>>])
        /\ \A l \in Channels : l # <<n, s>> => w[l] = wire[l]
    BY <1>2, <2>1 DEF Taken, Channels
  <2>3. ASSUME NEW l \in Channels, NEW j \in DOMAIN w[l]
        PROVE  /\ Was({<<n, s>>}, l, j) \in DOMAIN wire[l]
               /\ w[l][j] = wire[l][Was({<<n, s>>}, l, j)]
    <3>1. CASE l = <<n, s>>
      <4>1. wire[l] \in Seq(Packets) /\ wire[l] # <<>>
        BY <1>1, <1>5, <3>1
      <4>2. w[l] = Tail(wire[l]) /\ Was({<<n, s>>}, l, j) = j + 1
        BY <2>2, <3>1 DEF Was
      <4>. QED  BY <4>1, <4>2
    <3>2. CASE l # <<n, s>>
      BY <2>2, <3>2 DEF Was
    <3>. QED  BY <3>1, <3>2
  <2>. QED  BY <2>1, <2>3 DEF Reads
<1>. QED  BY <1>3, <1>4, <1>5

LEMMA SpreadRead ==
    ASSUME NEW read, NEW q, Reads(read, wire')
    PROVE  Spread(read, q, {})
BY DEF Reads, Spread

LEMMA SpreadSent ==
    ASSUME NEW s \in Servers, NEW sends \in Seq(Sends), NEW wires \in Wires, NEW read,
           Reads(read, wires), Transmit(s, sends, wires), NEW q, NEW over,
           OverOnly(sends, q, over)
    PROVE  Spread(read, q, {s} \X over)
<1>. SUFFICES ASSUME NEW l \in Channels
              PROVE  \E k \in Nat : \A j \in DOMAIN wire'[l] : wire'[l][j].cmd = "MC" =>
                        \/ /\ Was(read, l, j) \in DOMAIN wire[l]
                           /\ wire'[l][j] = wire[l][Was(read, l, j)]
                        \/ j = k /\ l \in {s} \X over /\ wire'[l][j] = q
  BY DEF Spread
<1>1. wires[l] \in Seq(Packets)
  BY DEF Wires
<1>2. CASE wire'[l] = wires[l]
  BY <1>2 DEF Reads
<1>3. CASE l[1] = s /\ wire'[l] = wires[l] \o Over(sends, l[2])
  <2>1. PICK more : more = Over(sends, l[2])
    OBVIOUS
  <2>2. more \in Seq(Packets)
    BY <2>1, OverType
  <2>3. PICK k : k = Len(wires[l]) + 1
    OBVIOUS
  <2>4. k \in Nat
    BY <1>1, <2>3
  <2>5. ASSUME NEW j \in DOMAIN wire'[l], wire'[l][j].cmd = "MC"
        PROVE  \/ /\ Was(read, l, j) \in DOMAIN wire[l]
                  /\ wire'[l][j] = wire[l][Was(read, l, j)]
               \/ j = k /\ l \in {s} \X over /\ wire'[l][j] = q
    <3>1. CASE j \in DOMAIN wires[l]
      <4>1. wire'[l][j] = wires[l][j]
        BY <1>1, <1>3, <2>1, <2>2, <3>1
      <4>. QED  BY <3>1, <4>1 DEF Reads
    <3>2. CASE j \notin DOMAIN wires[l]
      <4>1. PICK i : i = j - Len(wires[l])
        OBVIOUS
      <4>2. i \in DOMAIN more /\ wire'[l][j] = more[i] /\ j = i + Len(wires[l])
        <5>1. \A a, b \in Seq(Packets) : \A x \in DOMAIN (a \o b) \ DOMAIN a :
                  /\ x - Len(a) \in DOMAIN b /\ (a \o b)[x] = b[x - Len(a)]
                  /\ x = (x - Len(a)) + Len(a)
          OBVIOUS
        <5>2. wire'[l] = wires[l] \o more
          BY <1>3, <2>1
        <5>. QED  BY <1>1, <2>2, <3>2, <4>1, <5>1, <5>2
      <4>3. l[2] \in Servers
        BY DEF Channels
      <4>4. i = 1 /\ l[2] \in over /\ more[i] = q
        BY <2>1, <2>5, <4>2, <4>3 DEF OverOnly
      <4>5. l = <<l[1], l[2]>>
        BY DEF Channels
      <4>6. l \in {s} \X over
        BY <1>3, <4>4, <4>5
      <4>7. j = k
        BY <1>1, <2>3, <4>2, <4>4
      <4>. QED  BY <4>2, <4>4, <4>6, <4>7
    <3>. QED  BY <3>1, <3>2
  <2>. QED  BY <2>4, <2>5
<1>. QED  BY <1>2, <1>3 DEF Transmit

\* Packets that are for no user.
LEMMA OverQuiet ==
    ASSUME NEW sends \in Seq(QuietSends), NEW q
    PROVE  OverOnly(sends, q, {})
<1>. DEFINE Quietly == {x \in Packets : x.cmd # "MC"}
<1>1. ASSUME NEW n
      PROVE  Over(sends, n) \in Seq(Quietly)
  <2>1. PICK groups : groups = [i \in DOMAIN sends |->
                          IF n \in sends[i].over THEN <<sends[i].packet>> ELSE <<>>]
    OBVIOUS
  <2>2. DOMAIN sends = 1..Len(sends) /\ Len(sends) \in Nat
        /\ \A i \in DOMAIN sends : sends[i] \in QuietSends
    OBVIOUS
  <2>3. ASSUME NEW i \in DOMAIN sends
        PROVE  groups[i] \in Seq(Quietly)
    <3>1. sends[i].packet \in Quietly
      BY <2>2 DEF QuietSends, Sends
    <3>. HIDE DEF Quietly
    <3>2. <<sends[i].packet>> \in Seq(Quietly) /\ <<>> \in Seq(Quietly)
      BY <3>1
    <3>. QED  BY <2>1, <3>2
  <2>. HIDE DEF Quietly
  <2>4. groups \in Seq(Seq(Quietly))
    <3>1. groups = [i \in 1..Len(sends) |-> groups[i]]
      BY <2>1, <2>2
    <3>. QED  BY <2>2, <2>3, <3>1, ItemsType
  <2>5. Over(sends, n) = FlattenSeq(groups)
    BY <2>1 DEF Over
  <2>. QED  BY <2>4, <2>5, Flat
<1>2. ASSUME NEW n, NEW j \in DOMAIN Over(sends, n)
      PROVE  Over(sends, n)[j].cmd # "MC"
  <2>1. PICK o : o = Over(sends, n)
    OBVIOUS
  <2>. HIDE DEF Quietly
  <2>2. o \in Seq(Quietly)
    BY <1>1, <2>1
  <2>3. o[j] \in Quietly
    BY <2>1, <2>2
  <2>. QED  BY <2>1, <2>3 DEF Quietly
<1>. QED  BY <1>2 DEF OverOnly

\* One packet is sent.
LEMMA OverOne ==
    ASSUME NEW q, NEW over
    PROVE  OverOnly(<<[packet |-> q, over |-> over]>>, q, over)
<1>1. PICK x : x = [packet |-> q, over |-> over]
  OBVIOUS
<1>2. ASSUME NEW n
      PROVE  Over(<<x>>, n) = IF n \in over THEN <<q>> ELSE <<>>
  <2>1. PICK g : g = IF n \in over THEN <<q>> ELSE <<>>
    OBVIOUS
  <2>2. PICK y : y = <<x>>
    OBVIOUS
  <2>3. DOMAIN y = 1..1 /\ y[1] = x
    BY <2>2
  <2>4. [i \in DOMAIN y |-> IF n \in y[i].over THEN <<y[i].packet>> ELSE <<>>] = <<g>>
    BY <1>1, <2>1, <2>3
  <2>5. Over(y, n) = FlattenSeq(<<g>>)
    BY <2>4 DEF Over
  <2>. QED  BY <2>1, <2>2, <2>5, FlatShort
<1>. QED  BY <1>1, <1>2 DEF OverOnly

LEMMA TwoJoined ==
    ASSUME NEW q, NEW r
    PROVE  LET o == <<q>> \o <<r>> IN DOMAIN o = 1..2 /\ o[1] = q /\ o[2] = r
<1>1. PICK T : T = {q, r}
  OBVIOUS
<1>2. ASSUME NEW a \in Seq(T), NEW b \in Seq(T), Len(a) = 1, Len(b) = 1
      PROVE  DOMAIN (a \o b) = 1..2 /\ (a \o b)[1] = a[1] /\ (a \o b)[2] = b[1]
  <2>1. Len(a \o b) = 2 /\ DOMAIN (a \o b) = 1..Len(a \o b)
    BY <1>2
  <2>2. (a \o b)[1] = a[1] /\ (a \o b)[2] = b[1]
    BY <1>2
  <2>. QED  BY <2>1, <2>2
<1>3. PICK a : a = <<q>>
  OBVIOUS
<1>4. PICK b : b = <<r>>
  OBVIOUS
<1>5. a \in Seq(T) /\ Len(a) = 1 /\ a[1] = q
  BY <1>1, <1>3
<1>6. b \in Seq(T) /\ Len(b) = 1 /\ b[1] = r
  BY <1>1, <1>4
<1>. QED  BY <1>2, <1>3, <1>4, <1>5, <1>6

\* One packet is sent, and a RESET to all users.
LEMMA OverTwo ==
    ASSUME NEW q, NEW over, NEW r, NEW all, r.cmd # "MC"
    PROVE  OverOnly(<<[packet |-> q, over |-> over], [packet |-> r, over |-> all]>>, q, over)
<1>1. PICK x : x = [packet |-> q, over |-> over]
  OBVIOUS
<1>2. PICK z : z = [packet |-> r, over |-> all]
  OBVIOUS
<1>3. ASSUME NEW n
      PROVE  Over(<<x, z>>, n) = (IF n \in over THEN <<q>> ELSE <<>>)
                                     \o (IF n \in all THEN <<r>> ELSE <<>>)
  <2>1. PICK g : g = IF n \in over THEN <<q>> ELSE <<>>
    OBVIOUS
  <2>2. PICK h : h = IF n \in all THEN <<r>> ELSE <<>>
    OBVIOUS
  <2>3. PICK y : y = <<x, z>>
    OBVIOUS
  <2>4. DOMAIN y = 1..2 /\ y[1] = x /\ y[2] = z
    BY <2>3
  <2>5. [i \in DOMAIN y |-> IF n \in y[i].over THEN <<y[i].packet>> ELSE <<>>] = <<g, h>>
    BY <1>1, <1>2, <2>1, <2>2, <2>4
  <2>6. Over(y, n) = FlattenSeq(<<g, h>>)
    BY <2>5 DEF Over
  <2>. QED  BY <2>1, <2>2, <2>3, <2>6, FlatShort
<1>4. ASSUME NEW n, NEW o,
             o = (IF n \in over THEN <<q>> ELSE <<>>) \o (IF n \in all THEN <<r>> ELSE <<>>),
             NEW j \in DOMAIN o, o[j].cmd = "MC"
      PROVE  j = 1 /\ n \in over /\ o[j] = q
  <2>1. CASE n \in over /\ n \in all
    <3>1. o = <<q>> \o <<r>>
      BY <1>4, <2>1
    <3>2. DOMAIN o = 1..2 /\ o[1] = q /\ o[2] = r
      BY <3>1, TwoJoined
    <3>. QED  BY <1>4, <2>1, <3>2
  <2>2. CASE n \in over /\ n \notin all
    <3>1. o = <<q>>
      BY <1>4, <2>2
    <3>. QED  BY <1>4, <2>2, <3>1
  <2>3. CASE n \notin over /\ n \in all
    <3>1. o = <<r>>
      BY <1>4, <2>3
    <3>. QED  BY <1>4, <2>3, <3>1
  <2>4. CASE n \notin over /\ n \notin all
    <3>1. o = <<>>
      BY <1>4, <2>4
    <3>. QED  BY <1>4, <3>1
  <2>. QED  BY <2>1, <2>2, <2>3, <2>4
<1>. QED  BY <1>1, <1>2, <1>3, <1>4 DEF OverOnly

\* One order of s.
LEMMA OverOrder ==
    ASSUME NEW s \in Servers, NEW order, NEW users
    PROVE  OverOnly(Own(s, <<order>>, users), Assemble(s, order, CountOf(s, 1)), order.over)
<1>1. PICK q : q = Assemble(s, order, CountOf(s, 1))
  OBVIOUS
<1>2. PICK x : x = [packet |-> q, over |-> order.over]
  OBVIOUS
<1>3. PICK r : r = SendReset(s, MaxCount + 1, users).packet
  OBVIOUS
<1>4. SendReset(s, MaxCount + 1, users) = [packet |-> r, over |-> users] /\ r.cmd # "MC"
  BY <1>3 DEF SendReset, Assemble, Order
<1>5. PICK g : g = IF CountOf(s, 1) = MaxCount THEN <<x, SendReset(s, MaxCount + 1, users)>> ELSE <<x>>
  OBVIOUS
<1>6. Own(s, <<order>>, users) = g
  <2>1. PICK y : y = <<order>>
    OBVIOUS
  <2>2. DOMAIN y = 1..1 /\ y[1] = order
    BY <2>1
  <2>3. [i \in DOMAIN y |->
            LET send == [packet |-> Assemble(s, y[i], CountOf(s, i)), over |-> y[i].over]
            IN  IF CountOf(s, i) = MaxCount THEN <<send, SendReset(s, MaxCount + 1, users)>>
                                            ELSE <<send>>] = <<g>>
    BY <1>1, <1>2, <1>5, <2>2
  <2>4. Own(s, y, users) = FlattenSeq(<<g>>)
    BY <2>3 DEF Own
  <2>. QED  BY <2>1, <2>4, FlatShort
<1>7. OverOnly(g, q, order.over)
  BY <1>2, <1>4, <1>5, OverOne, OverTwo
<1>. QED  BY <1>1, <1>6, <1>7
-----------------------------------------------------------------------------
\* What a server refuses it will refuse, as long as its counts only grow.
LEMMA RefusesKept ==
    ASSUME TypesInv, TypesInv', CountsGrow, NEW s \in Servers, NEW q \in Packets,
           Refuses(s, q)
    PROVE  Refuses(s, q)'
<1>1. CASE q.from = s
  BY <1>1 DEF Refuses
<1>2. CASE q.from \in DOMAIN table[s] /\ table[s][q.from].pcount >= q.pc
  <2>1. PICK o : o = q.from
    OBVIOUS
  <2>2. /\ o \in DOMAIN table[s] /\ o \in DOMAIN table'[s]
        /\ table'[s][o].pcount >= table[s][o].pcount
    BY <1>2, <2>1 DEF CountsGrow
  <2>3. table[s][o] \in Entries /\ table'[s][o] \in Entries
    BY <2>2 DEF TypesInv, Typed
  <2>4. q.pc \in 0..(MaxCount + 1)
    BY PacketFields
  <2>5. \A e \in Entries : e.pcount \in Int
    BY FsdAssumption DEF Entries
  <2>6. table'[s][o].pcount >= q.pc
    BY <1>2, <2>1, <2>2, <2>3, <2>4, <2>5
  <2>. QED  BY <2>1, <2>2, <2>6 DEF Refuses
<1>. QED  BY <1>1, <1>2 DEF Refuses

\* Nothing of m is written, and nobody hears it.
LEMMA OnceKept ==
    ASSUME TypesInv, TypesInv', CountsGrow, NEW m \in Messages, Once(m),
           NEW read, NEW q, NEW ways, Spread(read, q, ways),
           ways = {} \/ q.cmd # "MC" \/ q.data.message # m,
           said'[m] = said[m], \A s \in Servers : heard'[s][m] = heard[s][m]
    PROVE  Once(m)'
<1>1. ASSUME NEW l \in Channels, NEW j \in DOMAIN wire'[l], Waits(l, j, m)'
      PROVE  Waits(l, Was(read, l, j), m) /\ wire'[l][j] = wire[l][Was(read, l, j)]
  <2>1. wire'[l][j].cmd = "MC" /\ wire'[l][j].data.message = m
    BY <1>1 DEF Waits
  <2>2. \/ /\ Was(read, l, j) \in DOMAIN wire[l]
           /\ wire'[l][j] = wire[l][Was(read, l, j)]
        \/ l \in ways /\ wire'[l][j] = q
    BY <2>1 DEF Spread
  <2>. QED  BY <2>1, <2>2 DEF Waits
<1>2. ASSUME NEW l \in Channels, NEW j \in DOMAIN wire'[l],
             NEW i \in DOMAIN wire'[l], Was(read, l, j) = Was(read, l, i)
      PROVE  i = j
  <2>1. DOMAIN wire'[l] \subseteq Nat
    <3>1. wire'[l] \in Seq(Packets)
      BY DEF TypesInv, Wires
    <3>. QED  BY <3>1
  <2>. QED  BY <1>2, <2>1 DEF Was
<1>3. said'[m] = NoServer => \A s \in Servers : heard'[s][m] = 0
  BY DEF Once
<1>4. \A s \in Servers : heard'[s][m] <= 1
  BY DEF Once
<1>5. ASSUME NEW l \in Channels, NEW j \in DOMAIN wire'[l], Waits(l, j, m)',
             NEW x, x = wire'[l][j]
      PROVE  /\ said'[m] # NoServer
             /\ x.bi => \A s \in Servers : heard'[s][m] >= 1 => Refuses(s, x)'
             /\ ~x.bi => x.to # Everyone /\ \A s \in Servers : heard'[s][m] = 0
             /\ \A k \in Channels : \A i \in DOMAIN wire'[k] :
                    Waits(k, i, m)' =>
                        /\ wire'[k][i].from = x.from /\ wire'[k][i].pc = x.pc
                        /\ x.bi \/ (k = l /\ i = j)
  <2>1. PICK w : w = Was(read, l, j)
    OBVIOUS
  <2>2. Waits(l, w, m) /\ x = wire[l][w] /\ w \in DOMAIN wire[l]
    BY <1>1, <1>5, <2>1 DEF Waits
  <2>3. /\ said[m] # NoServer
        /\ x.bi => \A s \in Servers : heard[s][m] >= 1 => Refuses(s, x)
        /\ ~x.bi => x.to # Everyone /\ \A s \in Servers : heard[s][m] = 0
        /\ \A k \in Channels : \A i \in DOMAIN wire[k] :
               Waits(k, i, m) =>
                   /\ wire[k][i].from = x.from /\ wire[k][i].pc = x.pc
                   /\ x.bi \/ (k = l /\ i = w)
    BY <2>2 DEF Once
  <2>4. x \in Packets
    <3>1. wire[l] \in Seq(Packets)
      BY DEF TypesInv, Wires
    <3>. QED  BY <2>2, <3>1
  <2>5. ASSUME x.bi, NEW s \in Servers, heard'[s][m] >= 1
        PROVE  Refuses(s, x)'
    BY <2>3, <2>4, <2>5, RefusesKept
  <2>6. ASSUME NEW k \in Channels, NEW i \in DOMAIN wire'[k], Waits(k, i, m)'
        PROVE  /\ wire'[k][i].from = x.from /\ wire'[k][i].pc = x.pc
               /\ x.bi \/ (k = l /\ i = j)
    <3>1. PICK v : v = Was(read, k, i)
      OBVIOUS
    <3>2. Waits(k, v, m) /\ wire'[k][i] = wire[k][v] /\ v \in DOMAIN wire[k]
      BY <1>1, <2>6, <3>1 DEF Waits
    <3>3. wire[k][v].from = x.from /\ wire[k][v].pc = x.pc /\ (x.bi \/ (k = l /\ v = w))
      BY <2>3, <3>2
    <3>. QED  BY <1>2, <2>1, <3>1, <3>2, <3>3
  <2>. QED  BY <2>3, <2>5, <2>6
<1>. QED  BY <1>3, <1>4, <1>5 DEF Once

\* The copies of m after a step that writes q: old broadcasts, and q.
Spreads(q, ways, m) ==
    \A l \in Channels : \E k \in Nat : \A j \in DOMAIN wire'[l] :
        Waits(l, j, m)' =>
            \/ j = k /\ l \in ways /\ wire'[l][j] = q
            \/ /\ wire'[l][j].bi /\ q.bi
               /\ wire'[l][j].from = q.from /\ wire'[l][j].pc = q.pc

LEMMA OnceSpread ==
    ASSUME NEW m \in Messages, NEW q, NEW ways, Spreads(q, ways, m),
           said'[m] # NoServer, \A s \in Servers : heard'[s][m] <= 1,
           q.bi => \A s \in Servers : heard'[s][m] >= 1 => Refuses(s, q)',
           ~q.bi /\ ways # {} => /\ q.to # Everyone
                                 /\ \A s \in Servers : heard'[s][m] = 0
                                 /\ \A x, y \in ways : x = y
    PROVE  Once(m)'
<1>1. ASSUME NEW l \in Channels, NEW j \in DOMAIN wire'[l], Waits(l, j, m)',
             NEW x, x = wire'[l][j]
      PROVE  /\ x.bi => \A s \in Servers : heard'[s][m] >= 1 => Refuses(s, x)'
             /\ ~x.bi => x.to # Everyone /\ \A s \in Servers : heard'[s][m] = 0
             /\ \A k \in Channels : \A i \in DOMAIN wire'[k] :
                    Waits(k, i, m)' =>
                        /\ wire'[k][i].from = x.from /\ wire'[k][i].pc = x.pc
                        /\ x.bi \/ (k = l /\ i = j)
  <2>1. x.from = q.from /\ x.pc = q.pc /\ (x.bi <=> q.bi) /\ (~x.bi => l \in ways /\ x = q)
    BY <1>1 DEF Spreads
  <2>2. x.bi => \A s \in Servers : heard'[s][m] >= 1 => Refuses(s, x)'
    BY <2>1 DEF Refuses
  <2>3. ~x.bi => x.to # Everyone /\ \A s \in Servers : heard'[s][m] = 0
    BY <2>1
  <2>4. ASSUME NEW k \in Channels, NEW i \in DOMAIN wire'[k], Waits(k, i, m)'
        PROVE  /\ wire'[k][i].from = x.from /\ wire'[k][i].pc = x.pc
               /\ x.bi \/ (k = l /\ i = j)
    <3>1. /\ wire'[k][i].from = q.from /\ wire'[k][i].pc = q.pc
          /\ q.bi \/ k \in ways
      BY <2>4 DEF Spreads
    <3>2. CASE ~q.bi
      <4>1. k = l
        BY <2>1, <3>1, <3>2
      <4>2. i = j
        BY <1>1, <2>4, <3>2, <4>1 DEF Spreads
      <4>. QED  BY <2>1, <3>1, <4>1, <4>2
    <3>. QED  BY <2>1, <3>1, <3>2
  <2>. QED  BY <2>2, <2>3, <2>4
<1>. QED  BY <1>1 DEF Once
-----------------------------------------------------------------------------
\* A step in which no server writes or handles a message.
LEMMA OnceQuiet ==
    ASSUME TypesInv, TypesInv', CountsGrow, OnceInv, NEW read, NEW q,
           Spread(read, q, {}), UNCHANGED <<said, heard>>
    PROVE  OnceInv'
<1>1. ASSUME NEW m \in Messages
      PROVE  Once(m)'
  BY OnceKept DEF OnceInv
<1>. QED  BY <1>1 DEF OnceInv

\* A server sends packets that are for no user.
LEMMA OnceSends ==
    ASSUME TypesInv, TypesInv', CountsGrow, OnceInv, NEW s \in Servers,
           NEW sends \in Seq(QuietSends), NEW wires \in Wires, NEW read,
           Reads(read, wires), Transmit(s, sends, wires), UNCHANGED <<said, heard>>
    PROVE  OnceInv'
<1>1. PICK q : q = [cmd |-> "SYNC"]
  OBVIOUS
<1>2. OverOnly(sends, q, {}) /\ sends \in Seq(Sends)
  BY OverQuiet, ErrandsOrders
<1>3. Spread(read, q, {s} \X {})
  BY <1>2, SpreadSent
<1>4. {s} \X {} = {}
  OBVIOUS
<1>. QED  BY <1>3, <1>4, OnceQuiet

\* A message is sent.
LEMMA OnceSay ==
    ASSUME TypesInv, TypesInv', PointersInv, CountsGrow, OnceInv,
           NEW s \in Servers, NEW m \in Messages, Say(s, m)
    PROVE  OnceInv'
<1>1. PICK way : way = IF Addressee[m] = Everyone
                       THEN [bi |-> TRUE, over |-> Neighbours(s)]
                       ELSE Route(s, Addressee[m], FALSE, {})
  OBVIOUS
<1>2. PICK order : order = Order("MC", Addressee[m], way.bi, [message |-> m], way.over)
  OBVIOUS
<1>3. PICK q : q = Assemble(s, order, CountOf(s, 1))
  OBVIOUS
<1>4. /\ said[m] = NoServer
      /\ said' = [said EXCEPT ![m] = s]
      /\ heard' = [heard EXCEPT ![s][m] =
                       IF Addressee[m] \in Local(s) \cup {Everyone} THEN 1 ELSE 0]
      /\ Announce(s, order)
  BY <1>1, <1>2 DEF Say
<1>5. /\ order.over = way.over
      /\ q.cmd = "MC" /\ q.data.message = m /\ q.bi = way.bi /\ q.to = Addressee[m]
      /\ q.from = s
  BY <1>2, <1>3 DEF Order, Assemble
<1>6. Spread({}, q, {s} \X way.over)
  <2>1. Addressee[m] \in Callsigns \cup {Everyone}
    BY FsdAssumption
  <2>2. way.bi \in BOOLEAN /\ way.over \in SUBSET Peers
    <3>1. CASE Addressee[m] = Everyone
      BY <1>1, <3>1 DEF Neighbours
    <3>2. CASE Addressee[m] # Everyone
      <4>1. FALSE \in BOOLEAN /\ Addressee[m] \in Callsigns
        BY <2>1, <3>2
      <4>. QED  BY <1>1, <3>2, <4>1, RouteType
    <3>. QED  BY <3>1, <3>2
  <2>3. order \in Orders
    BY <1>2, <2>1, <2>2, OrdersGiven
  <2>4. PICK orders : orders = <<order>>
    OBVIOUS
  <2>5. orders \in Seq(Orders)
    BY <2>3, <2>4
  <2>6. Neighbours(s) \in SUBSET Peers /\ count \in [Servers -> 0..MaxCount]
    BY DEF Neighbours, TypesInv
  <2>7. Own(s, orders, Neighbours(s)) \in Seq(Sends)
    BY <2>5, <2>6, OwnType
  <2>8. OverOnly(Own(s, orders, Neighbours(s)), q, way.over)
    BY <1>3, <1>5, <2>4, OverOrder
  <2>9. wire \in Wires /\ Reads({}, wire)
    BY ReadsOf DEF TypesInv, Peers
  <2>10. Transmit(s, Own(s, orders, Neighbours(s)), wire)
    BY <1>4, <2>4 DEF Announce
  <2>. QED  BY <2>7, <2>8, <2>9, <2>10, SpreadSent
<1>7. /\ \A x \in Messages : x # m => said'[x] = said[x]
      /\ \A x \in Messages : x # m => \A o \in Servers : heard'[o][x] = heard[o][x]
      /\ said'[m] = s
      /\ \A o \in Servers : o # s => heard'[o][m] = heard[o][m]
      /\ heard'[s][m] = IF Addressee[m] \in Local(s) \cup {Everyone} THEN 1 ELSE 0
  BY <1>4 DEF TypesInv, Ears
<1>8. ASSUME NEW x \in Messages, x # m
      PROVE  Once(x)'
  <2>1. q.data.message # x /\ Once(x) /\ said'[x] = said[x]
        /\ \A o \in Servers : heard'[o][x] = heard[o][x]
    BY <1>5, <1>7, <1>8 DEF OnceInv
  <2>. QED  BY <1>6, <2>1, OnceKept
<1>9. Once(m)'
  <2>1. PICK ways : ways = {s} \X way.over
    OBVIOUS
  <2>2. Once(m)
    BY DEF OnceInv
  <2>3. \A o \in Servers : heard[o][m] = 0
    BY <1>4, <2>2 DEF Once
  <2>4. Spreads(q, ways, m)
    <3>1. ASSUME NEW l \in Channels, NEW i \in DOMAIN wire[l]
          PROVE  ~Waits(l, i, m)
      BY <1>4, <2>2 DEF Once
    <3>2. ASSUME NEW l \in Channels
          PROVE  \E k \in Nat : \A j \in DOMAIN wire'[l] :
                    Waits(l, j, m)' => j = k /\ l \in ways /\ wire'[l][j] = q
      <4>1. PICK k \in Nat : \A j \in DOMAIN wire'[l] : wire'[l][j].cmd = "MC" =>
                \/ /\ Was({}, l, j) \in DOMAIN wire[l]
                   /\ wire'[l][j] = wire[l][Was({}, l, j)]
                \/ j = k /\ l \in ways /\ wire'[l][j] = q
        BY <1>6, <2>1 DEF Spread
      <4>2. ASSUME NEW j \in DOMAIN wire'[l], Waits(l, j, m)'
            PROVE  j = k /\ l \in ways /\ wire'[l][j] = q
        <5>1. wire'[l][j].cmd = "MC" /\ wire'[l][j].data.message = m
          BY <4>2 DEF Waits
        <5>2. ~(/\ Was({}, l, j) \in DOMAIN wire[l]
                /\ wire'[l][j] = wire[l][Was({}, l, j)])
          BY <3>1, <5>1 DEF Waits
        <5>. QED  BY <4>1, <5>1, <5>2
      <4>. QED  BY <4>2
    <3>. QED  BY <3>2 DEF Spreads
  <2>5. said'[m] # NoServer
    BY <1>7, FsdAssumption
  <2>6. \A o \in Servers : heard'[o][m] <= 1
    BY <1>7, <2>3
  <2>7. \A o \in Servers : heard'[o][m] >= 1 => Refuses(o, q)'
    <3>1. \A o \in Servers : heard'[o][m] >= 1 => o = s
      BY <1>7, <2>3
    <3>. QED  BY <1>5, <3>1 DEF Refuses
  <2>8. ASSUME ~q.bi, ways # {}
        PROVE  /\ q.to # Everyone
               /\ \A o \in Servers : heard'[o][m] = 0
               /\ \A x, y \in ways : x = y
    <3>1. ~way.bi /\ way.over # {}
      BY <1>5, <2>1, <2>8
    <3>2. Addressee[m] # Everyone
      BY <1>1, <3>1
    <3>3. way = Route(s, Addressee[m], FALSE, {})
      BY <1>1, <3>2
    <3>4. clients[s][Addressee[m]] # s
      BY <3>1, <3>3 DEF Route
    <3>5. Addressee[m] \notin Local(s)
      BY <3>4 DEF Local
    <3>6. \E n : way.over = {n}
      BY <3>1, <3>3 DEF Route
    <3>. QED  BY <1>5, <1>7, <2>1, <2>3, <3>2, <3>5, <3>6
  <2>. QED  BY <2>4, <2>5, <2>6, <2>7, <2>8, OnceSpread
<1>. QED  BY <1>8, <1>9 DEF OnceInv
-----------------------------------------------------------------------------
\* The packet p goes on as q: a broadcast stays one, and nothing goes on from
\* the server of the user it is for.
GoesOn(s, n, p, q, over) ==
    /\ Relay(s, n, p) = <<[packet |-> q, over |-> over]>>
    /\ q.cmd = p.cmd /\ q.data = p.data /\ q.to = p.to
    /\ q.from = p.from /\ q.pc = p.pc
    /\ p.bi \/ p.to = Everyone => q.bi
    /\ ~q.bi => \A x, y \in over : x = y
    /\ p.to \in Local(s) => over = {} /\ (q.bi => p.bi)

LEMMA RelayFacts ==
    ASSUME TypesInv, PointersInv, NEW s \in Servers, NEW n \in Peers,
           NEW p \in Packets, p.hc <= MaxHops
    PROVE  \E q \in Packets : \E over \in SUBSET Peers : GoesOn(s, n, p, q, over)
<1>1. PICK way : way = IF p.to = Everyone
                       THEN [bi |-> TRUE, over |-> Neighbours(s) \ {n}]
                       ELSE Route(s, p.to, p.bi, {n})
  OBVIOUS
<1>2. way.bi \in BOOLEAN /\ way.over \in SUBSET Peers
  <2>1. CASE p.to = Everyone
    BY <1>1, <2>1 DEF Neighbours
  <2>2. CASE p.to # Everyone
    <3>1. p.to \in Callsigns /\ p.bi \in BOOLEAN
      BY <2>2, PacketFields
    <3>. QED  BY <1>1, <2>2, <3>1, RouteType
  <2>. QED  BY <2>1, <2>2
<1>3. PICK q : q = [p EXCEPT !.hc = @ + 1, !.bi = way.bi]
  OBVIOUS
<1>4. q \in Packets
  BY <1>2, <1>3, RelayedType
<1>5. Relay(s, n, p) = <<[packet |-> q, over |-> way.over]>>
  BY <1>1, <1>3 DEF Relay
<1>6. /\ q.cmd = p.cmd /\ q.data = p.data /\ q.to = p.to
      /\ q.from = p.from /\ q.pc = p.pc /\ q.bi = way.bi
  BY <1>3 DEF Packets
<1>7. /\ p.bi \/ p.to = Everyone => way.bi
      /\ ~way.bi => \A x, y \in way.over : x = y
  <2>1. CASE p.to = Everyone
    BY <1>1, <2>1
  <2>2. CASE p.to # Everyone
    BY <1>1, <2>2 DEF Route
  <2>. QED  BY <2>1, <2>2
<1>8. p.to \in Local(s) => way.over = {} /\ (way.bi => p.bi)
  <2>1. ASSUME p.to \in Local(s)
        PROVE  way.over = {} /\ (way.bi => p.bi)
    <3>1. p.to # Everyone /\ clients[s][p.to] = s
      BY <2>1, FsdAssumption DEF Local
    <3>. QED  BY <1>1, <3>1 DEF Route
  <2>. QED  BY <2>1
<1>9. GoesOn(s, n, p, q, way.over)
  BY <1>5, <1>6, <1>7, <1>8 DEF GoesOn
<1>. QED  BY <1>2, <1>4, <1>9

\* A broadcast that passes the filter is newer than what was kept, if the
\* count that is kept then does not go back.
LEMMA PassedCounts ==
    ASSUME NEW e \in Entries, NEW n \in Peers, NEW p \in Packets, p.hc <= MaxHops
    PROVE  /\ Rerouted(e, n, p).pcount = e.pcount
           /\ p.bi /\ ~Seen(e, p) /\ Passed(e, n, p).pcount >= e.pcount
                 => e.pcount < p.pc /\ Passed(e, n, p).pcount = p.pc
<1>1. n # NoServer
  BY FsdAssumption DEF Peers
<1>2. ASSUME NEW x \in Entries, NEW h
      PROVE  SetPath(x, n, h).pcount = x.pcount /\ SetPath(x, n, h) =
             [path |-> n, hops |-> h, pcount |-> x.pcount, drops |-> x.drops]
  <2>1. x = [path |-> x.path, hops |-> x.hops, pcount |-> x.pcount, drops |-> x.drops]
    BY DEF Entries
  <2>2. SetPath(x, n, h) = [x EXCEPT !.path = n, !.hops = h, !.pcount = x.pcount]
    BY <1>1 DEF SetPath
  <2>3. SetPath(x, n, h) =
            [path |-> n, hops |-> h, pcount |-> x.pcount, drops |-> x.drops]
    BY <2>1, <2>2
  <2>. QED  BY <2>3
<1>3. Rerouted(e, n, p).pcount = e.pcount
  BY <1>2 DEF Rerouted
<1>4. ASSUME p.bi, ~Seen(e, p), Passed(e, n, p).pcount >= e.pcount
      PROVE  e.pcount < p.pc /\ Passed(e, n, p).pcount = p.pc
  <2>1. e.pcount \in Int /\ p.pc \in Int /\ p.pc \in -1..(MaxCount + 1)
    <3>1. p.pc \in 0..(MaxCount + 1)
      BY PacketFields
    <3>. QED  BY <3>1, FsdAssumption DEF Entries
  <2>2. PICK k : k = IF e.drops >= DropLimit \/ p.pc > e.pcount THEN p.pc ELSE e.pcount
    OBVIOUS
  <2>3. PICK c : c = [e EXCEPT !.pcount = k]
    OBVIOUS
  <2>4. c \in Entries /\ c.pcount = k
    <3>1. k \in -1..(MaxCount + 1)
      BY <2>1, <2>2 DEF Entries
    <3>. QED  BY <2>3, <3>1 DEF Entries
  <2>5. Passed(e, n, p) = [SetPath(c, n, p.hc) EXCEPT !.drops = 0]
    BY <1>4, <2>2, <2>3 DEF Passed
  <2>6. Passed(e, n, p).pcount = k
    BY <1>2, <2>4, <2>5
  <2>7. p.pc # e.pcount
    BY <1>4, <2>1 DEF Seen, Stale
  <2>8. CASE p.pc > e.pcount
    BY <2>1, <2>2, <2>6, <2>8
  <2>9. CASE ~(p.pc > e.pcount)
    <3>1. Stale(e, p)
      BY <2>1, <2>9 DEF Stale
    <3>2. ~(e.drops < DropLimit)
      BY <1>4, <3>1 DEF Seen
    <3>3. e.drops >= DropLimit
      BY <3>2, FsdAssumption DEF Entries
    <3>4. k = p.pc
      BY <2>2, <3>3
    <3>. QED  BY <1>4, <2>1, <2>6, <2>7, <2>9, <3>4
  <2>. QED  BY <2>8, <2>9
<1>. QED  BY <1>3, <1>4

\* The first packet p of <<n, s>> is read and goes on as q, or not at all.
LEMMA OnceForwarded ==
    ASSUME TypesInv, TypesInv', PointersInv, OnceInv, NEW m \in Messages,
           NEW s \in Servers, NEW n \in Peers, Waits(<<n, s>>, 1, m),
           NEW p, p = wire[<<n, s>>][1], NEW q, NEW ways,
           Spread({<<n, s>>}, q, ways),
           q.from = p.from, q.pc = p.pc, p.bi => q.bi
    PROVE  Spreads(q, ways, m)
<1>1. PICK c : c = <<n, s>>
  OBVIOUS
<1>2. c \in Channels /\ Once(m) /\ Waits(c, 1, m) /\ 1 \in DOMAIN wire[c]
  BY <1>1 DEF OnceInv, Waits
<1>3. ASSUME NEW l \in Channels, NEW i \in DOMAIN wire[l], Waits(l, i, m)
      PROVE  /\ wire[l][i].from = p.from /\ wire[l][i].pc = p.pc
             /\ (wire[l][i].bi /\ p.bi) \/ (l = c /\ i = 1)
  <2>1. /\ wire[l][i].from = p.from /\ wire[l][i].pc = p.pc
        /\ p.bi \/ (l = c /\ i = 1)
    BY <1>1, <1>2, <1>3 DEF Once
  <2>2. wire[l][i].bi \/ (l = c /\ i = 1)
    BY <1>2, <1>3 DEF Once
  <2>. QED  BY <2>1, <2>2
<1>4. ASSUME NEW l \in Channels
      PROVE  \E k \in Nat : \A j \in DOMAIN wire'[l] : Waits(l, j, m)' =>
                \/ j = k /\ l \in ways /\ wire'[l][j] = q
                \/ /\ wire'[l][j].bi /\ q.bi
                   /\ wire'[l][j].from = q.from /\ wire'[l][j].pc = q.pc
  <2>1. PICK k \in Nat : \A j \in DOMAIN wire'[l] : wire'[l][j].cmd = "MC" =>
            \/ /\ Was({c}, l, j) \in DOMAIN wire[l]
               /\ wire'[l][j] = wire[l][Was({c}, l, j)]
            \/ j = k /\ l \in ways /\ wire'[l][j] = q
    BY <1>1 DEF Spread
  <2>2. ASSUME NEW j \in DOMAIN wire'[l], Waits(l, j, m)',
               NEW i \in DOMAIN wire[l], i = Was({c}, l, j), wire'[l][j] = wire[l][i]
        PROVE  /\ wire'[l][j].bi /\ q.bi
               /\ wire'[l][j].from = q.from /\ wire'[l][j].pc = q.pc
    <3>1. Waits(l, i, m)
      BY <2>2 DEF Waits
    <3>2. ~(l = c /\ i = 1)
      <4>1. l = c => i = j + 1
        BY <2>2 DEF Was
      <4>2. ASSUME l = c, i = 1
            PROVE  FALSE
        <5>1. j + 1 = 1
          BY <4>1, <4>2
        <5>2. j \in Nat \ {0}
          <6>1. wire'[l] \in Seq(Packets)
            BY DEF TypesInv, Wires
          <6>. QED  BY <6>1
        <5>. QED  BY <5>1, <5>2
      <4>. QED  BY <4>2
    <3>. QED  BY <1>3, <2>2, <3>1, <3>2
  <2>3. ASSUME NEW j \in DOMAIN wire'[l], Waits(l, j, m)'
        PROVE  \/ j = k /\ l \in ways /\ wire'[l][j] = q
               \/ /\ wire'[l][j].bi /\ q.bi
                  /\ wire'[l][j].from = q.from /\ wire'[l][j].pc = q.pc
    <3>1. wire'[l][j].cmd = "MC"
      BY <2>3 DEF Waits
    <3>. QED  BY <2>1, <2>2, <2>3, <3>1
  <2>. QED  BY <2>3
<1>. QED  BY <1>4 DEF Spreads

\* p goes on, and no user of s hears it.
LEMMA OnceForward ==
    ASSUME TypesInv, TypesInv', PointersInv, CountsGrow, OnceInv,
           NEW s \in Servers, NEW n \in Peers, wire[<<n, s>>] # <<>>,
           NEW p, p = Head(wire[<<n, s>>]), p.hc <= MaxHops, Forward(s, n, p),
           UNCHANGED <<said, heard>>
    PROVE  OnceInv'
<1>1. /\ p \in Packets /\ Taken(n, s) \in Wires /\ Reads({<<n, s>>}, Taken(n, s))
      /\ p = wire[<<n, s>>][1] /\ 1 \in DOMAIN wire[<<n, s>>]
      /\ <<n, s>> \in Channels
  <2>1. wire \in Wires /\ wire[<<n, s>>] \in Seq(Packets) /\ <<n, s>> \in Channels
    BY DEF TypesInv, Wires, Channels
  <2>2. p = wire[<<n, s>>][1] /\ 1 \in DOMAIN wire[<<n, s>>]
    BY <2>1
  <2>. QED  BY <2>1, <2>2, TakenType, ReadsOf
<1>2. PICK q \in Packets, over \in SUBSET Peers : GoesOn(s, n, p, q, over)
  BY <1>1, RelayFacts
<1>3. /\ Relay(s, n, p) = <<[packet |-> q, over |-> over]>>
      /\ q.cmd = p.cmd /\ q.data = p.data /\ q.to = p.to
      /\ q.from = p.from /\ q.pc = p.pc
      /\ p.bi \/ p.to = Everyone => q.bi
      /\ ~q.bi => \A x, y \in over : x = y
  BY <1>2 DEF GoesOn
<1>4. Spread({<<n, s>>}, q, {s} \X over)
  <2>1. Relay(s, n, p) \in Seq(Sends)
    BY <1>1, RelayType
  <2>2. OverOnly(Relay(s, n, p), q, over)
    BY <1>3, OverOne
  <2>3. Transmit(s, Relay(s, n, p), Taken(n, s))
    BY DEF Forward
  <2>. QED  BY <1>1, <2>1, <2>2, <2>3, SpreadSent
<1>5. PICK ways : ways = {s} \X over
  OBVIOUS
<1>6. ASSUME NEW m \in Messages
      PROVE  Once(m)'
  <2>1. Once(m) /\ said'[m] = said[m] /\ \A o \in Servers : heard'[o][m] = heard[o][m]
    BY DEF OnceInv
  <2>2. CASE q.cmd # "MC" \/ q.data.message # m
    BY <1>4, <2>1, <2>2, OnceKept
  <2>3. CASE q.cmd = "MC" /\ q.data.message = m
    <3>1. Waits(<<n, s>>, 1, m)
      BY <1>1, <1>3, <2>3 DEF Waits
    <3>2. /\ said[m] # NoServer
          /\ p.bi => \A o \in Servers : heard[o][m] >= 1 => Refuses(o, p)
          /\ ~p.bi => p.to # Everyone /\ \A o \in Servers : heard[o][m] = 0
      BY <1>1, <2>1, <3>1 DEF Once
    <3>3. Spreads(q, ways, m)
      BY <1>1, <1>3, <1>4, <1>5, <3>1, OnceForwarded
    <3>4. \A o \in Servers : heard'[o][m] <= 1
      BY <2>1 DEF Once
    <3>5. ASSUME NEW o \in Servers, heard'[o][m] >= 1
          PROVE  Refuses(o, q)'
      <4>1. heard[o][m] >= 1
        BY <2>1, <3>5
      <4>2. p.bi
        BY <3>2, <4>1
      <4>3. Refuses(o, p)'
        BY <1>1, <3>2, <4>1, <4>2, RefusesKept
      <4>. QED  BY <1>3, <4>3 DEF Refuses
    <3>6. ASSUME ~q.bi
          PROVE  /\ q.to # Everyone
                 /\ \A o \in Servers : heard'[o][m] = 0
                 /\ \A x, y \in ways : x = y
      <4>1. ~p.bi /\ q.to # Everyone
        BY <1>3, <3>2, <3>6
      <4>2. \A o \in Servers : heard'[o][m] = 0
        BY <2>1, <3>2, <4>1
      <4>3. \A x, y \in ways : x = y
        BY <1>3, <1>5, <3>6
      <4>. QED  BY <4>1, <4>2, <4>3
    <3>. QED  BY <2>1, <3>2, <3>3, <3>4, <3>5, <3>6, OnceSpread
  <2>. QED  BY <2>2, <2>3
<1>. QED  BY <1>6 DEF OnceInv

\* p goes on, and the users of s hear it.
LEMMA OnceHeard ==
    ASSUME TypesInv, TypesInv', PointersInv, CountsGrow, OnceInv,
           NEW s \in Servers, NEW n \in Peers, wire[<<n, s>>] # <<>>,
           NEW p, p = Head(wire[<<n, s>>]), p.hc <= MaxHops, Forward(s, n, p),
           UNCHANGED said, NeedLocalDelivery(s, p), p.cmd = "MC",
           heard' = [heard EXCEPT ![s][p.data.message] = IF @ < 2 THEN @ + 1 ELSE @],
           p.bi => /\ ~Refuses(s, p)
                   /\ p.from \in DOMAIN table'[s] /\ table'[s][p.from].pcount >= p.pc
    PROVE  OnceInv'
<1>1. /\ p \in Packets /\ Taken(n, s) \in Wires /\ Reads({<<n, s>>}, Taken(n, s))
      /\ p = wire[<<n, s>>][1] /\ 1 \in DOMAIN wire[<<n, s>>]
      /\ <<n, s>> \in Channels
  <2>1. wire \in Wires /\ wire[<<n, s>>] \in Seq(Packets) /\ <<n, s>> \in Channels
    BY DEF TypesInv, Wires, Channels
  <2>2. p = wire[<<n, s>>][1] /\ 1 \in DOMAIN wire[<<n, s>>]
    BY <2>1
  <2>. QED  BY <2>1, <2>2, TakenType, ReadsOf
<1>2. PICK q \in Packets, over \in SUBSET Peers : GoesOn(s, n, p, q, over)
  BY <1>1, RelayFacts
<1>3. /\ Relay(s, n, p) = <<[packet |-> q, over |-> over]>>
      /\ q.cmd = p.cmd /\ q.data = p.data /\ q.to = p.to
      /\ q.from = p.from /\ q.pc = p.pc
      /\ p.bi \/ p.to = Everyone => q.bi
      /\ p.to \in Local(s) => over = {} /\ (q.bi => p.bi)
  BY <1>2 DEF GoesOn
<1>4. Spread({<<n, s>>}, q, {s} \X over)
  <2>1. Relay(s, n, p) \in Seq(Sends)
    BY <1>1, RelayType
  <2>2. OverOnly(Relay(s, n, p), q, over)
    BY <1>3, OverOne
  <2>3. Transmit(s, Relay(s, n, p), Taken(n, s))
    BY DEF Forward
  <2>. QED  BY <1>1, <2>1, <2>2, <2>3, SpreadSent
<1>5. PICK ways : ways = {s} \X over
  OBVIOUS
<1>6. PICK m : m = p.data.message
  OBVIOUS
<1>7. m \in Messages
  <2>1. p.data \in Payload["MC"]
    BY <1>1, PacketFields
  <2>2. Payload["MC"] = [message : Messages]
    BY DEF Payload
  <2>. QED  BY <1>6, <2>1, <2>2
<1>8. /\ \A x \in Messages : x # m => \A o \in Servers : heard'[o][x] = heard[o][x]
      /\ \A o \in Servers : o # s => heard'[o][m] = heard[o][m]
      /\ heard'[s][m] = IF heard[s][m] < 2 THEN heard[s][m] + 1 ELSE heard[s][m]
  BY <1>6, <1>7 DEF TypesInv, Ears
<1>9. ASSUME NEW x \in Messages, x # m
      PROVE  Once(x)'
  <2>1. Once(x) /\ said'[x] = said[x] /\ \A o \in Servers : heard'[o][x] = heard[o][x]
        /\ q.data.message # x
    BY <1>3, <1>6, <1>8, <1>9 DEF OnceInv
  <2>. QED  BY <1>4, <2>1, OnceKept
<1>10. Once(m)'
  <2>1. Once(m) /\ said'[m] = said[m]
    BY <1>7 DEF OnceInv
  <2>2. Waits(<<n, s>>, 1, m)
    BY <1>1, <1>6 DEF Waits
  <2>3. /\ said[m] # NoServer
        /\ p.bi => \A o \in Servers : heard[o][m] >= 1 => Refuses(o, p)
        /\ ~p.bi => p.to # Everyone /\ \A o \in Servers : heard[o][m] = 0
    BY <1>1, <2>1, <2>2 DEF Once
  <2>4. heard[s][m] = 0
    <3>1. heard[s][m] \in 0..2
      BY <1>7 DEF TypesInv, Ears
    <3>2. CASE p.bi
      BY <2>3, <3>1, <3>2
    <3>. QED  BY <2>3, <3>2
  <2>5. heard'[s][m] = 1
    BY <1>8, <2>4
  <2>6. Spreads(q, ways, m)
    BY <1>1, <1>3, <1>4, <1>5, <1>7, <2>2, OnceForwarded
  <2>7. \A o \in Servers : heard'[o][m] <= 1
    <3>1. ASSUME NEW o \in Servers
          PROVE  heard'[o][m] <= 1
      <4>1. CASE o = s
        BY <2>5, <4>1
      <4>2. CASE o # s
        BY <1>8, <2>1, <4>2 DEF Once
      <4>. QED  BY <4>1, <4>2
    <3>. QED  BY <3>1
  <2>8. ~p.bi => ways = {} /\ ~q.bi
    <3>1. ASSUME ~p.bi
          PROVE  ways = {} /\ ~q.bi
      <4>1. p.to \in Local(s)
        BY <2>3, <3>1 DEF NeedLocalDelivery
      <4>. QED  BY <1>3, <1>5, <3>1, <4>1
    <3>. QED  BY <3>1
  <2>9. ASSUME q.bi, NEW o \in Servers, heard'[o][m] >= 1
        PROVE  Refuses(o, q)'
    <3>1. p.bi
      BY <2>8, <2>9
    <3>2. Refuses(o, p)'
      <4>1. CASE o = s
        BY <3>1, <4>1 DEF Refuses
      <4>2. CASE o # s
        <5>1. Refuses(o, p)
          BY <1>8, <2>3, <2>9, <3>1, <4>2
        <5>. QED  BY <1>1, <5>1, RefusesKept
      <4>. QED  BY <4>1, <4>2
    <3>. QED  BY <1>3, <3>2 DEF Refuses
  <2>10. ~(~q.bi /\ ways # {})
    BY <1>3, <2>8
  <2>. QED  BY <1>7, <2>1, <2>3, <2>6, <2>7, <2>9, <2>10, OnceSpread
<1>. QED  BY <1>9, <1>10 DEF OnceInv

\* The commands other than MC, and MC where no user is meant.
LEMMA OnceRunQuiet ==
    ASSUME TypesInv, TypesInv', PointersInv, CountsGrow, OnceInv,
           NEW s \in Servers, NEW n \in Peers, wire[<<n, s>>] # <<>>,
           NEW p, p = Head(wire[<<n, s>>]), p.hc <= MaxHops, NEW t, RunCmd(s, n, p, t),
           UNCHANGED said, ~(NeedLocalDelivery(s, p) /\ p.cmd = "MC")
    PROVE  OnceInv'
<1>1. /\ p \in Packets /\ Taken(n, s) \in Wires /\ Reads({<<n, s>>}, Taken(n, s))
  BY TakenType, ReadsOf DEF TypesInv
<1>2. CASE UNCHANGED heard /\ Forward(s, n, p)
  BY <1>2, OnceForward
<1>3. CASE UNCHANGED heard /\ Consume(s, n)
  <2>1. Spread({<<n, s>>}, p, {})
    BY <1>1, <1>3, SpreadRead DEF Consume
  <2>. QED  BY <1>3, <2>1, OnceQuiet
<1>4. CASE ExecLinkdown(s, n, p, t)
  <2>1. PICK sync : sync = <<SyncTo(Neighbours(s))>>
    OBVIOUS
  <2>2. /\ UNCHANGED heard /\ p.cmd = "LINKDOWN"
        /\ Transmit(s, Own(s, sync, Neighbours(s)) \o Relay(s, n, p), Taken(n, s))
    BY <1>4, <2>1 DEF ExecLinkdown
  <2>3. Neighbours(s) \in SUBSET Peers
    BY DEF Neighbours
  <2>4. sync \in Seq(Errands)
    <3>1. SyncTo(Neighbours(s)) \in Errands
      BY <2>3, OrdersGiven
    <3>. QED  BY <2>1, <3>1
  <2>5. Own(s, sync, Neighbours(s)) \in Seq(QuietSends)
    BY <2>3, <2>4, OwnType DEF TypesInv
  <2>6. Relay(s, n, p) \in Seq(QuietSends)
    <3>1. PICK q \in Packets, over \in SUBSET Peers : GoesOn(s, n, p, q, over)
      BY <1>1, RelayFacts
    <3>2. Relay(s, n, p) = <<[packet |-> q, over |-> over]>> /\ q.cmd = p.cmd
      BY <3>1 DEF GoesOn
    <3>3. [packet |-> q, over |-> over] \in QuietSends
      BY <2>2, <3>2 DEF QuietSends, Sends
    <3>. QED  BY <3>2, <3>3
  <2>7. Own(s, sync, Neighbours(s)) \o Relay(s, n, p) \in Seq(QuietSends)
    BY <2>5, <2>6
  <2>. QED  BY <1>1, <2>2, <2>7, OnceSends
<1>5. \/ UNCHANGED heard /\ Forward(s, n, p)
      \/ UNCHANGED heard /\ Consume(s, n)
      \/ ExecLinkdown(s, n, p, t)
  BY DEF RunCmd, ExecTable, ExecAddClient, ExecRmClient, ExecMulticast
<1>. QED  BY <1>2, <1>3, <1>4, <1>5

LEMMA OnceReceive ==
    ASSUME TypesInv, TypesInv', PointersInv, CountsGrow, OnceInv,
           NEW s \in Servers, NEW n \in Peers, Receive(s, n)
    PROVE  OnceInv'
<1>1. PICK p : p = Head(wire[<<n, s>>])
  OBVIOUS
<1>2. /\ wire[<<n, s>>] # <<>>
      /\ UNCHANGED said
      /\ Discard(s, n, p) \/ FromStranger(s, n, p) \/ FromKnown(s, n, p)
  BY <1>1 DEF Receive
<1>3. p \in Packets /\ Reads({<<n, s>>}, Taken(n, s))
  BY <1>1, <1>2, TakenType, ReadsOf DEF TypesInv
<1>4. CASE UNCHANGED heard /\ Consume(s, n)
  <2>1. Spread({<<n, s>>}, p, {})
    BY <1>3, <1>4, SpreadRead DEF Consume
  <2>. QED  BY <1>2, <1>4, <2>1, OnceQuiet
<1>5. CASE Discard(s, n, p)
  BY <1>4, <1>5 DEF Discard
<1>6. CASE FromStranger(s, n, p)
  <2>1. CASE p.cmd = "NOTIFY" /\ RunCmd(s, n, p, table[s])
    <3>1. p.hc <= MaxHops
      BY <1>6 DEF FromStranger
    <3>2. PICK t : t = table[s]
      OBVIOUS
    <3>. QED  BY <1>1, <1>2, <2>1, <3>1, <3>2, OnceRunQuiet
  <2>. QED  BY <1>4, <1>6, <2>1 DEF FromStranger
<1>7. CASE FromKnown(s, n, p)
  <2>1. PICK o : o = p.from
    OBVIOUS
  <2>2. PICK e : e = Rerouted(table[s][o], n, p)
    OBVIOUS
  <2>3. p.hc <= MaxHops /\ o \in DOMAIN table[s] /\ o # s
    BY <1>7, <2>1 DEF FromKnown
  <2>4. table[s][o] \in Entries
    BY <2>3 DEF TypesInv, Typed
  <2>5. e \in Entries /\ e.pcount = table[s][o].pcount
    BY <1>3, <2>2, <2>3, <2>4, FilterTypes, PassedCounts
  <2>6. CASE ~Seen(e, p) /\ RunCmd(s, n, p, With(table[s], o, Passed(e, n, p)))
    <3>1. PICK t : t = With(table[s], o, Passed(e, n, p))
      OBVIOUS
    <3>2. RunCmd(s, n, p, t)
      BY <2>6, <3>1
    <3>3. CASE ~(NeedLocalDelivery(s, p) /\ p.cmd = "MC")
      BY <1>1, <1>2, <2>3, <3>2, <3>3, OnceRunQuiet
    <3>4. CASE NeedLocalDelivery(s, p) /\ p.cmd = "MC"
      <4>1. ExecMulticast(s, n, p, t)
        BY <3>2, <3>4 DEF RunCmd, ExecTable, ExecLinkdown, ExecAddClient, ExecRmClient
      <4>2. /\ Update(s, t) /\ Forward(s, n, p)
            /\ heard' = [heard EXCEPT ![s][p.data.message] = IF @ < 2 THEN @ + 1 ELSE @]
        BY <4>1 DEF ExecMulticast
      <4>3. table'[s] = t
        BY <4>2 DEF Update, TypesInv
      <4>4. o \in DOMAIN t /\ t[o] = Passed(e, n, p)
        BY <3>1 DEF With
      <4>5. Passed(e, n, p).pcount >= e.pcount
        BY <2>3, <2>5, <4>3, <4>4 DEF CountsGrow
      <4>6. p.bi => e.pcount < p.pc /\ Passed(e, n, p).pcount = p.pc
        BY <1>3, <2>3, <2>5, <2>6, <4>5, PassedCounts
      <4>7. e.pcount \in Int /\ p.pc \in Int
        <5>1. p.pc \in 0..(MaxCount + 1)
          BY <1>3, PacketFields
        <5>. QED  BY <2>5, <5>1, FsdAssumption DEF Entries
      <4>8. p.bi => /\ ~Refuses(s, p)
                    /\ p.from \in DOMAIN table'[s] /\ table'[s][p.from].pcount >= p.pc
        BY <2>1, <2>3, <2>5, <4>3, <4>4, <4>6, <4>7 DEF Refuses
      <4>. QED  BY <1>1, <1>2, <2>3, <3>4, <4>2, <4>8, OnceHeard
    <3>. QED  BY <3>3, <3>4
  <2>. QED  BY <1>4, <1>7, <2>1, <2>2, <2>6 DEF FromKnown
<1>. QED  BY <1>2, <1>5, <1>6, <1>7

LEMMA OnceCrash ==
    ASSUME TypesInv, TypesInv', CountsGrow, OnceInv, NEW s \in Servers, Crash(s)
    PROVE  OnceInv'
<1>1. PICK q : q = [cmd |-> "SYNC"]
  OBVIOUS
<1>2. Reads({}, wire')
  BY DEF Crash, Reads, Was
<1>3. Spread({}, q, {})
  BY <1>2, SpreadRead
<1>. QED  BY <1>3, OnceQuiet DEF Crash

\* The old end goes on under another name, with what it has not read.
LEMMA OnceReconnect ==
    ASSUME TypesInv, TypesInv', CountsGrow, OnceInv,
           NEW s \in Servers, NEW n \in Servers, NEW g \in Stubs, Reconnect(s, n, g)
    PROVE  OnceInv'
<1>1. PICK wires : wires = [wire EXCEPT ![<<g, n>>] = wire[<<s, n>>], ![<<s, n>>] = <<>>]
  OBVIOUS
<1>2. PICK sends : sends = Own(s, Feed(s, n), Neighbours(s))
  OBVIOUS
<1>3. Transmit(s, sends, wires) /\ UNCHANGED <<said, heard>>
  BY <1>1, <1>2 DEF Reconnect, NewUser
<1>4. n \in Peers /\ g # s /\ <<s, n>> \in Channels /\ <<g, n>> \in Channels
  BY FsdAssumption DEF Peers, Channels
<1>5. \A l \in Channels : wire[l] \in Seq(Packets)
  BY DEF TypesInv, Wires
<1>6. /\ wires[<<s, n>>] = <<>> /\ wires[<<g, n>>] = wire[<<s, n>>]
      /\ \A l \in Channels \ {<<s, n>>, <<g, n>>} : wires[l] = wire[l]
      /\ \A l \in Channels : wires[l] \in Seq(Packets)
  <2>1. <<s, n>> # <<g, n>>
    BY <1>4
  <2>2. DOMAIN wire = Channels
    BY DEF TypesInv, Wires
  <2>3. /\ wires[<<s, n>>] = <<>> /\ wires[<<g, n>>] = wire[<<s, n>>]
        /\ \A l \in Channels \ {<<s, n>>, <<g, n>>} : wires[l] = wire[l]
    BY <1>1, <1>4, <2>1, <2>2
  <2>4. <<>> \in Seq(Packets)
    OBVIOUS
  <2>. QED  BY <1>4, <1>5, <2>3, <2>4
<1>7. \A x \in Servers : \A i \in DOMAIN Over(sends, x) : Over(sends, x)[i].cmd # "MC"
  <2>1. count \in [Servers -> 0..MaxCount] /\ Neighbours(s) \in SUBSET Peers
    BY DEF TypesInv, Neighbours
  <2>2. sends \in Seq(QuietSends)
    BY <1>2, <1>4, <2>1, FeedType, OwnType
  <2>3. OverOnly(sends, s, {})
    BY <2>2, OverQuiet
  <2>. QED  BY <2>3 DEF OverOnly
<1>8. sends \in Seq(Sends)
  <2>1. count \in [Servers -> 0..MaxCount] /\ Neighbours(s) \in SUBSET Peers
    BY DEF TypesInv, Neighbours
  <2>. QED  BY <1>2, <1>4, <2>1, FeedType, OwnType, ErrandsOrders
<1>9. ASSUME NEW m \in Messages, NEW l \in Channels, NEW j \in DOMAIN wire'[l],
             Waits(l, j, m)', NEW b, b = IF l = <<g, n>> THEN <<s, n>> ELSE l
      PROVE  /\ l # <<s, n>> /\ b \in Channels
             /\ Waits(b, j, m) /\ j \in DOMAIN wire[b] /\ wire'[l][j] = wire[b][j]
  <2>1. wire'[l][j].cmd = "MC" /\ wire'[l][j].data.message = m
    BY <1>9 DEF Waits
  <2>2. j \in DOMAIN wires[l] /\ wire'[l][j] = wires[l][j]
    <3>1. CASE wire'[l] = wires[l]
      BY <3>1
    <3>2. CASE wire'[l] = wires[l] \o Over(sends, l[2])
      <4>1. PICK more : more = Over(sends, l[2])
        OBVIOUS
      <4>2. more \in Seq(Packets)
        BY <1>8, <4>1, OverType
      <4>3. \A i \in DOMAIN more : more[i].cmd # "MC"
        BY <1>7, <4>1 DEF Channels
      <4>4. \A a, c \in Seq(Packets) : \A x \in DOMAIN (a \o c) :
                \/ x \in DOMAIN a /\ (a \o c)[x] = a[x]
                \/ x - Len(a) \in DOMAIN c /\ (a \o c)[x] = c[x - Len(a)]
        OBVIOUS
      <4>5. j \in DOMAIN (wires[l] \o more) /\ wire'[l][j] = (wires[l] \o more)[j]
        BY <3>2, <4>1
      <4>6. \/ j \in DOMAIN wires[l] /\ wire'[l][j] = wires[l][j]
            \/ j - Len(wires[l]) \in DOMAIN more /\ wire'[l][j] = more[j - Len(wires[l])]
        BY <1>6, <4>2, <4>4, <4>5
      <4>. QED  BY <2>1, <4>3, <4>6
    <3>. QED  BY <1>3, <3>1, <3>2 DEF Transmit
  <2>3. l # <<s, n>>
    <3>1. DOMAIN <<>> = {}
      OBVIOUS
    <3>. QED  BY <1>6, <2>2, <3>1
  <2>4. b \in Channels /\ wires[l] = wire[b]
    BY <1>4, <1>6, <1>9, <2>3
  <2>. QED  BY <2>1, <2>2, <2>3, <2>4 DEF Waits
<1>10. ASSUME NEW m \in Messages
       PROVE  Once(m)'
  <2>1. Once(m) /\ said'[m] = said[m] /\ \A o \in Servers : heard'[o][m] = heard[o][m]
    BY <1>3 DEF OnceInv
  <2>2. ASSUME NEW l \in Channels, NEW j \in DOMAIN wire'[l], Waits(l, j, m)',
               NEW x, x = wire'[l][j]
        PROVE  /\ said'[m] # NoServer
               /\ x.bi => \A o \in Servers : heard'[o][m] >= 1 => Refuses(o, x)'
               /\ ~x.bi => x.to # Everyone /\ \A o \in Servers : heard'[o][m] = 0
               /\ \A k \in Channels : \A i \in DOMAIN wire'[k] :
                      Waits(k, i, m)' =>
                          /\ wire'[k][i].from = x.from /\ wire'[k][i].pc = x.pc
                          /\ x.bi \/ (k = l /\ i = j)
    <3>1. PICK b : b = IF l = <<g, n>> THEN <<s, n>> ELSE l
      OBVIOUS
    <3>2. l # <<s, n>> /\ b \in Channels
          /\ Waits(b, j, m) /\ j \in DOMAIN wire[b] /\ x = wire[b][j]
      BY <1>9, <2>2, <3>1
    <3>3. /\ said[m] # NoServer
          /\ x.bi => \A o \in Servers : heard[o][m] >= 1 => Refuses(o, x)
          /\ ~x.bi => x.to # Everyone /\ \A o \in Servers : heard[o][m] = 0
          /\ \A k \in Channels : \A i \in DOMAIN wire[k] :
                 Waits(k, i, m) =>
                     /\ wire[k][i].from = x.from /\ wire[k][i].pc = x.pc
                     /\ x.bi \/ (k = b /\ i = j)
      BY <2>1, <3>2 DEF Once
    <3>4. x \in Packets
      BY <1>5, <3>2
    <3>5. ASSUME x.bi, NEW o \in Servers, heard'[o][m] >= 1
          PROVE  Refuses(o, x)'
      BY <2>1, <3>3, <3>4, <3>5, RefusesKept
    <3>6. ASSUME NEW k \in Channels, NEW i \in DOMAIN wire'[k], Waits(k, i, m)'
          PROVE  /\ wire'[k][i].from = x.from /\ wire'[k][i].pc = x.pc
                 /\ x.bi \/ (k = l /\ i = j)
      <4>1. PICK d : d = IF k = <<g, n>> THEN <<s, n>> ELSE k
        OBVIOUS
      <4>2. k # <<s, n>> /\ d \in Channels
            /\ Waits(d, i, m) /\ i \in DOMAIN wire[d] /\ wire'[k][i] = wire[d][i]
        BY <1>9, <3>6, <4>1
      <4>3. d = b => k = l
        BY <3>1, <3>2, <4>1, <4>2
      <4>. QED  BY <3>3, <4>2, <4>3
    <3>. QED  BY <2>1, <3>3, <3>5, <3>6
  <2>3. said'[m] = NoServer => \A o \in Servers : heard'[o][m] = 0
    BY <2>1 DEF Once
  <2>4. \A o \in Servers : heard'[o][m] <= 1
    BY <2>1 DEF Once
  <2>. QED  BY <2>2, <2>3, <2>4 DEF Once
<1>. QED  BY <1>10 DEF OnceInv

\* s tells those it has dialled to count from 0.
LEMMA OnceStart ==
    ASSUME TypesInv, TypesInv', CountsGrow, OnceInv, NEW s \in Servers, Start(s)
    PROVE  OnceInv'
<1>1. PICK send : send = SendReset(s, count[s], Neighbours(s))
  OBVIOUS
<1>2. send \in QuietSends
  <2>1. PICK x : x = Order("RESET", Everyone, TRUE, Nothing, Neighbours(s))
    OBVIOUS
  <2>2. Neighbours(s) \in SUBSET Peers
    BY DEF Neighbours
  <2>3. x \in Orders /\ x.cmd = "RESET"
    BY <2>1, <2>2, OrdersGiven DEF Errands, Order
  <2>4. MaxCount \in Nat /\ count[s] \in 0..MaxCount
    BY FsdAssumption DEF TypesInv
  <2>5. count[s] \in 0..(MaxCount + 1)
    BY <2>4
  <2>6. Assemble(s, x, count[s]) \in Packets /\ Assemble(s, x, count[s]).cmd = "RESET"
    BY <2>3, <2>5, AssembleType DEF Assemble
  <2>. QED  BY <1>1, <2>1, <2>2, <2>6 DEF SendReset, QuietSends, Sends
<1>3. PICK sends : sends = <<send>>
  OBVIOUS
<1>4. sends \in Seq(QuietSends)
  BY <1>2, <1>3
<1>5. Transmit(s, sends, wire) /\ UNCHANGED <<said, heard>>
  BY <1>1, <1>3 DEF Start
<1>6. s \in Peers /\ wire \in Wires
  BY DEF TypesInv, Peers
<1>7. Reads({}, wire)
  BY <1>6, ReadsOf
<1>. QED  BY <1>4, <1>5, <1>6, <1>7, OnceSends

LEMMA OnceStep ==
    ASSUME TypesInv, TypesInv', PointersInv, OnceInv, CountsGrow, Next
    PROVE  OnceInv'
<1>1. wire \in Wires /\ count \in [Servers -> 0..MaxCount]
  BY DEF TypesInv
<1>2. \A s \in Servers : Neighbours(s) \in SUBSET Peers
  BY DEF Neighbours
<1>3. CASE UNCHANGED <<wire, said, heard>>
  <2>1. PICK q : q = [cmd |-> "SYNC"]
    OBVIOUS
  <2>2. Reads({}, wire')
    BY <1>3 DEF Reads, Was
  <2>3. Spread({}, q, {})
    BY <2>2, SpreadRead
  <2>. QED  BY <1>3, <2>3, OnceQuiet
<1>4. ASSUME NEW s \in Servers, NEW order \in Errands, Announce(s, order),
             UNCHANGED <<said, heard>>
      PROVE  OnceInv'
  <2>1. PICK orders : orders = <<order>>
    OBVIOUS
  <2>2. orders \in Seq(Errands)
    BY <2>1
  <2>3. Own(s, orders, Neighbours(s)) \in Seq(QuietSends)
    BY <1>1, <1>2, <2>2, OwnType
  <2>4. Transmit(s, Own(s, orders, Neighbours(s)), wire)
    BY <1>4, <2>1 DEF Announce
  <2>5. Reads({}, wire)
    BY <1>1, ReadsOf DEF Peers
  <2>. QED  BY <1>1, <1>4, <2>3, <2>4, <2>5, OnceSends
<1>5. ASSUME NEW s \in Servers, Sync(s) \/ Notify(s) \/ Crash(s) \/ Start(s)
      PROVE  OnceInv'
  <2>1. SyncTo(Neighbours(s)) \in Errands /\ NotifyTo(s, FALSE, Neighbours(s)) \in Errands
    BY <1>2, OrdersGiven
  <2>2. CASE Sync(s)
    BY <1>4, <2>1, <2>2 DEF Sync
  <2>3. CASE Notify(s)
    BY <1>4, <2>1, <2>3 DEF Notify
  <2>. QED  BY <1>5, <2>2, <2>3, OnceCrash, OnceStart
<1>6. ASSUME NEW s \in Servers, NEW c \in Callsigns,
             Login(s, c) \/ Logout(s, c) \/ ClientTimeout(s, c)
      PROVE  OnceInv'
  <2>1. /\ AddClientTo(c, s, TRUE, Neighbours(s)) \in Errands
        /\ Order("RMCLIENT", Everyone, TRUE, [callsign |-> c], Neighbours(s)) \in Errands
    BY <1>2, OrdersGiven
  <2>2. CASE Login(s, c)
    BY <1>4, <2>1, <2>2 DEF Login
  <2>3. CASE Logout(s, c)
    BY <1>4, <2>1, <2>3 DEF Logout
  <2>4. CASE ClientTimeout(s, c)
    BY <1>3, <2>4 DEF ClientTimeout
  <2>. QED  BY <1>6, <2>2, <2>3, <2>4
<1>7. ASSUME NEW s \in Servers, NEW n \in Peers, Connect(s, n) \/ Accept(s, n)
      PROVE  OnceInv'
  <2>1. /\ UNCHANGED <<said, heard>>
        /\ Transmit(s, Own(s, Feed(s, n), Neighbours(s)), wire)
    BY <1>7 DEF Connect, Accept, NewUser
  <2>2. Own(s, Feed(s, n), Neighbours(s)) \in Seq(QuietSends)
    BY <1>1, <1>2, FeedType, OwnType
  <2>3. Reads({}, wire)
    BY <1>1, ReadsOf DEF Peers
  <2>. QED  BY <1>1, <2>1, <2>2, <2>3, OnceSends
<1>8. ASSUME NEW s \in Servers, NEW n \in Peers, Fail(s, n) \/ Close(s, n)
      PROVE  OnceInv'
  <2>1. PICK gone : gone = {o \in DOMAIN table[s] : table[s][o].path = n}
    OBVIOUS
  <2>2. PICK others : others = Neighbours(s) \ {n}
    OBVIOUS
  <2>3. PICK orders : orders = (IF gone = {} THEN <<>> ELSE <<LinkdownTo(gone, others)>>)
                                   \o <<SyncTo(others)>>
    OBVIOUS
  <2>4. /\ UNCHANGED <<said, heard>>
        /\ Transmit(s, Own(s, orders, others), [wire EXCEPT ![<<n, s>>] = <<>>])
    BY <1>8, <2>1, <2>2, <2>3 DEF Fail, Close, RemoveUser
  <2>5. others \in SUBSET Peers /\ gone \in SUBSET Servers
    BY <2>1, <2>2 DEF Neighbours, TypesInv, Typed
  <2>6. orders \in Seq(Errands)
    <3>1. LinkdownTo(gone, others) \in Errands /\ SyncTo(others) \in Errands
      BY <2>5, OrdersGiven
    <3>2. /\ <<LinkdownTo(gone, others)>> \in Seq(Errands)
          /\ <<SyncTo(others)>> \in Seq(Errands)
          /\ <<>> \in Seq(Errands)
      BY <3>1
    <3>3. \A a, b \in Seq(Errands) : a \o b \in Seq(Errands)
      OBVIOUS
    <3>. QED  BY <2>3, <3>2, <3>3
  <2>7. Own(s, orders, others) \in Seq(QuietSends)
    BY <1>1, <2>5, <2>6, OwnType
  <2>8. [wire EXCEPT ![<<n, s>>] = <<>>] \in Wires
    <3>1. <<>> \in Seq(Packets)
      OBVIOUS
    <3>. QED  BY <1>1, <3>1 DEF Wires
  <2>9. Reads({}, [wire EXCEPT ![<<n, s>>] = <<>>])
    BY <1>1, ReadsOf DEF Peers
  <2>. QED  BY <2>4, <2>7, <2>8, <2>9, OnceSends
<1>9. ASSUME NEW s \in Servers, NEW o \in Servers, Connect(s, o) \/ ServerTimeout(s, o)
      PROVE  OnceInv'
  <2>1. CASE ServerTimeout(s, o)
    BY <1>3, <2>1 DEF ServerTimeout
  <2>. QED  BY <1>7, <1>9, <2>1 DEF Peers
<1>. QED  BY <1>5, <1>6, <1>7, <1>8, <1>9, OnceReconnect, OnceReceive, OnceSay DEF Next

LEMMA OnceInit == Init => OnceInv
<1>. SUFFICES ASSUME Init, NEW m \in Messages
              PROVE  Once(m)
  BY DEF OnceInv
<1>1. \A l \in Channels : \A i \in DOMAIN wire[l] : ~Waits(l, i, m)
  <2>1. DOMAIN <<>> = {}
    OBVIOUS
  <2>. QED  BY <2>1 DEF Init, Waits
<1>2. \A s \in Servers : heard[s][m] = 0
  BY DEF Init
<1>. QED  BY <1>1, <1>2 DEF Once

(***************************************************************************)
(* In any network, with any traffic: as long as no server's packet counts  *)
(* of the others go back, no user hears a message twice, whether it is for *)
(* everybody or for one user.                                              *)
(***************************************************************************)
THEOREM HeardOnceCorrect == Spec /\ [][CountsGrow]_netVars => []HeardOnce
<1>1. OnceInv => HeardOnce
  BY DEF OnceInv, Once, HeardOnce
<1>2. TypesInv /\ TypesInv' /\ PointersInv /\ OnceInv /\ [Next]_netVars
          /\ [CountsGrow]_netVars => OnceInv'
  <2>1. CASE UNCHANGED netVars
    BY <2>1 DEF netVars, OnceInv, Once, Waits, Refuses
  <2>. QED  BY <2>1, OnceStep
<1>3. Spec => []TypesInv
  BY TypesCorrect
<1>. QED  BY <1>1, <1>2, <1>3, OnceInit, PointersCorrect, PTL DEF Spec
-----------------------------------------------------------------------------
(***************************************************************************)
(* When the counts go back.  There are three ways only: a server loses a   *)
(* route, it has dropped so many packets of another one that it gives in,  *)
(* or a RESET reaches it.                                                  *)
(***************************************************************************)
RoutesKept ==
    \A s \in Servers : \A o \in DOMAIN table[s] :
        /\ o \in DOMAIN table'[s]
        /\ table[s][o].path # NoServer => table'[s][o].path # NoServer

NoneGivesIn == \A s \in Servers : \A o \in DOMAIN table[s] : table[s][o].drops < DropLimit

NoReset ==
    \A l \in Channels : \A i \in DOMAIN wire[l] : wire[l][i].cmd # "RESET"

\* From t to u no count goes back, but those of the routes that u has lost.
Ahead(t, u) ==
    \A o \in DOMAIN t \cap DOMAIN u :
        u[o].path = NoServer \/ u[o].pcount >= t[o].pcount

LEMMA AheadSame ==
    ASSUME NEW t, NEW s, Typed(t, s)
    PROVE  Ahead(t, t)
<1>1. \A e \in Entries : e.pcount \in Int
  BY FsdAssumption DEF Entries
<1>. QED  BY <1>1 DEF Typed, Ahead

LEMMA AheadWith ==
    ASSUME NEW t, NEW s, Typed(t, s), NEW o, NEW e \in Entries,
           o \in DOMAIN t => e.pcount >= t[o].pcount
    PROVE  Ahead(t, With(t, o, e))
<1>1. \A x \in Entries : x.pcount \in Int
  BY FsdAssumption DEF Entries
<1>. QED  BY <1>1 DEF Typed, Ahead, With

LEMMA AheadTwice ==
    ASSUME NEW t, NEW u, NEW v, NEW s, Typed(t, s), Typed(u, s), Typed(v, s),
           DOMAIN t \subseteq DOMAIN u, \A o \in DOMAIN t : u[o].pcount >= t[o].pcount,
           Ahead(u, v)
    PROVE  Ahead(t, v)
<1>1. \A x \in Entries : x.pcount \in Int
  BY FsdAssumption DEF Entries
<1>. QED  BY <1>1 DEF Typed, Ahead

LEMMA AheadCleared ==
    ASSUME NEW t, NEW s, NEW gone, Typed(t, s)
    PROVE  Ahead(t, [o \in DOMAIN t |-> IF o \in gone THEN Unrouted(t[o]) ELSE t[o]])
<1>1. \A x \in Entries : x.pcount \in Int
  BY FsdAssumption DEF Entries
<1>2. ASSUME NEW e \in Entries
      PROVE  Unrouted(e).path = NoServer
  BY DEF Unrouted, SetPath, Entries
<1>. QED  BY <1>1, <1>2 DEF Typed, Ahead

\* A new route leaves the count alone.
LEMMA RoutedCount ==
    ASSUME NEW e \in Entries, NEW n \in Peers, NEW h
    PROVE  SetPath(e, n, h).pcount = e.pcount
<1>1. n # NoServer
  BY FsdAssumption DEF Peers
<1>2. e = [path |-> e.path, hops |-> e.hops, pcount |-> e.pcount, drops |-> e.drops]
  BY DEF Entries
<1>3. SetPath(e, n, h) = [e EXCEPT !.path = n, !.hops = h, !.pcount = e.pcount]
  BY <1>1 DEF SetPath
<1>4. SetPath(e, n, h) =
          [path |-> n, hops |-> h, pcount |-> e.pcount, drops |-> e.drops]
  BY <1>2, <1>3
<1>. QED  BY <1>4

LEMMA AheadTabled ==
    ASSUME NEW t, NEW s \in Servers, NEW n \in Peers, NEW p \in Packets,
           Typed(t, s), p.hc <= MaxHops, p.cmd # "RESET"
    PROVE  Ahead(t, Tabled(s, n, p, t))
<1>1. CASE p.cmd = "NOTIFY"
  <2>1. PICK o : o = p.data.server
    OBVIOUS
  <2>2. PICK e : e = IF o \in DOMAIN t THEN t[o] ELSE Fresh
    OBVIOUS
  <2>3. PICK f : f = IF p.data.feed \/ (e.hops > NoHops /\ p.hc >= e.hops) THEN e
                     ELSE SetPath(e, n, p.hc)
    OBVIOUS
  <2>4. Tabled(s, n, p, t) = IF o = s THEN t ELSE With(t, o, f)
    BY <1>1, <2>1, <2>2, <2>3 DEF Tabled, Notified
  <2>5. e \in Entries
    BY <2>2, EntryTypes DEF Typed
  <2>6. f.pcount = e.pcount
    BY <2>3, <2>5, RoutedCount
  <2>7. f \in Entries
    <3>1. p.hc \in NoHops..MaxHops
      <4>1. p.hc \in 1..(MaxHops + 1)
        BY PacketFields
      <4>. QED  BY <4>1, FsdAssumption DEF NoHops
    <3>. QED  BY <2>3, <2>5, <3>1, EntryTypes
  <2>8. o \in DOMAIN t => f.pcount >= t[o].pcount
    <3>1. e.pcount \in Int
      BY <2>5, FsdAssumption DEF Entries
    <3>. QED  BY <2>2, <2>6, <3>1
  <2>. QED  BY <2>4, <2>7, <2>8, AheadSame, AheadWith
<1>2. CASE p.cmd # "NOTIFY"
  <2>1. Tabled(s, n, p, t) = t
    BY <1>2 DEF Tabled
  <2>. QED  BY <2>1, AheadSame
<1>. QED  BY <1>1, <1>2

\* The table that s writes when it acts on p.
LEMMA AheadRun ==
    ASSUME TypesInv, PointersInv, NEW s \in Servers, NEW n \in Peers,
           NEW p \in Packets, p.hc <= MaxHops, p.cmd # "RESET",
           NEW t, Typed(t, s), RunCmd(s, n, p, t)
    PROVE  \E u : Update(s, u) /\ Typed(u, s) /\ Ahead(t, u)
<1>1. CASE Update(s, t)
  BY <1>1, AheadSame
<1>2. CASE Update(s, Tabled(s, n, p, t))
  BY <1>2, AheadTabled, TabledTyped
<1>3. CASE Update(s, Downed(n, p, t))
  <2>1. PICK gone : gone = {o \in DOMAIN t : o \in p.data.servers /\ t[o].path = n}
    OBVIOUS
  <2>2. Downed(n, p, t) = [o \in DOMAIN t |-> IF o \in gone THEN Unrouted(t[o]) ELSE t[o]]
    BY <2>1 DEF Downed
  <2>3. Typed(Downed(n, p, t), s) /\ Ahead(t, Downed(n, p, t))
    BY <2>2, ClearedTyped, AheadCleared
  <2>. QED  BY <1>3, <2>3
<1>4. Update(s, t) \/ Update(s, Tabled(s, n, p, t)) \/ Update(s, Downed(n, p, t))
  BY DEF RunCmd, ExecTable, ExecLinkdown, ExecAddClient, ExecRmClient, ExecMulticast
<1>. QED  BY <1>1, <1>2, <1>3, <1>4

LEMMA AheadReceive ==
    ASSUME TypesInv, PointersInv, NoneGivesIn, NoReset,
           NEW s \in Servers, NEW n \in Peers, Receive(s, n)
    PROVE  \E u : Update(s, u) /\ Typed(u, s) /\ Ahead(table[s], u)
<1>1. PICK p : p = Head(wire[<<n, s>>])
  OBVIOUS
<1>2. PICK t : t = table[s]
  OBVIOUS
<1>3. /\ wire[<<n, s>>] # <<>>
      /\ Discard(s, n, p) \/ FromStranger(s, n, p) \/ FromKnown(s, n, p)
  BY <1>1 DEF Receive
<1>4. p \in Packets /\ p.cmd # "RESET"
  <2>1. wire[<<n, s>>] \in Seq(Packets) /\ <<n, s>> \in Channels
    BY DEF TypesInv, Wires, Channels
  <2>2. 1 \in DOMAIN wire[<<n, s>>] /\ p = wire[<<n, s>>][1] /\ p \in Packets
    BY <1>1, <1>3, <2>1
  <2>. QED  BY <2>1, <2>2 DEF NoReset
<1>5. Typed(t, s)
  BY <1>2 DEF TypesInv
<1>6. CASE UNCHANGED table
  <2>1. Update(s, t)
    BY <1>2, <1>6 DEF TypesInv, Update
  <2>. QED  BY <1>2, <1>5, <2>1, AheadSame
<1>7. CASE p.hc <= MaxHops /\ RunCmd(s, n, p, t)
  BY <1>2, <1>4, <1>5, <1>7, AheadRun
<1>8. CASE FromKnown(s, n, p)
  <2>1. p.hc <= MaxHops /\ p.from \in DOMAIN t
    BY <1>2, <1>8 DEF FromKnown
  <2>2. PICK d : d = t[p.from]
    OBVIOUS
  <2>3. PICK e : e = Rerouted(d, n, p)
    OBVIOUS
  <2>4. d \in Entries /\ d.drops < DropLimit /\ p.from \in Servers
    BY <1>2, <1>5, <2>1, <2>2 DEF Typed, NoneGivesIn
  <2>5. e \in Entries /\ e.pcount = d.pcount /\ e.drops = d.drops
    <3>1. e \in Entries /\ e.pcount = d.pcount
      BY <1>4, <2>1, <2>3, <2>4, FilterTypes, PassedCounts
    <3>2. e.drops = d.drops
      BY <2>3, <2>4 DEF Rerouted, SetPath, Entries
    <3>. QED  BY <3>1, <3>2
  <2>6. d.pcount \in Int
    BY <2>4, FsdAssumption DEF Entries
  <2>7. CASE Update(s, With(t, p.from, DropCounted(e)))
    <3>1. DropCounted(e) \in Entries
      BY <2>5, EntryTypes
    <3>2. DropCounted(e).pcount = e.pcount
      BY <2>5 DEF DropCounted, Entries
    <3>3. DropCounted(e).pcount >= t[p.from].pcount
      BY <2>2, <2>5, <2>6, <3>2
    <3>. QED  BY <1>2, <1>5, <2>4, <2>7, <3>1, <3>3, WithTyped, AheadWith
  <2>8. CASE RunCmd(s, n, p, With(t, p.from, Passed(e, n, p)))
    <3>1. PICK f : f = Passed(e, n, p)
      OBVIOUS
    <3>2. f \in Entries
      BY <1>4, <2>1, <2>5, <3>1, FilterTypes
    <3>3. f.pcount >= d.pcount
      <4>1. PICK k : k = IF p.pc > e.pcount THEN p.pc ELSE e.pcount
        OBVIOUS
      <4>2. PICK c : c = [e EXCEPT !.pcount = k]
        OBVIOUS
      <4>3. p.pc \in 0..(MaxCount + 1)
        BY <1>4, PacketFields
      <4>4. ~(e.drops >= DropLimit)
        BY <2>4, <2>5, FsdAssumption DEF Entries
      <4>5. f = IF p.bi THEN [SetPath(c, n, p.hc) EXCEPT !.drops = 0] ELSE c
        BY <3>1, <4>1, <4>2, <4>4 DEF Passed
      <4>6. k \in -1..(MaxCount + 1) /\ k >= d.pcount
        BY <2>5, <2>6, <4>1, <4>3 DEF Entries
      <4>7. c \in Entries /\ c.pcount = k
        BY <2>5, <4>2, <4>6 DEF Entries
      <4>8. SetPath(c, n, p.hc).pcount = k /\ SetPath(c, n, p.hc) \in Entries
        <5>1. p.hc \in NoHops..MaxHops
          <6>1. p.hc \in 1..(MaxHops + 1)
            BY <1>4, PacketFields
          <6>. QED  BY <2>1, <6>1, FsdAssumption DEF NoHops
        <5>. QED  BY <4>7, <5>1, RoutedCount, EntryTypes
      <4>9. [SetPath(c, n, p.hc) EXCEPT !.drops = 0].pcount = k
        BY <4>8 DEF Entries
      <4>10. f.pcount = k
        BY <4>5, <4>7, <4>9
      <4>. QED  BY <4>6, <4>10
    <3>4. PICK v : v = With(t, p.from, f)
      OBVIOUS
    <3>5. Typed(v, s)
      BY <1>5, <2>4, <3>2, <3>4, WithTyped
    <3>6. PICK u : Update(s, u) /\ Typed(u, s) /\ Ahead(v, u)
      <4>1. RunCmd(s, n, p, v)
        BY <2>8, <3>1, <3>4
      <4>. QED  BY <1>4, <2>1, <3>5, <4>1, AheadRun
    <3>7. DOMAIN t \subseteq DOMAIN v /\ \A o \in DOMAIN t : v[o].pcount >= t[o].pcount
      <4>1. \A o \in DOMAIN t : t[o].pcount \in Int
        BY <1>5, FsdAssumption DEF Typed, Entries
      <4>. QED  BY <2>2, <3>3, <3>4, <4>1 DEF With
    <3>8. Ahead(t, u)
      BY <1>5, <3>5, <3>6, <3>7, AheadTwice
    <3>. QED  BY <1>2, <3>6, <3>8
  <2>. QED  BY <1>2, <1>8, <2>2, <2>3, <2>7, <2>8 DEF FromKnown
<1>. QED  BY <1>2, <1>3, <1>6, <1>7, <1>8 DEF Discard, FromStranger

\* A server's table after any step, if it keeps its routes.
LEMMA CountsStep ==
    ASSUME TypesInv, TypesInv', PointersInv, Next, RoutesKept, NoneGivesIn, NoReset
    PROVE  CountsGrow
<1>1. \A x \in Entries : x.pcount \in -1..(MaxCount + 1)
  BY DEF Entries
<1>2. ASSUME NEW s \in Servers, Ahead(table[s], table'[s])
      PROVE  \A o \in DOMAIN table[s] :
                o \in DOMAIN table'[s] /\ table'[s][o].pcount >= table[s][o].pcount
  <2>1. SUFFICES ASSUME NEW o \in DOMAIN table[s]
                 PROVE  o \in DOMAIN table'[s] /\ table'[s][o].pcount >= table[s][o].pcount
    OBVIOUS
  <2>2. /\ o \in DOMAIN table'[s]
        /\ table[s][o].path # NoServer => table'[s][o].path # NoServer
    BY DEF RoutesKept
  <2>3. table[s][o].pcount \in -1..(MaxCount + 1) /\ table'[s][o].pcount \in -1..(MaxCount + 1)
    BY <1>1, <2>2 DEF TypesInv, Typed
  <2>4. table[s][o].path = NoServer => table[s][o].pcount = -1
    BY DEF PointersInv, Good, Sound
  <2>5. table'[s][o].path = NoServer \/ table'[s][o].pcount >= table[s][o].pcount
    BY <1>2, <2>2 DEF Ahead
  <2>6. CASE table[s][o].path = NoServer
    BY <2>2, <2>3, <2>4, <2>6
  <2>. QED  BY <2>2, <2>5, <2>6
<1>3. ASSUME NEW s \in Servers
      PROVE  Ahead(table[s], table[s])
  BY AheadSame DEF TypesInv
<1>4. CASE UNCHANGED table
  BY <1>2, <1>3, <1>4 DEF CountsGrow
<1>5. ASSUME NEW s \in Servers, NEW u, Update(s, u), Ahead(table[s], u)
      PROVE  CountsGrow
  <2>1. /\ table'[s] = u
        /\ \A o \in Servers : o # s => table'[o] = table[o]
    BY <1>5 DEF TypesInv, Update
  <2>2. ASSUME NEW o \in Servers
        PROVE  Ahead(table[o], table'[o])
    <3>1. CASE o = s
      BY <1>5, <2>1, <3>1
    <3>2. CASE o # s
      BY <1>3, <2>1, <3>2
    <3>. QED  BY <3>1, <3>2
  <2>. QED  BY <1>2, <2>2 DEF CountsGrow
<1>6. ASSUME NEW s \in Servers, Sync(s) \/ Notify(s) \/ Crash(s) \/ Start(s)
      PROVE  CountsGrow
  <2>1. CASE Crash(s)
    <3>1. PICK u : u = [o \in {s} |-> Fresh]
      OBVIOUS
    <3>2. Update(s, u)
      BY <2>1, <3>1 DEF Crash, Update
    <3>3. Fresh.path = NoServer
      BY DEF Fresh
    <3>4. Ahead(table[s], u)
      BY <3>1, <3>3 DEF Ahead
    <3>. QED  BY <1>5, <3>2, <3>4
  <2>. QED  BY <1>4, <1>6, <2>1 DEF Sync, Notify, Start
<1>7. ASSUME NEW s \in Servers, NEW n \in Peers, Fail(s, n) \/ Close(s, n)
      PROVE  CountsGrow
  <2>1. PICK gone : gone = {o \in DOMAIN table[s] : table[s][o].path = n}
    OBVIOUS
  <2>2. PICK u : u = [o \in DOMAIN table[s] |->
                         IF o \in gone THEN Unrouted(table[s][o]) ELSE table[s][o]]
    OBVIOUS
  <2>3. Update(s, u)
    BY <1>7, <2>1, <2>2 DEF Fail, Close, RemoveUser, Update
  <2>4. Typed(table[s], s)
    BY DEF TypesInv
  <2>5. Ahead(table[s], u)
    BY <2>2, <2>4, AheadCleared
  <2>. QED  BY <1>5, <2>3, <2>5
<1>8. ASSUME NEW s \in Servers, NEW n \in Servers, ServerTimeout(s, n)
      PROVE  CountsGrow
  <2>1. n \in DOMAIN table[s] /\ table' = [table EXCEPT ![s] = [x \in DOMAIN @ \ {n} |-> @[x]]]
    BY <1>8 DEF ServerTimeout
  <2>2. n \notin DOMAIN table'[s]
    BY <2>1 DEF TypesInv
  <2>. QED  BY <2>1, <2>2 DEF RoutesKept
<1>9. ASSUME NEW s \in Servers, NEW n \in Peers, Receive(s, n)
      PROVE  CountsGrow
  BY <1>5, <1>9, AheadReceive
<1>10. ASSUME NEW s \in Servers, NEW n \in Peers, Connect(s, n) \/ Accept(s, n)
       PROVE  CountsGrow
  BY <1>4, <1>10 DEF Connect, Accept
<1>11. ASSUME NEW s \in Servers, NEW n \in Servers, NEW g \in Stubs, Reconnect(s, n, g)
       PROVE  CountsGrow
  <2>1. PICK u : u = [o \in DOMAIN table[n] |->
                         IF table[n][o].path = s THEN [table[n][o] EXCEPT !.path = g]
                         ELSE table[n][o]]
    OBVIOUS
  <2>2. Update(n, u)
    BY <1>11, <2>1 DEF Reconnect, Update
  <2>3. ASSUME NEW o \in DOMAIN table[n]
        PROVE  u[o].pcount >= table[n][o].pcount
    <3>1. table[n][o] \in Entries
      BY DEF TypesInv, Typed
    <3>2. u[o].pcount = table[n][o].pcount /\ table[n][o].pcount \in Int
      BY <2>1, <3>1, FsdAssumption DEF Entries
    <3>. QED  BY <3>2
  <2>4. Ahead(table[n], u)
    BY <2>3 DEF Ahead
  <2>. QED  BY <1>5, <2>2, <2>4
<1>12. ASSUME NEW s \in Servers, NEW c \in Callsigns,
              Login(s, c) \/ Logout(s, c) \/ ClientTimeout(s, c)
       PROVE  CountsGrow
  BY <1>4, <1>12 DEF Login, Logout, ClientTimeout
<1>13. ASSUME NEW s \in Servers, NEW m \in Messages, Say(s, m)
       PROVE  CountsGrow
  BY <1>4, <1>13 DEF Say
<1>. QED  BY <1>6, <1>7, <1>8, <1>9, <1>10, <1>11, <1>12, <1>13 DEF Next, Peers

(***************************************************************************)
(* The counts go back in no other way, ...                                 *)
(***************************************************************************)
THEOREM CountsCorrect ==
    Spec => [][RoutesKept /\ NoneGivesIn /\ NoReset => CountsGrow]_netVars
<1>1. TypesInv /\ TypesInv' /\ PointersInv /\ [Next]_netVars
          => [RoutesKept /\ NoneGivesIn /\ NoReset => CountsGrow]_netVars
  BY CountsStep
<1>. QED  BY <1>1, TypesCorrect, PointersCorrect, PTL DEF Spec

(***************************************************************************)
(* ... so while every route stands, no server gives in and no count runs   *)
(* out, which the servers can see for themselves, no message is heard      *)
(* twice.                                                                  *)
(***************************************************************************)
THEOREM HeardOnceInPeace ==
    Spec /\ [](NoneGivesIn /\ NoReset) /\ [][RoutesKept]_netVars => []HeardOnce
<1>. QED  BY CountsCorrect, HeardOnceCorrect, PTL
=============================================================================
