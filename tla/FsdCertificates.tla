--------------------------- MODULE FsdCertificates ---------------------------
(***************************************************************************)
(* The certificates of a network of FSD servers (src/fsd-server/fsd): who  *)
(* may log in, with which password and up to which level.  Every server    *)
(* keeps a copy.  A copy changes by the commands of its administrator, by  *)
(* its certificate file, by what other servers flood, and by what a new    *)
(* neighbour feeds.  A certificate carries the second at which it was      *)
(* changed last, and the server at which that was (origin).  The seconds   *)
(* are those of the server's own host, in the host's own time zone.        *)
(*                                                                         *)
(* links, knocks, wire and the stubs are as in FsdNetwork; the packets     *)
(* that are not CERT packets are left out.  The networks here have no      *)
(* cycle, so the packet count filter of FsdNetwork has no copies to drop;  *)
(* what it drops besides, when a server has started again or counts anew,  *)
(* is any packet here (Ignore).                                            *)
(***************************************************************************)
EXTENDS Integers, Sequences, FiniteSets, SequencesExt

CONSTANTS
    Servers, Cids, Passwords, Levels,
    Stubs,        \* names for ends whose other side is gone, a bound on them
    Trusted,      \* Trusted[s]: the list "certificates" of the hosts group of s
    Topology,     \* <<s, t>>: s is configured to connect to t
    Offset,       \* Offset[s]: how far the time at s is ahead of the clock
    MaxClock,     \* the last second
    Budget        \* how often the environment does each thing

Chores == {"command", "file", "connect", "fail", "crash", "drop"}

ASSUME CertificatesAssumption ==
    /\ IsFiniteSet(Cids)
    /\ Trusted \in [Servers -> SUBSET Servers]
    /\ Servers \cap Stubs = {}
    /\ Topology \subseteq Servers \X Servers
    /\ \A l \in Topology : <<l[2], l[1]>> \notin Topology
    /\ Offset \in [Servers -> Nat]
    /\ MaxClock \in Nat
    /\ Budget \in [Chores -> Nat]

\* Seen from a, every connection has one end that is nearer to a, its up.
Rooted(a, up) ==
    /\ up[a] = a
    /\ \A l \in Topology : (up[l[1]] = l[2]) # (up[l[2]] = l[1])

\* A server on a cycle would not be able to be the root.
ASSUME NoCycles == \A a \in Servers : \E up \in [Servers -> Servers] : Rooted(a, up)

VARIABLES
    certs,        \* certs[s]: rootcert of s, a function of the cids it knows
    file,         \* file[s]: the certificate file of s
    clock,        \* the time at the host that is furthest behind, in seconds
    links,        \* the ends of connections that are open
    knocks,       \* <<n, s>>: s has connected to n, and n has not accepted yet
    wire,         \* wire[<<s, n>>]: the packets from s that n has not read
    issued,       \* the certificates that were ever made, with their cids
    authors,      \* the servers at which a command or a file changed something
    deleted,      \* the cids of which a server has deleted its certificate
    backdated,    \* the cids of which one was replaced by one of an earlier time
    dropped,      \* the cids of packets that were ignored
    lost,         \* a connection or a server has failed, or a packet was ignored
    left          \* what is left of the budget

net == <<links, knocks, wire>>

history == <<issued, authors, deleted, backdated, dropped, lost>>

vars == <<certs, file, clock, net, history, left>>

\* The names a server may have for the other side of a connection.
Peers == Servers \cup Stubs

\* Who writes, and who reads.
Channels == Peers \X Servers

Lines == [password : Passwords, level : Levels]

Files == UNION {[cids -> Lines] : cids \in SUBSET Cids}

Certificates ==
    [password : Passwords, level : Levels, creation : Nat, origin : Servers]

Empty == [c \in {} |-> 0]

With(f, c, x) == [d \in DOMAIN f \cup {c} |-> IF d = c THEN x ELSE f[d]]

Without(f, c) == [d \in DOMAIN f \ {c} |-> f[d]]

\* The time at s: what its host says it is, shifted by the zone of the host.
mgmtime(s) == clock + Offset[s]

\* What s makes of a line of its file, or of a command, now.
Made(s, password, level) ==
    [password |-> password, level |-> level, creation |-> mgmtime(s), origin |-> s]

Databases == UNION {[cids -> Certificates] : cids \in SUBSET Cids}

Packets ==
    [from : Servers, mode : {"add", "delete", "modify"}, cid : Cids, cert : Certificates]

\* A CERT packet of s.
Cert(s, mode, c, x) == [from |-> s, mode |-> mode, cid |-> c, cert |-> x]

Neighbours(s) == {n \in Peers : <<s, n>> \in links}

\* What is written to a connection whose other end is gone is lost.
Transmit(s, packets, to, wires) ==
    wire' = [l \in Channels |->
                IF l[1] = s /\ l[2] \in to /\ <<l[2], s>> \in links' \cup knocks'
                THEN wires[l] \o packets ELSE wires[l]]

Spend(what) ==
    /\ left[what] > 0
    /\ left' = [left EXCEPT ![what] = @ - 1]

\* The certificates of db, with their cids.
Listed(db) == {[cid |-> c, cert |-> db[c]] : c \in DOMAIN db}

\* s carries out changes of its own, one packet each, and tells its neighbours.
Issue(s, db, packets) ==
    /\ certs' = [certs EXCEPT ![s] = db]
    /\ issued' = issued \cup Listed(db)
    /\ authors' = authors \cup (IF packets = <<>> THEN {} ELSE {s})
    /\ deleted' = deleted \cup (DOMAIN certs[s] \ DOMAIN db)
    /\ backdated' = backdated \cup {c \in DOMAIN certs[s] \cap DOMAIN db :
                                       db[c].creation < certs[s][c].creation}
    /\ UNCHANGED <<clock, links, knocks, dropped, lost>>
    /\ Transmit(s, packets, Neighbours(s), wire)

Tick ==
    /\ clock < MaxClock
    /\ clock' = clock + 1
    /\ UNCHANGED <<certs, file, net, history, left>>
-----------------------------------------------------------------------------
(***************************************************************************)
(* The administrator of s: sysuser::execcert.                              *)
(***************************************************************************)
Add(s, c, password, level) ==
    /\ Spend("command")
    /\ c \notin DOMAIN certs[s]
    /\ UNCHANGED file
    /\ LET x == Made(s, password, level)
       IN  Issue(s, With(certs[s], c, x), <<Cert(s, "add", c, x)>>)

Delete(s, c) ==
    /\ Spend("command")
    /\ c \in DOMAIN certs[s]
    /\ UNCHANGED file
    /\ Issue(s, Without(certs[s], c), <<Cert(s, "delete", c, certs[s][c])>>)

\* The password stays.
Modify(s, c, level) ==
    /\ Spend("command")
    /\ c \in DOMAIN certs[s]
    /\ UNCHANGED file
    /\ LET x == Made(s, certs[s][c].password, level)
       IN  Issue(s, With(certs[s], c, x), <<Cert(s, "modify", c, x)>>)

(***************************************************************************)
(* readcert: afterwards s has the certificates of its file and no others.  *)
(* What stays as it was is not touched, the rest is new.                   *)
(***************************************************************************)
Unchanged(s, f) ==
    {c \in DOMAIN f \cap DOMAIN certs[s] :
        f[c].password = certs[s][c].password /\ f[c].level = certs[s][c].level}

\* Mutant: what the file does not mention is not deleted.
ReadFromKeepsOthers(s, f) ==
    [c \in DOMAIN f \cup DOMAIN certs[s] |->
        IF c \in (DOMAIN certs[s] \ DOMAIN f) \cup Unchanged(s, f) THEN certs[s][c]
        ELSE Made(s, f[c].password, f[c].level)]

ReadFrom(s, f) ==
    [c \in DOMAIN f |-> IF c \in Unchanged(s, f) THEN certs[s][c]
                        ELSE Made(s, f[c].password, f[c].level)]

\* The packets: the lines of the file first, then what it does not mention.
Changes(s, f) ==
    LET db   == ReadFrom(s, f)
        new  == SetToSeq(DOMAIN f \ Unchanged(s, f))
        gone == SetToSeq(DOMAIN certs[s] \ DOMAIN f)
    IN  [i \in DOMAIN new |->
            Cert(s, IF new[i] \in DOMAIN certs[s] THEN "modify" ELSE "add",
                 new[i], db[new[i]])]
        \o [i \in DOMAIN gone |-> Cert(s, "delete", gone[i], certs[s][gone[i]])]

\* The file of s has been edited, and s finds a new time of modification.
ReadCert(s, f) ==
    /\ Spend("file")
    /\ file' = [file EXCEPT ![s] = f]
    /\ Issue(s, ReadFrom(s, f), Changes(s, f))
-----------------------------------------------------------------------------
(***************************************************************************)
(* Receiving: servuser::execcert.  A packet from n that s heeds goes on to *)
(* the other neighbours, carried out or not; one that is old news does not.*)
(***************************************************************************)
\* Mutant: any time but the same is news.
NewerOrOlder(db, p) == p.cert.creation # db[p.cid].creation

Newer(db, p) == p.cert.creation > db[p.cid].creation

\* Mutant: a certificate that is known already is not added.
HeededOnce(db, p) ==
    CASE p.mode = "add" -> p.cid \notin DOMAIN db
      [] p.mode = "delete" -> p.cid \in DOMAIN db
      [] p.mode = "modify" -> p.cid \in DOMAIN db /\ Newer(db, p)

Heeded(db, p) ==
    CASE p.mode = "add" -> p.cid \in DOMAIN db => Newer(db, p)
      [] p.mode = "delete" -> p.cid \in DOMAIN db
      [] p.mode = "modify" -> p.cid \in DOMAIN db /\ Newer(db, p)

\* Mutant: the time is updated and the origin is not.
ExecutedKeepsOrigin(db, p) ==
    CASE p.mode = "delete" -> Without(db, p.cid)
      [] p.mode = "modify" -> With(db, p.cid, [p.cert EXCEPT !.origin = db[p.cid].origin])
      [] OTHER -> With(db, p.cid, p.cert)

\* An addition to what is known already does not carry its password over.
Executed(db, p) ==
    CASE p.mode = "delete" -> Without(db, p.cid)
      [] p.mode = "add" /\ p.cid \in DOMAIN db ->
            With(db, p.cid, [p.cert EXCEPT !.password = db[p.cid].password])
      [] OTHER -> With(db, p.cid, p.cert)

\* Mutant: the list of trusted hosts is not asked.
AuthorizedAlways(s, p) == p.cid \in Cids

Authorized(s, p) == p.cert.origin \in Trusted[s]

Taken(n, s) == [wire EXCEPT ![<<n, s>>] = Tail(@)]

Arrived(s, n) == <<s, n>> \in links /\ wire[<<n, s>>] # <<>>

Receive(s, n) ==
    /\ Arrived(s, n)
    /\ UNCHANGED <<file, clock, links, knocks, issued, authors, backdated, dropped, lost,
                   left>>
    /\ LET p == Head(wire[<<n, s>>])
       IN  /\ p.from # s
           /\ \/ /\ Heeded(certs[s], p)
                 /\ IF Authorized(s, p)
                    THEN /\ certs' = [certs EXCEPT ![s] = Executed(@, p)]
                         /\ deleted' = deleted \cup (DOMAIN certs[s] \ DOMAIN certs'[s])
                    ELSE UNCHANGED <<certs, deleted>>
                 /\ Transmit(s, <<p>>, Neighbours(s) \ {n}, Taken(n, s))
              \/ /\ ~Heeded(certs[s], p)
                 /\ UNCHANGED <<certs, deleted>>
                 /\ wire' = Taken(n, s)

(***************************************************************************)
(* What doparse does not come to carry out: a packet of the server's own   *)
(* that came back over an end that was not closed yet, and what the packet *)
(* count filter takes for a copy.                                          *)
(***************************************************************************)
Ignore(s, n) ==
    /\ Arrived(s, n)
    /\ wire' = Taken(n, s)
    /\ lost' = TRUE
    /\ UNCHANGED <<certs, file, clock, links, knocks, issued, authors, deleted, backdated>>
    /\ LET p == Head(wire[<<n, s>>])
       IN  /\ dropped' = dropped \cup {p.cid}
           /\ IF p.from = s THEN UNCHANGED left ELSE Spend("drop")
-----------------------------------------------------------------------------
(***************************************************************************)
(* Connections.  The constructor of servuser feeds everything to the new   *)
(* neighbour, every certificate as an addition.                            *)
(***************************************************************************)
\* Mutant: only the certificates of the server itself are fed.
FeedOwn(s) ==
    LET own == SetToSeq({c \in DOMAIN certs[s] : certs[s][c].origin = s})
    IN  [i \in DOMAIN own |-> Cert(s, "add", own[i], certs[s][own[i]])]

Feed(s) ==
    LET known == SetToSeq(DOMAIN certs[s])
    IN  [i \in DOMAIN known |-> Cert(s, "add", known[i], certs[s][known[i]])]

\* before and wires are the other ends and what is under way.
NewUser(s, n, before, wires) ==
    /\ links' = before \cup {<<s, n>>}
    /\ UNCHANGED <<certs, file, clock, issued, authors, deleted, backdated, dropped>>
    /\ Transmit(s, Feed(s), {n}, wires)

\* s dials n.
Connect(s, n) ==
    /\ Spend("connect")
    /\ <<s, n>> \in Topology
    /\ <<s, n>> \notin links
    /\ <<n, s>> \notin links \cup knocks
    /\ knocks' = knocks \cup {<<n, s>>}
    /\ UNCHANGED lost
    /\ NewUser(s, n, links, wire)

\* The end that n has from s is from now on called g.
Renamed(n, s, g, l) == IF l = <<n, s>> THEN <<n, g>> ELSE l

\* s dials n, which still has the end of their former connection.
Reconnect(s, n, g) ==
    /\ Spend("connect")
    /\ <<s, n>> \in Topology
    /\ <<s, n>> \notin links
    /\ <<n, s>> \in links \cup knocks
    /\ <<n, g>> \notin links \cup knocks
    /\ knocks' = {Renamed(n, s, g, l) : l \in knocks} \cup {<<n, s>>}
    /\ lost' = TRUE
    /\ NewUser(s, n, {Renamed(n, s, g, l) : l \in links},
               [wire EXCEPT ![<<g, n>>] = wire[<<s, n>>], ![<<s, n>>] = <<>>])

Accept(n, s) ==
    /\ <<n, s>> \in knocks
    /\ knocks' = knocks \ {<<n, s>>}
    /\ UNCHANGED <<lost, left>>
    /\ NewUser(n, s, links, wire)

\* The destructor of servuser.
RemoveUser(s, n) ==
    /\ links' = links \ {<<s, n>>}
    /\ wire' = [wire EXCEPT ![<<n, s>>] = <<>>]
    /\ lost' = TRUE
    /\ UNCHANGED <<certs, file, clock, knocks, issued, authors, deleted, backdated, dropped>>

\* s closes a connection.
Fail(s, n) ==
    /\ Spend("fail")
    /\ <<s, n>> \in links
    /\ <<n, s>> \in links \cup knocks
    /\ RemoveUser(s, n)

\* s finds that n has closed; what it has not read yet may be lost.
Close(s, n) ==
    /\ <<s, n>> \in links
    /\ <<n, s>> \notin links \cup knocks
    /\ UNCHANGED left
    /\ RemoveUser(s, n)

\* The process of s dies, and starts again with its file.  Who it had dialled
\* may still accept the connection, and read what it wrote.
Crash(s) ==
    LET db == [c \in DOMAIN file[s] |-> Made(s, file[s][c].password, file[s][c].level)]
    IN  /\ Spend("crash")
        /\ certs' = [certs EXCEPT ![s] = db]
        /\ issued' = issued \cup Listed(db)
        /\ links' = {l \in links : l[1] # s}
        /\ knocks' = {l \in knocks : l[1] # s}
        /\ wire' = [l \in Channels |->
                       IF l[2] = s \/ (l[1] = s /\ <<l[2], s>> \notin links \cup knocks)
                       THEN <<>> ELSE wire[l]]
        /\ lost' = TRUE
        /\ UNCHANGED <<file, clock, authors, deleted, backdated, dropped>>
-----------------------------------------------------------------------------
\* The servers start with nothing, and their files are empty.
Init ==
    /\ certs = [s \in Servers |-> Empty]
    /\ file = [s \in Servers |-> Empty]
    /\ clock = 0
    /\ links = {}
    /\ knocks = {}
    /\ wire = [l \in Channels |-> <<>>]
    /\ issued = {}
    /\ authors = {}
    /\ deleted = {}
    /\ backdated = {}
    /\ dropped = {}
    /\ lost = FALSE
    /\ left = Budget

Next ==
    \/ Tick
    \/ \E s \in Servers :
          \/ \E c \in Cids, level \in Levels :
                \/ \E password \in Passwords : Add(s, c, password, level)
                \/ Modify(s, c, level)
          \/ \E c \in Cids : Delete(s, c)
          \/ \E f \in Files : ReadCert(s, f)
          \/ Crash(s)
          \/ \E n \in Servers : \/ Connect(s, n)
                                \/ \E g \in Stubs : Reconnect(s, n, g)
          \/ \E n \in Peers : \/ Accept(s, n) \/ Fail(s, n) \/ Close(s, n)
                              \/ Receive(s, n) \/ Ignore(s, n)

Spec == Init /\ [][Next]_vars
-----------------------------------------------------------------------------
\* The types of the certificates and of what carries them.
CertTypeOK ==
    /\ certs \in [Servers -> Databases]
    /\ file \in [Servers -> Files]
    /\ clock \in Nat
    /\ wire \in [Channels -> Seq(Packets)]
    /\ issued \subseteq [cid : Cids, cert : Certificates]

\* Nothing is under way and both ends of every connection agree.
Quiet ==
    /\ knocks = {}
    /\ \A l \in Channels : wire[l] = <<>>
    /\ \A l \in links : <<l[2], l[1]>> \in links

\* s and o are of the servers T, which connect them.
Connected(s, o, T) ==
    /\ {s, o} \subseteq T
    /\ \A side \in SUBSET T :
          s \in side /\ o \notin side =>
              \E x \in side, y \in T \ side : {<<x, y>>, <<y, x>>} \subseteq links

\* No two changes of c bear the same second: times tell its changes apart.
TimesTell(c) ==
    \A v, w \in issued :
        v.cid = c /\ w.cid = c /\ v.cert.creation = w.cert.creation => v = w

\* The servers that accept what the servers O change.
Trusting(O) == {s \in Servers : O \subseteq Trusted[s] \cup {s}}

(***************************************************************************)
(* docs/admin.txt says of cert: "This command will add/delete or modify    *)
(* the certificate <cid> in the network".  As long as one server gives all *)
(* commands, one change of a certificate a second, and nothing fails,      *)
(* every server that trusts it has in the end exactly what it has, whoever *)
(* was connected, fed and told in which order.                             *)
(***************************************************************************)
Followed ==
    Quiet /\ ~lost =>
        \A a, s \in Servers :
            /\ authors = {a}
            /\ \A c \in Cids : TimesTell(c)
            /\ Connected(a, s, Trusting({a}))
            => certs[s] = certs[a]

(***************************************************************************)
(* Several servers, connections that fail and come back and servers that   *)
(* restart: the change of a certificate that bears the latest time wins    *)
(* everywhere.  The feeds are additions, and an addition must therefore    *)
(* overrule what is older, and nothing else.  This is about a certificate  *)
(* that nobody deletes, no packet of which is ignored, and that no         *)
(* administrator or file replaces by one of an earlier time, which clocks  *)
(* and zones that differ may bring about.  Only its level is sure to agree *)
(* (see PasswordsAgree), and only among servers that list every server     *)
(* that changed it, be it themselves: after a restart a server gets its    *)
(* own changes back from others, and execcert makes no exception for them. *)
(***************************************************************************)
Plain == Cids \ (deleted \cup backdated \cup dropped)

Listing(O) == {s \in Servers : O \subseteq Trusted[s]}

OriginsOf(c) == {v.cert.origin : v \in {w \in issued : w.cid = c}}

Level(s, c) ==
    IF c \notin DOMAIN certs[s] THEN <<>>
    ELSE <<certs[s][c].level, certs[s][c].creation, certs[s][c].origin>>

LevelsAgree ==
    Quiet =>
        \A c \in Plain : \A s, o \in Servers :
            TimesTell(c) /\ Connected(s, o, Listing(OriginsOf(c)))
                => Level(s, c) = Level(o, c)

(***************************************************************************)
(* docs/protocol.txt, CERT: "The server should add/delete/modify the cert  *)
(* entry in its internal database".  The password of the entry is part of  *)
(* what the packet carries.                                                *)
(***************************************************************************)
PasswordsAgree ==
    Quiet =>
        \A c \in Plain : \A s, o \in Servers :
            /\ TimesTell(c)
            /\ Connected(s, o, Listing(OriginsOf(c)))
            /\ c \in DOMAIN certs[s] \cap DOMAIN certs[o]
            => certs[s][c].password = certs[o][c].password

(***************************************************************************)
(* No server has a level of a certificate that the server it names did not *)
(* give it, or that a server gave it which is not trusted: the time and    *)
(* the origin must travel with the change and be kept with it, through     *)
(* every relay and every feed.                                             *)
(***************************************************************************)
Given(makings, c, x) ==
    \E v \in makings :
        /\ v.cid = c
        /\ v.cert.level = x.level
        /\ v.cert.creation = x.creation
        /\ v.cert.origin = x.origin

Authentic ==
    \A s \in Servers : \A c \in DOMAIN certs[s] :
        Given(issued, c, certs[s][c]) /\ certs[s][c].origin \in Trusted[s] \cup {s}
=============================================================================
