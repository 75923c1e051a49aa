------------------------------ MODULE FsdUsers ------------------------------
(***************************************************************************)
(* The users of one FSD server (src/fsd-server/fsd): the connections of    *)
(* the client port, the loop that serves them, the clients they register,  *)
(* and the ways a connection ends.                                         *)
(*                                                                         *)
(* The program has one thread.  A pass of its loop (tcpinterface::run)     *)
(* gives each connection a turn: what arrived is read and up to Burst - 1  *)
(* lines are obeyed; a connection that was killed is taken out at its next *)
(* turn, never at once.  The commands of other servers run between passes. *)
(* The pass goes through its list in any order here, a line is one step,   *)
(* the reason of a kill is left out (no connection of this port has a      *)
(* guard), and so is what is written to the users.                         *)
(*                                                                         *)
(* A client is an object on the heap, with its callsign, whether it is     *)
(* this server's (location == myserver) and its rating; a connection holds *)
(* a pointer to one, thisclient.                                           *)
(***************************************************************************)
EXTENDS Integers, Sequences, FiniteSets

CONSTANTS
    Users,        \* connections; one that ended may be made again
    Objects,      \* the places where a client can be allocated
    Callsigns,
    Lines,        \* the lines that programs send
    Writes,       \* what programs write at once: some sequences of lines
    Freed,        \* what is at a place that is not allocated
    NoClient,     \* the null pointer to a client
    Nobody,       \* the null pointer to a user
    Limits,       \* what the configuration may say of maxclients
    Burst,        \* the 60 of absuser::run
    PingTime,     \* USERPINGTIMEOUT, 200 seconds
    IdleTime,     \* USERTIMEOUT, 500 seconds
    KillRating,   \* the 11 of execkill
    MaxBusy       \* bound: users of whom lines, or the end, are under way

NoCid == -2
BadPassword == -1

\* What checklogin can return for a certificate of level l >= 0, or instead.
Levels == {NoCid, BadPassword} \cup Nat

IsLogin(l) ==
    /\ l.callsign \in Callsigns
    /\ l.req \in Nat
    /\ l.cert \in Levels      \* what the certificate of the cid allows
    /\ l.fit \in BOOLEAN      \* the callsign is a valid one, the revision is 9

ASSUME UsersAssumption ==
    /\ IsFiniteSet(Users)
    /\ Nobody \notin Users
    /\ NoClient \notin Objects
    /\ Limits \subseteq Nat
    /\ {KillRating, MaxBusy} \subseteq Nat
    /\ {Burst, PingTime, IdleTime} \subseteq Nat \ {0, 1}
    /\ \A l \in Lines :
          /\ l.cmd \in {"AA", "AP", "D", "KILL", "other"}
          /\ l.cmd \in {"AA", "AP"} => IsLogin(l)
    /\ Writes \subseteq Seq(Lines)

\* A registered client is never what a free place holds.
ASSUME FreedAssumption ==
    Freed \notin [callsign : Callsigns, here : BOOLEAN, rating : Nat]

VARIABLES
    online,       \* the users on the list rootuser
    user,         \* user[u]: killflag, timeout, thisclient, and two ages
    closed,       \* the connections whose program is gone
    wire,         \* wire[u]: lines that were sent and not read
    inbuf,        \* inbuf[u]: lines that were read and not obeyed
    heap,         \* heap[o]: the client allocated at o, on the list rootclient
    limit,        \* maxclients; it is not changed while the server runs
    current,      \* the counter varcurrent
    stage,        \* "select" between two passes of the loop, or "pass"
    todo,         \* the users that have no turn in this pass yet
    turn,         \* whose turn it is
    obeyed,       \* count of absuser::run
    due           \* the second has changed since the last dochecks

passVars == <<stage, todo, turn, obeyed>>
usersVars == <<online, user, closed, wire, inbuf, heap, limit, current, due, passVars>>

\* idle and pinged are the time since lastactive and since lastping.
Fresh == [killed |-> FALSE, timeout |-> FALSE, client |-> NoClient,
          idle |-> 0, pinged |-> 0]

Live == {o \in Objects : heap[o] # Freed}

\* Mutant: only the clients of this server are looked at.
InUseHere(c) == \E o \in Live : heap[o].callsign = c /\ heap[o].here

\* callsignok, the part that depends on the state.
InUse(c) == \E o \in Live : heap[o].callsign = c

Holders(o) == {u \in online : user[u].client = o}
-----------------------------------------------------------------------------
(***************************************************************************)
(* The lines of a user.  Obeying one is being active.                      *)
(***************************************************************************)
Active(u) == [user[u] EXCEPT !.idle = 0, !.pinged = 0]

\* The user u has been active, and those of gone are killed.
Heard(u, gone) ==
    user' = [v \in Users |->
                LET w == IF v = u THEN Active(u) ELSE user[v]
                IN  IF v \in gone THEN [w EXCEPT !.killed = TRUE] ELSE w]

\* checklogin: what the certificate allows, at most what was asked for.
CheckLogin(l) == IF l.cert < l.req THEN l.cert ELSE l.req

\* A controller without a cid is an observer.
ControllerLevel(l) == IF l.cert = NoCid THEN 1 ELSE CheckLogin(l)

Register(u, c, level) ==
    \E o \in Objects \ Live :
        /\ heap' = [heap EXCEPT ![o] = [callsign |-> c, here |-> TRUE, rating |-> level]]
        /\ user' = [user EXCEPT ![u] = [Active(u) EXCEPT !.client = o]]

\* From callsignok on, execaa and execap differ by the level alone.
LogIn(u, l, level) ==
    IF l.fit /\ ~InUse(l.callsign) /\ level > 0 /\ level >= l.req
    THEN Register(u, l.callsign, level)
    ELSE Heard(u, {u}) /\ UNCHANGED heap

ExecAA(u, l) ==
    IF user[u].client # NoClient THEN Heard(u, {}) /\ UNCHANGED heap
                                 ELSE LogIn(u, l, ControllerLevel(l))

\* The check that u has no client is commented out.
ExecAP(u, l) == LogIn(u, l, CheckLogin(l))

ExecD(u, l) ==
    /\ Heard(u, IF heap[user[u].client].callsign = l.callsign THEN {u} ELSE {})
    /\ UNCHANGED heap

\* sendkill: the connection of a client of this server is killed; for another
\* client a packet goes out.
Killed(c) == UNION {Holders(o) : o \in {x \in Live : heap[x].callsign = c /\ heap[x].here}}

ExecKill(u, l) ==
    /\ Heard(u, IF heap[user[u].client].rating >= KillRating THEN Killed(l.callsign)
                                                            ELSE {})
    /\ UNCHANGED heap

\* doparse.  Without a client only the logins are obeyed, the rest is dropped.
Obey(u, l) ==
    CASE l.cmd = "AA" -> ExecAA(u, l)
      [] l.cmd = "AP" -> ExecAP(u, l)
      [] l.cmd = "D" /\ user[u].client # NoClient -> ExecD(u, l)
      [] l.cmd = "KILL" /\ user[u].client # NoClient -> ExecKill(u, l)
      [] OTHER -> Heard(u, {}) /\ UNCHANGED heap
-----------------------------------------------------------------------------
(***************************************************************************)
(* A pass of the loop.                                                     *)
(***************************************************************************)
Poll ==
    /\ stage = "select"
    /\ stage' = "pass"
    /\ todo' = online
    /\ UNCHANGED <<online, user, closed, wire, inbuf, heap, limit, current, due, turn, obeyed>>

\* Mutant: one too many.
AcceptOneMore(u) ==
    LET full == limit < current IN
    /\ stage = "select"
    /\ u \notin online
    /\ user' = [user EXCEPT ![u] = [Fresh EXCEPT !.killed = full]]
    /\ online' = online \cup {u}
    /\ current' = current + 1
    /\ stage' = "pass"
    /\ todo' = IF full THEN online' ELSE online
    /\ UNCHANGED <<closed, wire, inbuf, heap, limit, due, turn, obeyed>>

\* Mutant: who is refused is not counted.
AcceptCountsServed(u) ==
    LET full == limit <= current IN
    /\ stage = "select"
    /\ u \notin online
    /\ user' = [user EXCEPT ![u] = [Fresh EXCEPT !.killed = full]]
    /\ online' = online \cup {u}
    /\ current' = IF full THEN current ELSE current + 1
    /\ stage' = "pass"
    /\ todo' = IF full THEN online' ELSE online
    /\ UNCHANGED <<closed, wire, inbuf, heap, limit, due, turn, obeyed>>

\* A pass that begins with a new user.  One too many is killed by its
\* constructor, put on the list all the same, and taken out in this pass; another
\* has nothing to read in this pass.
Accept(u) ==
    LET full == limit <= current IN
    /\ stage = "select"
    /\ u \notin online
    /\ user' = [user EXCEPT ![u] = [Fresh EXCEPT !.killed = full]]
    /\ online' = online \cup {u}
    /\ current' = current + 1
    /\ stage' = "pass"
    /\ todo' = IF full THEN online' ELSE online
    /\ UNCHANGED <<closed, wire, inbuf, heap, limit, due, turn, obeyed>>

\* The turn of a user that was killed: it goes, and its client with it.
Remove(u) ==
    /\ turn = Nobody
    /\ u \in todo
    /\ user[u].killed
    /\ todo' = todo \ {u}
    /\ online' = online \ {u}
    /\ closed' = closed \ {u}
    /\ current' = current - 1
    /\ user' = [user EXCEPT ![u] = Fresh]
    /\ heap' = [o \in Objects |-> IF o = user[u].client THEN Freed ELSE heap[o]]
    /\ wire' = [wire EXCEPT ![u] = <<>>]
    /\ inbuf' = [inbuf EXCEPT ![u] = <<>>]
    /\ UNCHANGED <<limit, due, stage, turn, obeyed>>

\* A turn begins with what can be read; nothing, when the program is gone, kills.
\* It ends when no line is left.
Begin(u) ==
    /\ turn = Nobody
    /\ u \in todo
    /\ ~user[u].killed
    /\ todo' = todo \ {u}
    /\ inbuf' = [inbuf EXCEPT ![u] = @ \o wire[u]]
    /\ wire' = [wire EXCEPT ![u] = <<>>]
    /\ turn' = IF inbuf[u] \o wire[u] = <<>> THEN Nobody ELSE u
    /\ user' = [user EXCEPT ![u].killed = u \in closed /\ wire[u] = <<>>]
    /\ UNCHANGED <<online, closed, heap, limit, current, due, stage, obeyed>>

Parse(u) ==
    LET rest == Tail(inbuf[u]) IN
    /\ turn = u
    /\ obeyed < Burst - 1
    /\ Obey(u, Head(inbuf[u]))
    /\ inbuf' = [inbuf EXCEPT ![u] = rest]
    /\ turn' = IF rest = <<>> THEN Nobody ELSE u
    /\ obeyed' = IF rest = <<>> THEN 0 ELSE obeyed + 1
    /\ UNCHANGED <<online, closed, wire, limit, current, due, stage, todo>>

\* The feed of u, which is not modelled, is above the limit: u is killed, and
\* its lines are obeyed all the same.
Flood(u) ==
    /\ turn = u
    /\ ~user[u].killed
    /\ user' = [user EXCEPT ![u].killed = TRUE]
    /\ UNCHANGED <<online, closed, wire, inbuf, heap, limit, current, due, passVars>>

\* The last line of a burst is taken out of the buffer before the count is
\* looked at, and lost.
DropLine(u) ==
    /\ turn = u
    /\ obeyed = Burst - 1
    /\ inbuf' = [inbuf EXCEPT ![u] = Tail(@)]
    /\ turn' = Nobody
    /\ obeyed' = 0
    /\ UNCHANGED <<online, user, closed, wire, heap, limit, current, due, stage, todo>>

\* Mutant: to be pinged is to be active.
CheckedPingCounts(w) ==
    LET k == [w EXCEPT !.killed = @ \/ w.timeout] IN
    IF w.pinged >= PingTime THEN [k EXCEPT !.pinged = 0, !.idle = 0]
    ELSE [k EXCEPT !.timeout = @ \/ w.idle >= IdleTime]

\* dochecks, for a user that is not killed.  The ping comes first; a user that
\* has timed out is killed by the next check, whatever it says meanwhile.
Checked(w) ==
    LET k == [w EXCEPT !.killed = @ \/ w.timeout] IN
    IF w.pinged >= PingTime THEN [k EXCEPT !.pinged = 0]
    ELSE [k EXCEPT !.timeout = @ \/ w.idle >= IdleTime]

EndPass ==
    /\ stage = "pass"
    /\ todo = {}
    /\ turn = Nobody
    /\ stage' = "select"
    /\ due' = FALSE
    /\ user' = [u \in Users |->
                   IF due /\ u \in online /\ ~user[u].killed THEN Checked(user[u])
                                                            ELSE user[u]]
    /\ UNCHANGED <<online, closed, wire, inbuf, heap, limit, current, todo, turn, obeyed>>
-----------------------------------------------------------------------------
(***************************************************************************)
(* The other servers, between passes, and time.                            *)
(***************************************************************************)
\* execaddclient: not if the callsign is in use.
RemoteJoins(c) ==
    /\ stage = "select"
    /\ ~InUse(c)
    /\ \E o \in Objects \ Live :
          heap' = [heap EXCEPT ![o] = [callsign |-> c, here |-> FALSE, rating |-> 1]]
    /\ UNCHANGED <<online, user, closed, wire, inbuf, limit, current, due, passVars>>

\* Mutant: a client goes wherever it is.
AnyLeaves(o) ==
    /\ stage = "select"
    /\ o \in Live
    /\ heap' = [heap EXCEPT ![o] = Freed]
    /\ UNCHANGED <<online, user, closed, wire, inbuf, limit, current, due, passVars>>

\* execrmclient, and the timeout of a client: never a client of this server.
RemoteLeaves(o) ==
    /\ stage = "select"
    /\ o \in Live
    /\ ~heap[o].here
    /\ heap' = [heap EXCEPT ![o] = Freed]
    /\ UNCHANGED <<online, user, closed, wire, inbuf, limit, current, due, passVars>>

\* A KILL packet for a client of this server.
RemoteKills(c) ==
    /\ stage = "select"
    /\ user' = [u \in Users |->
                   IF u \in Killed(c) THEN [user[u] EXCEPT !.killed = TRUE] ELSE user[u]]
    /\ UNCHANGED <<online, closed, wire, inbuf, heap, limit, current, due, passVars>>

Older(age, most) == IF age < most THEN age + 1 ELSE age

\* A second passes.  The ages stop where nothing tells them apart, and the loop
\* goes round at least once a second: select waits no longer.
Tick ==
    /\ stage = "select"
    /\ ~due
    /\ due' = TRUE
    /\ user' = [u \in Users |->
                   IF u \notin online \/ user[u].killed THEN user[u]
                   ELSE [user[u] EXCEPT !.idle = Older(@, IdleTime),
                                        !.pinged = Older(@, PingTime)]]
    /\ UNCHANGED <<online, closed, wire, inbuf, heap, limit, current, passVars>>
-----------------------------------------------------------------------------
(***************************************************************************)
(* The programs of the users.  What arrives while a pass goes on is found  *)
(* by the next select.                                                     *)
(***************************************************************************)
\* The users of whom something is under way.
Busy == {u \in Users : wire[u] # <<>> \/ inbuf[u] # <<>>} \cup closed

Room(u) == Cardinality(Busy \cup {u}) <= MaxBusy

Send(u, lines) ==
    /\ stage = "select"
    /\ Room(u)
    /\ u \in online \ Busy
    /\ wire' = [wire EXCEPT ![u] = lines]
    /\ UNCHANGED <<online, user, closed, inbuf, heap, limit, current, due, passVars>>

HangUp(u) ==
    /\ stage = "select"
    /\ Room(u)
    /\ u \in online \ closed
    /\ closed' = closed \cup {u}
    /\ UNCHANGED <<online, user, wire, inbuf, heap, limit, current, due, passVars>>

\* Something is written to a program that is gone.
WriteFails(u) ==
    /\ u \in closed
    /\ ~user[u].killed
    /\ user' = [user EXCEPT ![u].killed = TRUE]
    /\ UNCHANGED <<online, closed, wire, inbuf, heap, limit, current, due, passVars>>
-----------------------------------------------------------------------------
Init ==
    /\ online = {}
    /\ user = [u \in Users |-> Fresh]
    /\ closed = {}
    /\ wire = [u \in Users |-> <<>>]
    /\ inbuf = [u \in Users |-> <<>>]
    /\ heap = [o \in Objects |-> Freed]
    /\ limit \in Limits
    /\ current = 0
    /\ stage = "select"
    /\ todo = {}
    /\ turn = Nobody
    /\ obeyed = 0
    /\ due = FALSE

Turn(u) == Remove(u) \/ Begin(u) \/ Parse(u) \/ DropLine(u)

\* What the loop does without anybody's help.
Loop == Poll \/ (\E u \in Users : Turn(u)) \/ EndPass

Next ==
    \/ Poll
    \/ \E u \in Users : Accept(u)
    \/ \E u \in Users : Remove(u)
    \/ \E u \in Users : Begin(u)
    \/ \E u \in Users : Parse(u)
    \/ \E u \in Users : Flood(u)
    \/ \E u \in Users : DropLine(u)
    \/ EndPass
    \/ \E c \in Callsigns : RemoteJoins(c)
    \/ \E o \in Objects : RemoteLeaves(o)
    \/ \E c \in Callsigns : RemoteKills(c)
    \/ Tick
    \/ \E u \in Users, lines \in Writes : Send(u, lines)
    \/ \E u \in Users : HangUp(u)
    \/ \E u \in Users : WriteFails(u)

Spec == Init /\ [][Next]_usersVars

\* The loop goes on and so does time; nobody has to connect, speak or leave.
FairSpec == Spec /\ WF_usersVars(Loop) /\ SF_usersVars(Tick)
-----------------------------------------------------------------------------
Client == [callsign : Callsigns, here : BOOLEAN, rating : Nat]

\* The tables have the shape the code relies on; the counter is one.
UsersTypeOK ==
    /\ online \subseteq Users
    /\ user \in [Users -> [killed : BOOLEAN, timeout : BOOLEAN,
                           client : Objects \cup {NoClient}, idle : Nat, pinged : Nat]]
    /\ closed \subseteq online
    /\ wire \in [Users -> Seq(Lines)]
    /\ inbuf \in [Users -> Seq(Lines)]
    /\ heap \in [Objects -> Client \cup {Freed}]
    /\ limit \in Limits
    /\ current \in Nat
    /\ stage \in {"select", "pass"}
    /\ todo \subseteq online
    /\ turn \in online \cup {Nobody}
    /\ turn # Nobody => inbuf[turn] # <<>>
    /\ obeyed \in 0 .. Burst - 1
    /\ due \in BOOLEAN

(***************************************************************************)
(* thisclient never dangles and is never shared: a connection's client is  *)
(* on the list of clients, as a client of this server, and no other        *)
(* connection has it, whatever order logins, second logins, kills, other   *)
(* servers' removals and reuse of the memory come in (cluser.cpp, every    *)
(* handler reads thisclient).                                              *)
(***************************************************************************)
PrivateClients ==
    \A u \in Users : user[u].client # NoClient =>
        /\ user[u].client \in Live
        /\ heap[user[u].client].here
        /\ \A v \in Users \ {u} : user[v].client # user[u].client

(***************************************************************************)
(* No two clients, of this server or another, have one callsign: getclient *)
(* returns the first it finds, so a second would be out of reach.          *)
(***************************************************************************)
UniqueCallsigns ==
    \A o, p \in Live : heap[o].callsign = heap[p].callsign => o = p

(***************************************************************************)
(* At most maxclients connections are served, although who is refused is   *)
(* on the list and counted, and who was killed is counted until its turn.  *)
(***************************************************************************)
WithinLimit ==
    /\ current = Cardinality(online)
    /\ Cardinality({u \in online : ~user[u].killed}) <= limit

(***************************************************************************)
(* Nobody stays without speaking, nor after being killed: the pings, which *)
(* come first in dochecks and go on for ever, do not keep a silent user on *)
(* the list, nor do lines still in the buffers of one that was killed.     *)
(***************************************************************************)
NobodyLingers ==
    \A u \in Users : []<>(u \notin online \/ (~user[u].killed /\ wire[u] # <<>>))

(***************************************************************************)
(* What execaa and the comment in execap (cluser.cpp:212-216) intend: a    *)
(* connection registers one client ("Already registered"), so a client of  *)
(* this server always has a connection, which removes it when it ends.     *)
(***************************************************************************)
ClientsHeld == \A o \in Live : heap[o].here => Holders(o) # {}
=============================================================================
