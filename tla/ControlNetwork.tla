--------------------------- MODULE ControlNetwork ---------------------------
(***************************************************************************)
(* The session server with its clients: each client's scope (scope.js),    *)
(* what it makes of the server's messages (ConnectionDelegate.js), and the *)
(* requests its controller's commands emit (command.js).  A client emits   *)
(* into a queue that is served in order, and buffers what it emits while   *)
(* it is not connected; it reads its connection's messages in order.  A    *)
(* client that loses its connection gets a new one and keeps its state;    *)
(* the server notices the loss of the old one sooner or later.             *)
(***************************************************************************)
EXTENDS SimulationSession

CONSTANTS Clients,    \* the pages that take part in the session
          MaxInbox,   \* bound: requests under way from all clients
          MaxPicks    \* bound: positions picked by all clients together

ASSUME BoundsAssumption == MaxInbox \in Nat /\ MaxPicks \in Nat

VARIABLES sock,       \* each client's connection, or NoSocket
          me,         \* scope._controller: its own sector, or NoOne
          known,      \* scope._controllers
          targets,    \* the client's target of each aircraft, or Absent
          inbox,      \* the requests under way from each client, oldest first
          picks,      \* how many positions were picked so far
          heard,      \* history: the aircraft a client was told of since it connected
          asked       \* history: <<a, i, c>> when the server asked c to take a from i

clientVars == <<sock, me, known, targets, inbox, picks, heard, asked>>

networkVars == <<sessionVars, clientVars>>

T == INSTANCE Target

Absent == NoOne

ASSUME AbsentAssumption == Absent \notin T!Targets

NetworkInit ==
    /\ Init
    /\ sock = [c \in Clients |-> NoSocket]
    /\ me = [c \in Clients |-> NoOne]
    /\ known = [c \in Clients |-> {}]
    /\ targets = [c \in Clients |-> [a \in Aircraft |-> Absent]]
    /\ inbox = [c \in Clients |-> <<>>]
    /\ picks = 0
    /\ heard = [c \in Clients |-> {}]
    /\ asked = {}
-----------------------------------------------------------------------------
(***************************************************************************)
(* Connections.                                                            *)
(***************************************************************************)
OpenConnection(c) ==
    /\ sock[c] = NoSocket
    /\ \E s \in Sockets : status[s] = "new"
    /\ LET s == CHOOSE t \in Sockets : status[t] = "new"
       IN  Connect(s) /\ sock' = [sock EXCEPT ![c] = s]
    /\ heard' = [heard EXCEPT ![c] = {}]
    /\ UNCHANGED <<me, known, targets, inbox, picks, asked>>

\* The transport fails: what is under way from the client is lost.  The bound:
\* no connection fails when Sockets has none left to make again.
LoseConnection(c) ==
    /\ sock[c] # NoSocket
    /\ \E s \in Sockets : status[s] = "new"
    /\ sock' = [sock EXCEPT ![c] = NoSocket]
    /\ inbox' = [inbox EXCEPT ![c] = <<>>]
    /\ UNCHANGED <<sessionVars, me, known, targets, picks, heard, asked>>

\* The server finds that nobody is at the other end of a connection.
NoticeLoss(s) ==
    /\ \A c \in Clients : sock[c] # s
    /\ Disconnect(s)
    /\ UNCHANGED clientVars
-----------------------------------------------------------------------------
(***************************************************************************)
(* What a controller does.  Commands on an aircraft are clicks on its      *)
(* target, which are selections too; a command that reads the identifier   *)
(* of a missing controller throws, and Command.run drops the exception.    *)
(***************************************************************************)
Emitted(c, r) == inbox' = [inbox EXCEPT ![c] = Append(@, r)]

UnderWay == UNION {{c} \X DOMAIN inbox[c] : c \in Clients}

InboxRoom == Cardinality(UnderWay) < MaxInbox

\* Mutant: a client that has a position adds another one without deleting it.
PickAddsAlways(c, p) ==
    /\ picks < MaxPicks
    /\ InboxRoom
    /\ picks' = picks + 1
    /\ Emitted(c, [op |-> "add", position |-> p])
    /\ UNCHANGED <<sessionVars, sock, me, known, targets, heard, asked>>

\* setControllerPosition.
PickPosition(c, p) ==
    /\ picks < MaxPicks
    /\ InboxRoom
    /\ picks' = picks + 1
    /\ Emitted(c, [op |-> IF me[c] = NoOne THEN "add" ELSE "delete", position |-> p])
    /\ UNCHANGED <<sessionVars, sock, me, known, targets, heard, asked>>

\* A click on the target of a, with the request it emits if it emits one.
Click(c, a, emits, r) ==
    /\ targets[c][a] # Absent
    /\ InboxRoom
    /\ targets' = [targets EXCEPT ![c][a] = T!Select(@, me[c])]
    /\ IF emits THEN Emitted(c, r) ELSE UNCHANGED inbox
    /\ UNCHANGED <<sessionVars, sock, me, known, picks, heard, asked>>

TrackOp(op, c, a) == [op |-> op, aircraft |-> a, controller |-> me[c]]

HandoffOp(op, a, from, to) ==
    [op |-> op, aircraft |-> a, controller |-> from, to |-> to]

\* The IC command.
InitiateControlCommand(c, a) ==
    LET t == T!Select(targets[c][a], me[c])
    IN  Click(c, a, ~T!IsUndergoingHandoff(t) /\ me[c] # NoOne,
              TrackOp("initiate", c, a))

\* The TC command: it refuses a handoff, or drops the track.
TerminateControlCommand(c, a) ==
    LET t == T!Select(targets[c][a], me[c])
        refusal == T!IsUndergoingInboundHandoff(t)
    IN  Click(c, a,
              /\ ~T!IsUndergoingHandoff(t)
              /\ me[c] # NoOne
              /\ refusal => t.other # NoOne,
              IF refusal THEN HandoffOp("refuse", a, t.other, me[c])
              ELSE TrackOp("terminate", c, a))

\* A sector identifier and a click: a handoff to that sector.
HandoffCommand(c, a, to) ==
    /\ to \in known[c]
    /\ Click(c, a,
             /\ ~T!IsUndergoingHandoff(T!Select(targets[c][a], me[c]))
             /\ me[c] # NoOne,
             HandoffOp("request", a, me[c], to))

\* A click and nothing else: it accepts a handoff.
SlewCommand(c, a) ==
    LET t == T!Select(targets[c][a], me[c])
    IN  Click(c, a,
              /\ T!IsUndergoingInboundHandoff(t)
              /\ t.other # NoOne
              /\ me[c] # NoOne,
              HandoffOp("accept", a, t.other, me[c]))

\* The timer of a target fires.
TimerFires(c, a) ==
    /\ targets[c][a] # Absent
    /\ \E timer \in targets[c][a].timers :
          targets' = [targets EXCEPT ![c][a] = T!Timeout(@, timer)]
    /\ UNCHANGED <<sessionVars, sock, me, known, inbox, picks, heard, asked>>
-----------------------------------------------------------------------------
(***************************************************************************)
(* The server takes the oldest request of a connected client.              *)
(***************************************************************************)
Serve(c) ==
    /\ sock[c] # NoSocket
    /\ inbox[c] # <<>>
    /\ LET s == sock[c]
           r == Head(inbox[c])
       IN  /\ \/ r.op = "add" /\ AddController(s, r)
              \/ r.op = "delete" /\ DeleteController(s, r)
              \/ r.op = "initiate" /\ InitiateControl(s, r)
              \/ r.op = "terminate" /\ TerminateControl(s, r)
              \/ r.op = "request" /\ RequestHandoff(s, r)
              \/ r.op = "accept" /\ AcceptHandoff(s, r)
              \/ r.op = "refuse" /\ RefuseHandoff(s, r)
           /\ asked' = asked \cup
                 IF r.op = "request" /\ CanRequest(s, r)
                 THEN {<<r.aircraft, r.controller, d>> :
                         d \in {e \in Clients : sock[e] = controllers[r.to]}}
                 ELSE {}
    /\ inbox' = [inbox EXCEPT ![c] = Tail(@)]
    /\ UNCHANGED <<sock, me, known, targets, picks, heard>>

BlipSent(a) == Blip(a) /\ UNCHANGED clientVars
-----------------------------------------------------------------------------
(***************************************************************************)
(* A message arrives at a client.                                          *)
(***************************************************************************)
\* getControllerByIdentifier.
Lookup(c, i) == IF i \in known[c] THEN i ELSE NoOne

\* The target of a, if there is one, becomes t.
Retarget(c, a, t) ==
    targets' = IF targets[c][a] = Absent THEN targets
               ELSE [targets EXCEPT ![c][a] = t]

\* setControllers: the client's own controller always stays in the list.
ReceiveControllers(c, m) ==
    /\ known' = [known EXCEPT ![c] = m.sectors \cup ({me[c]} \ {NoOne})]
    /\ UNCHANGED <<me, targets, inbox, heard>>

\* Radar.sync.
ReceiveBlip(c, m) ==
    LET t == targets[c][m.aircraft]
        found == Lookup(c, m.controller)
    IN  /\ targets' = [targets EXCEPT ![c][m.aircraft] =
                          T!Update(IF t = Absent THEN T!NewTarget ELSE t,
                                   m.controller, found)]
        /\ heard' = [heard EXCEPT ![c] = @ \cup {m.aircraft}]
        /\ UNCHANGED <<me, known, inbox>>

\* Mutant: a message that carries no identifier is taken to say nothing.
OwnershipIgnoresReleases(c, m) ==
    /\ IF m.controller = NoOne THEN UNCHANGED targets
       ELSE Retarget(c, m.aircraft,
                T!SetController(targets[c][m.aircraft], Lookup(c, m.controller)))
    /\ heard' = [heard EXCEPT ![c] = @ \cup {m.aircraft}]
    /\ UNCHANGED <<me, known, inbox>>

ReceiveOwnership(c, m) ==
    /\ Retarget(c, m.aircraft,
                T!SetController(targets[c][m.aircraft], Lookup(c, m.controller)))
    /\ heard' = [heard EXCEPT ![c] = @ \cup {m.aircraft}]
    /\ UNCHANGED <<me, known, inbox>>

ReceiveHandoff(c, m) ==
    LET a == m.aircraft
        t == targets[c][a]
    IN  /\ Retarget(c, a,
              CASE m.type = "handoffRequested" ->
                      T!InboundHandoff(t, Lookup(c, m.controller))
                [] m.type = "handoffAccepted" ->
                      T!HandoffAccepted(t, Lookup(c, m.to))
                [] m.type = "handoffRefused" -> T!HandoffRefused(t))
        /\ UNCHANGED <<me, known, inbox, heard>>

\* Mutant: the client keeps the position's name for its identifier.
AddedKeepsPosition(c, m) ==
    /\ me' = [me EXCEPT ![c] = m.sector[1]]
    /\ UNCHANGED <<known, targets, inbox, heard>>

\* The callback of ATC.addController.
ReceiveAdded(c, m) ==
    /\ me' = [me EXCEPT ![c] = m.sector]
    /\ UNCHANGED <<known, targets, inbox, heard>>

\* The callback of ATC.deleteController: massHandoff, and on to the position
\* that was picked.
ReceiveDeleted(c, m) ==
    /\ targets' = [targets EXCEPT ![c] =
                      [a \in Aircraft |->
                          IF @[a] # Absent /\ @[a].controller = me[c]
                          THEN T!SetController(@[a], NoOne) ELSE @[a]]]
    /\ me' = [me EXCEPT ![c] = NoOne]
    /\ Emitted(c, [op |-> "add", position |-> m.position])
    /\ UNCHANGED <<known, heard>>

\* The callbacks of the other requests; a failure changes the preview area only.
ReceiveAnswer(c, m) ==
    LET r == m.request
        a == r.aircraft
        t == targets[c][a]
    IN  /\ targets' = [targets EXCEPT ![c][a] =
              CASE m.ok /\ r.op = "request" -> T!RequestSent(t, r.to)
                [] m.ok /\ r.op = "accept" -> T!AcceptSucceeded(t, me[c])
                [] m.ok /\ r.op = "refuse" -> T!RefusalSucceeded(t)
                [] OTHER -> t]
        /\ UNCHANGED <<me, known, inbox, heard>>

Receive(c) ==
    /\ sock[c] # NoSocket
    /\ Deliver(sock[c])
    /\ LET m == Head(outbox[sock[c]])
       IN  \/ m.type = "controllers" /\ ReceiveControllers(c, m)
           \/ m.type = "blip" /\ ReceiveBlip(c, m)
           \/ m.type = "ownershipClaimed" /\ ReceiveOwnership(c, m)
           \/ /\ m.type \in {"handoffRequested", "handoffAccepted", "handoffRefused"}
              /\ ReceiveHandoff(c, m)
           \/ m.type = "added" /\ ReceiveAdded(c, m)
           \/ m.type = "deleted" /\ ReceiveDeleted(c, m)
           \/ m.type = "answer" /\ ReceiveAnswer(c, m)
    /\ UNCHANGED <<sock, picks, asked>>

\* What was sent to a connection nobody holds is lost.
Discard(s) ==
    /\ \A c \in Clients : sock[c] # s
    /\ Deliver(s)
    /\ UNCHANGED clientVars
-----------------------------------------------------------------------------
Command(c) ==
    \/ \E p \in Positions : PickPosition(c, p)
    \/ \E a \in Aircraft :
          \/ InitiateControlCommand(c, a)
          \/ TerminateControlCommand(c, a)
          \/ SlewCommand(c, a)
          \/ \E to \in Sectors : HandoffCommand(c, a, to)

NetworkNext ==
    \/ \E c \in Clients :
          \/ OpenConnection(c) \/ LoseConnection(c) \/ Command(c)
          \/ Serve(c) \/ Receive(c)
          \/ \E a \in Aircraft : TimerFires(c, a)
    \/ \E s \in Sockets : NoticeLoss(s) \/ Discard(s)
    \/ \E a \in Aircraft : BlipSent(a)

NetworkSpec == NetworkInit /\ [][NetworkNext]_networkVars

(***************************************************************************)
(* What the runtime guarantees: messages of a live connection arrive, each *)
(* aircraft's interval keeps firing, and timers fire.  The interval does   *)
(* not wait for room in a queue, as the bound makes it do here: so strong  *)
(* fairness stands for it.  Nothing is assumed of the controllers.         *)
(***************************************************************************)
FairNetworkSpec ==
    /\ NetworkSpec
    /\ \A c \in Clients : WF_networkVars(Receive(c))
    /\ \A s \in Sockets : WF_networkVars(Discard(s))
    /\ \A a \in Aircraft : SF_networkVars(BlipSent(a))
    /\ \A c \in Clients, a \in Aircraft : WF_networkVars(TimerFires(c, a))
-----------------------------------------------------------------------------
\* The types of the clients' variables: what a client keeps of the server's
\* messages is always a sector of the session, or nobody.
NetworkTypeOK ==
    /\ TypeOK
    /\ sock \in [Clients -> Sockets \cup {NoSocket}]
    /\ me \in [Clients -> Sectors \cup {NoOne}]
    /\ known \in [Clients -> SUBSET Sectors]
    /\ targets \in [Clients -> [Aircraft -> T!Targets \cup {Absent}]]
    /\ inbox \in [Clients -> Seq(Request)]
    /\ picks \in 0 .. MaxPicks
    /\ heard \in [Clients -> SUBSET Aircraft]
    /\ asked \subseteq Aircraft \X Sectors \X Clients

\* Something under way to the client c still says who tracks a.
Pending(c, a) == \E n \in 1 .. Len(outbox[sock[c]]) : Tells(outbox[sock[c]][n], a)

\* The client c shows i as the controller of a.
Shows(c, a, i) == targets[c][a] # Absent /\ targets[c][a].controller = i

(***************************************************************************)
(* No client shows a wrong controller: once it was told of an aircraft on  *)
(* its connection, and nothing more about it is under way, it shows the    *)
(* controller the server has, or nobody (the identifier is not in its list *)
(* yet, or it has given up its position).                                  *)
(***************************************************************************)
NoWrongOwner ==
    \A c \in Clients, a \in Aircraft :
        sock[c] # NoSocket /\ a \in heard[c] /\ ~Pending(c, a)
        => \A i \in Sectors : Shows(c, a, i) => i = owner[a]

(***************************************************************************)
(* A handoff a client is asked to take names the sector that asks: the     *)
(* list of controllers always arrives before the first request does, and   *)
(* so the click that accepts or refuses never reads a missing controller.  *)
(***************************************************************************)
InboundKnowsSender ==
    \A c \in Clients, a \in Aircraft :
        targets[c][a] # Absent /\ T!IsUndergoingInboundHandoff(targets[c][a])
        => targets[c][a].other # NoOne

(***************************************************************************)
(* The server lets a socket take two positions and forgets the first, but  *)
(* no aircraft is ever tracked from the sector it forgot: the owner of an  *)
(* aircraft can always still be reached by its own connection.             *)
(***************************************************************************)
GhostNeverOwns ==
    \A a \in Aircraft :
        owner[a] # NoOne => sockets[controllers[owner[a]]] = owner[a]

(***************************************************************************)
(* The timer that is pending is the one of the handoff state the target is *)
(* in: no timer of an earlier handoff can cut a later one short.           *)
(***************************************************************************)
TimerMatchesState ==
    \A c \in Clients, a \in Aircraft :
        targets[c][a] # Absent =>
            targets[c][a].timers =
                {targets[c][a].state} \ {"NORMAL", "OWNED"}

(***************************************************************************)
(* An aircraft only passes from one sector to another at a client which    *)
(* the first sector had asked, although the server remembers no request.   *)
(***************************************************************************)
ConsentedTransfer ==
    [][\A a \in Aircraft :
          owner[a] # NoOne /\ owner'[a] \notin {NoOne, owner[a]}
          => \E c \in Clients :
                /\ <<a, owner[a], c>> \in asked
                /\ sock[c] = controllers[owner'[a]]
      ]_networkVars

\* The server takes the client's connection to speak for the sector the client
\* has, and the client has been told of it.
InPosition(c) ==
    sock[c] # NoSocket /\ me[c] # NoOne /\ sockets[sock[c]] = me[c]

(***************************************************************************)
(* Displays converge: when the control of an aircraft rests with i (or     *)
(* nobody) for good, every client that stays in position ends up showing   *)
(* i, whatever its controller clicks, whenever it joined, and whichever    *)
(* order lists, claims and radar returns reached it in.                    *)
(***************************************************************************)
DisplaysConverge ==
    \A c \in Clients, a \in Aircraft, i \in Sectors \cup {NoOne} :
        <>[](InPosition(c) /\ owner[a] = i) => <>[]Shows(c, a, i)

(***************************************************************************)
(* A target is not left in the handoff state, in which every command on it *)
(* is turned down, although the other controller may never answer and the  *)
(* answer of an earlier request may start the state again.                 *)
(***************************************************************************)
HandoffsEnd ==
    \A c \in Clients, a \in Aircraft :
        []<>(targets[c][a] = Absent \/ ~T!IsUndergoingHandoff(targets[c][a]))
=============================================================================
