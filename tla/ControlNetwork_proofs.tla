------------------------- MODULE ControlNetwork_proofs -------------------------
(***************************************************************************)
(* Proofs about the clients and the server together, for any clients,      *)
(* sockets, aircraft, positions and bounds.  First the types, and that a   *)
(* step of the network is a step of the session; then what a client makes  *)
(* of the messages under way to it, by an invariant on the queue of its    *)
(* connection whose parts are kept by what a step appends (Grows) and by   *)
(* what the client does with the oldest message.  At last what the clients *)
(* have sent: what they accept was asked, and what they track they are     *)
(* not about to leave without giving it up.                                *)
(***************************************************************************)
EXTENDS ControlNetwork, SimulationSession_proofs

\* A target whose pending timer is the one of its state, and which knows who
\* asks when it is asked to take an aircraft.
SoundTargets ==
    {t \in T!Targets :
        /\ t.timers = {t.state} \ {"NORMAL", "OWNED"}
        /\ T!IsUndergoingInboundHandoff(t) => t.other # NoOne}

\* A new target is sound, and what each method makes of a sound target is.
LEMMA MethodsKeepSound ==
    /\ T!NewTarget \in SoundTargets
    /\ \A t \in SoundTargets :
          /\ \A i \in Sectors \cup {NoOne} :
                /\ T!SetController(t, i) \in SoundTargets
                /\ T!AcceptSucceeded(t, i) \in SoundTargets
                /\ T!HandoffAccepted(t, i) \in SoundTargets
                /\ T!Select(t, i) \in SoundTargets
                /\ \A reported : T!Update(t, reported, i) \in SoundTargets
          /\ \A i \in Sectors : T!RequestSent(t, i) \in SoundTargets
          /\ \A i \in Sectors \cup {NoOne} :
                i # NoOne => T!InboundHandoff(t, i) \in SoundTargets
          /\ T!RefusalSucceeded(t) \in SoundTargets
          /\ T!HandoffRefused(t) \in SoundTargets
          /\ \A timer \in t.timers : T!Timeout(t, timer) \in SoundTargets
<1> USE DEF SoundTargets, T!Targets, T!ControlStates, T!IsUndergoingInboundHandoff
<1>1. T!NewTarget \in SoundTargets
  BY DEF T!NewTarget
<1>. SUFFICES ASSUME NEW t \in SoundTargets
              PROVE  /\ \A i \in Sectors \cup {NoOne} :
                           /\ T!SetController(t, i) \in SoundTargets
                           /\ T!AcceptSucceeded(t, i) \in SoundTargets
                           /\ T!HandoffAccepted(t, i) \in SoundTargets
                           /\ T!Select(t, i) \in SoundTargets
                           /\ \A reported : T!Update(t, reported, i) \in SoundTargets
                     /\ \A i \in Sectors : T!RequestSent(t, i) \in SoundTargets
                     /\ \A i \in Sectors \cup {NoOne} :
                           i # NoOne => T!InboundHandoff(t, i) \in SoundTargets
                     /\ T!RefusalSucceeded(t) \in SoundTargets
                     /\ T!HandoffRefused(t) \in SoundTargets
                     /\ \A timer \in t.timers : T!Timeout(t, timer) \in SoundTargets
  BY <1>1
<1>2. \A i \in Sectors \cup {NoOne} :
         /\ T!SetController(t, i) \in SoundTargets
         /\ T!AcceptSucceeded(t, i) \in SoundTargets
         /\ T!HandoffAccepted(t, i) \in SoundTargets
  BY DEF T!SetController, T!AcceptSucceeded, T!HandoffAccepted
<1>3. \A i \in Sectors \cup {NoOne} : T!Select(t, i) \in SoundTargets
  BY DEF T!Select, T!ClearPostHandoff
<1>4. \A i \in Sectors \cup {NoOne} : \A reported : T!Update(t, reported, i) \in SoundTargets
  BY <1>2 DEF T!Update
<1>5. \A i \in Sectors : T!RequestSent(t, i) \in SoundTargets
  BY DEF T!RequestSent
<1>6. \A i \in Sectors \cup {NoOne} : i # NoOne => T!InboundHandoff(t, i) \in SoundTargets
  BY DEF T!InboundHandoff
<1>7. T!RefusalSucceeded(t) \in SoundTargets /\ T!HandoffRefused(t) \in SoundTargets
  BY DEF T!RefusalSucceeded, T!HandoffRefused
<1>8. \A timer \in t.timers : T!Timeout(t, timer) \in SoundTargets
  BY DEF T!Timeout
<1>. QED  BY <1>2, <1>3, <1>4, <1>5, <1>6, <1>7, <1>8
-----------------------------------------------------------------------------
(***************************************************************************)
(* The clients' variables, and who holds which connection.                 *)
(***************************************************************************)
ClientTypes ==
    /\ sock \in [Clients -> Sockets \cup {NoSocket}]
    /\ me \in [Clients -> Sectors \cup {NoOne}]
    /\ known \in [Clients -> SUBSET Sectors]
    /\ targets \in [Clients -> [Aircraft -> SoundTargets \cup {Absent}]]
    /\ inbox \in [Clients -> Seq(Request)]
    /\ picks \in 0 .. MaxPicks
    /\ heard \in [Clients -> SUBSET Aircraft]
    /\ asked \subseteq Aircraft \X Sectors \X Clients

\* A connection is held by one client; a sector is never of a new connection.
Wired ==
    /\ \A c \in Clients : sock[c] # NoSocket => sock[c] \in Open
    /\ \A c, d \in Clients : sock[c] = sock[d] /\ sock[c] # NoSocket => c = d
    /\ \A s \in Sockets : HasSector(s) => status[s] # "new"

\* A request about an aircraft.
OnAircraft(r) == r.op \notin {"add", "delete"}

\* The requests under way from a client are about targets it has.
TargetsThere ==
    \A c \in Clients : \A n \in 1 .. Len(inbox[c]) :
        OnAircraft(inbox[c][n]) => targets[c][inbox[c][n].aircraft] # Absent

\* What kind of request has which operation.
LEMMA RequestKinds ==
    ASSUME NEW r \in Request
    PROVE  /\ r.op = "add" => r \in AddRequest
           /\ r.op = "delete" => r \in DeleteRequest
           /\ r.op \in {"initiate", "terminate"} => r \in TrackRequest
           /\ r.op \in {"request", "accept", "refuse"} => r \in HandoffRequest
           /\ OnAircraft(r) => r \in TrackRequest \cup HandoffRequest
BY DEF Request, AddRequest, DeleteRequest, TrackRequest, HandoffRequest, OnAircraft

\* What the server does with the request r of the connection s.
Serves(s, r) ==
    \/ r.op = "add" /\ AddController(s, r)
    \/ r.op = "delete" /\ DeleteController(s, r)
    \/ r.op = "initiate" /\ InitiateControl(s, r)
    \/ r.op = "terminate" /\ TerminateControl(s, r)
    \/ r.op = "request" /\ RequestHandoff(s, r)
    \/ r.op = "accept" /\ AcceptHandoff(s, r)
    \/ r.op = "refuse" /\ RefuseHandoff(s, r)

LEMMA ServesHandles ==
    ASSUME NEW s \in Sockets, NEW r \in Request, Serves(s, r)
    PROVE  Next /\ status' = status
<1>1. Handle(s)
  <2>1. CASE r.op = "add" /\ AddController(s, r)
    BY <2>1, RequestKinds DEF Handle
  <2>2. CASE r.op = "delete" /\ DeleteController(s, r)
    BY <2>2, RequestKinds DEF Handle
  <2>3. CASE \/ r.op = "initiate" /\ InitiateControl(s, r)
             \/ r.op = "terminate" /\ TerminateControl(s, r)
    BY <2>3, RequestKinds DEF Handle
  <2>4. CASE \/ r.op = "request" /\ RequestHandoff(s, r)
             \/ r.op = "accept" /\ AcceptHandoff(s, r)
             \/ r.op = "refuse" /\ RefuseHandoff(s, r)
    BY <2>4, RequestKinds DEF Handle
  <2>. QED  BY <2>1, <2>2, <2>3, <2>4 DEF Serves
<1>2. status' = status
  BY DEF Serves, AddController, AddKnown, AddUnknown, DeleteController, InitiateControl,
         TerminateControl, RequestHandoff, AcceptHandoff, RefuseHandoff, Refuse
<1>. QED  BY <1>1, <1>2 DEF Next

\* The oldest request of a client.
LEMMA ServeRequest ==
    ASSUME TypeOK, ClientTypes, NEW c \in Clients, Serve(c)
    PROVE  /\ sock[c] \in Sockets
           /\ inbox[c] \in Seq(Request) /\ inbox[c] # <<>>
           /\ Head(inbox[c]) \in Request
           /\ Serves(sock[c], Head(inbox[c]))
           /\ inbox' = [inbox EXCEPT ![c] = Tail(inbox[c])]
           /\ UNCHANGED <<sock, me, known, targets, picks, heard>>
<1>1. /\ sock[c] \in Sockets /\ inbox[c] \in Seq(Request) /\ inbox[c] # <<>>
      /\ inbox' = [inbox EXCEPT ![c] = Tail(inbox[c])]
      /\ UNCHANGED <<sock, me, known, targets, picks, heard>>
  BY DEF Serve, ClientTypes
<1>2. Head(inbox[c]) \in Request
  BY <1>1
<1>3. Serves(sock[c], Head(inbox[c]))
  BY DEF Serve, Serves
<1>. QED  BY <1>1, <1>2, <1>3

\* A step of the network is a step of the session, or leaves it alone.
LEMMA SessionStep ==
    ASSUME TypeOK, ClientTypes, [NetworkNext]_networkVars
    PROVE  [Next]_sessionVars
<1>1. ASSUME NEW c \in Clients, OpenConnection(c)
      PROVE  Next
  <2>1. PICK s \in Sockets : Connect(s)
    BY <1>1 DEF OpenConnection
  <2>. QED  BY <2>1 DEF Next
<1>2. ASSUME NEW c \in Clients,
             LoseConnection(c) \/ Command(c) \/ \E a \in Aircraft : TimerFires(c, a)
      PROVE  UNCHANGED sessionVars
  BY <1>2 DEF LoseConnection, Command, TimerFires, PickPosition, Click,
       InitiateControlCommand, TerminateControlCommand, SlewCommand, HandoffCommand
<1>3. ASSUME NEW c \in Clients, Serve(c)
      PROVE  Next
  BY <1>3, ServeRequest, ServesHandles
<1>4. ASSUME NEW c \in Clients, Receive(c)
      PROVE  Next
  BY <1>4 DEF Receive, ClientTypes, Next
<1>5. ASSUME NEW s \in Sockets, NoticeLoss(s) \/ Discard(s)
      PROVE  Next
  BY <1>5 DEF NoticeLoss, Discard, Next
<1>6. ASSUME NEW a \in Aircraft, BlipSent(a)
      PROVE  Next
  BY <1>6 DEF BlipSent, Next
<1>7. CASE UNCHANGED networkVars
  BY <1>7 DEF networkVars
<1>. QED  BY <1>1, <1>2, <1>3, <1>4, <1>5, <1>6, <1>7 DEF NetworkNext
-----------------------------------------------------------------------------
\* What each kind of message carries.
LEMMA MessageKinds ==
    ASSUME NEW m \in Message
    PROVE  /\ m.type \in {"ownershipClaimed", "blip"} =>
                 m.aircraft \in Aircraft /\ m.controller \in Sectors \cup {NoOne}
           /\ m.type \in {"handoffRequested", "handoffAccepted", "handoffRefused"} =>
                 m.aircraft \in Aircraft /\ m.controller \in Sectors /\ m.to \in Sectors
           /\ m.type = "controllers" => m.sectors \in SUBSET Sectors
           /\ m.type = "added" => m.sector \in Sectors
           /\ m.type = "deleted" => m.position \in Positions \cup {BadPosition}
           /\ m.type = "answer" => m.request \in TrackRequest \cup HandoffRequest
BY DEF Message

\* A target that is there stays there.
Stays ==
    \A c \in Clients, a \in Aircraft : targets[c][a] # Absent => targets'[c][a] # Absent

\* One target of one client is replaced by a sound one.
LEMMA RetargetTypes ==
    ASSUME ClientTypes, NEW c \in Clients, NEW a \in Aircraft, NEW t \in SoundTargets,
           targets' = [targets EXCEPT ![c][a] = t]
    PROVE  /\ targets' \in [Clients -> [Aircraft -> SoundTargets \cup {Absent}]]
           /\ Stays
<1>1. t # Absent
  BY AbsentAssumption DEF SoundTargets
<1>. QED  BY <1>1 DEF ClientTypes, Stays

\* What a click emits is a request about the target that is clicked.
LEMMA ClickTypes ==
    ASSUME ClientTypes, NEW c \in Clients, NEW a \in Aircraft, NEW emits, NEW r,
           Click(c, a, emits, r), emits => r \in Request
    PROVE  ClientTypes' /\ Stays
<1>1. targets[c][a] \in SoundTargets
  BY DEF Click, ClientTypes
<1>2. T!Select(targets[c][a], me[c]) \in SoundTargets
  BY <1>1, MethodsKeepSound DEF ClientTypes
<1>3. targets' = [targets EXCEPT ![c][a] = T!Select(targets[c][a], me[c])]
  BY DEF Click
<1>4. targets' \in [Clients -> [Aircraft -> SoundTargets \cup {Absent}]] /\ Stays
  BY <1>2, <1>3, RetargetTypes
<1>5. inbox' \in [Clients -> Seq(Request)]
  <2>1. CASE emits
    <3>1. r \in Request /\ inbox[c] \in Seq(Request) /\ inbox \in [Clients -> Seq(Request)]
      BY <2>1 DEF ClientTypes
    <3>2. Append(inbox[c], r) \in Seq(Request)
      BY <3>1
    <3>3. inbox' = [inbox EXCEPT ![c] = Append(inbox[c], r)]
      BY <2>1 DEF Click, Emitted
    <3>. QED  BY <3>1, <3>2, <3>3
  <2>2. CASE ~emits
    BY <2>2 DEF Click, ClientTypes
  <2>. QED  BY <2>1, <2>2
<1>. QED  BY <1>4, <1>5 DEF Click, ClientTypes

LEMMA CommandTypes ==
    ASSUME TypeOK, ClientTypes, NEW c \in Clients, Command(c)
    PROVE  ClientTypes' /\ Stays
<1>1. ASSUME NEW p \in Positions, PickPosition(c, p)
      PROVE  ClientTypes' /\ Stays
  <2>1. [op |-> IF me[c] = NoOne THEN "add" ELSE "delete", position |-> p] \in Request
    BY DEF Request, AddRequest, DeleteRequest
  <2>2. inbox' \in [Clients -> Seq(Request)]
    BY <1>1, <2>1 DEF PickPosition, Emitted, ClientTypes
  <2>3. picks' \in 0 .. MaxPicks
    BY <1>1, BoundsAssumption DEF PickPosition, ClientTypes
  <2>. QED  BY <1>1, <2>2, <2>3 DEF PickPosition, ClientTypes, Stays
<1>2. ASSUME NEW a \in Aircraft, NEW op \in {"initiate", "terminate"}, me[c] # NoOne
      PROVE  TrackOp(op, c, a) \in Request
  BY <1>2 DEF TrackOp, Request, TrackRequest, ClientTypes
<1>3. ASSUME NEW a \in Aircraft, NEW op \in {"request", "accept", "refuse"},
             NEW i \in Sectors, NEW j \in Sectors
      PROVE  HandoffOp(op, a, i, j) \in Request
  BY <1>3 DEF HandoffOp, Request, HandoffRequest
<1>4. ASSUME NEW a \in Aircraft, targets[c][a] # Absent
      PROVE  T!Select(targets[c][a], me[c]).other \in Sectors \cup {NoOne}
  <2>1. targets[c][a] \in SoundTargets /\ me[c] \in Sectors \cup {NoOne}
    BY <1>4 DEF ClientTypes
  <2>2. T!Select(targets[c][a], me[c]) \in SoundTargets
    BY <2>1, MethodsKeepSound
  <2>. QED  BY <2>2 DEF SoundTargets, T!Targets
<1>5. me[c] \in Sectors \cup {NoOne}
  BY DEF ClientTypes
<1>6. ASSUME NEW a \in Aircraft, InitiateControlCommand(c, a)
      PROVE  ClientTypes' /\ Stays
  BY <1>2, <1>6, ClickTypes DEF InitiateControlCommand
<1>7. ASSUME NEW a \in Aircraft, TerminateControlCommand(c, a)
      PROVE  ClientTypes' /\ Stays
  <2> DEFINE t == T!Select(targets[c][a], me[c])
             refusal == T!IsUndergoingInboundHandoff(t)
             emits == /\ ~T!IsUndergoingHandoff(t)
                      /\ me[c] # NoOne
                      /\ refusal => t.other # NoOne
             r == IF refusal THEN HandoffOp("refuse", a, t.other, me[c])
                  ELSE TrackOp("terminate", c, a)
  <2>1. Click(c, a, emits, r)
    BY <1>7 DEF TerminateControlCommand
  <2>2. t.other \in Sectors \cup {NoOne}
    BY <1>4, <2>1 DEF Click
  <2>. HIDE DEF t
  <2>3. emits => r \in Request
    BY <1>2, <1>3, <1>5, <2>2
  <2>. HIDE DEF emits, r
  <2>. QED  BY <2>1, <2>3, ClickTypes
<1>8. ASSUME NEW a \in Aircraft, SlewCommand(c, a)
      PROVE  ClientTypes' /\ Stays
  <2> DEFINE t == T!Select(targets[c][a], me[c])
             emits == /\ T!IsUndergoingInboundHandoff(t)
                      /\ t.other # NoOne
                      /\ me[c] # NoOne
             r == HandoffOp("accept", a, t.other, me[c])
  <2>1. Click(c, a, emits, r)
    BY <1>8 DEF SlewCommand
  <2>2. t.other \in Sectors \cup {NoOne}
    BY <1>4, <2>1 DEF Click
  <2>. HIDE DEF t
  <2>3. emits => r \in Request
    BY <1>3, <1>5, <2>2
  <2>. HIDE DEF emits, r
  <2>. QED  BY <2>1, <2>3, ClickTypes
<1>9. ASSUME NEW a \in Aircraft, NEW to \in Sectors, HandoffCommand(c, a, to)
      PROVE  ClientTypes' /\ Stays
  <2> DEFINE emits == /\ ~T!IsUndergoingHandoff(T!Select(targets[c][a], me[c]))
                      /\ me[c] # NoOne
             r == HandoffOp("request", a, me[c], to)
  <2>1. Click(c, a, emits, r)
    BY <1>9 DEF HandoffCommand
  <2>2. emits => r \in Request
    BY <1>3, <1>5
  <2>. HIDE DEF emits, r
  <2>. QED  BY <2>1, <2>2, ClickTypes
<1>. QED  BY <1>1, <1>6, <1>7, <1>8, <1>9 DEF Command

\* What the client c makes of the message m, its oldest one.
TakesIn(c, m) ==
    \/ m.type = "controllers" /\ ReceiveControllers(c, m)
    \/ m.type = "blip" /\ ReceiveBlip(c, m)
    \/ m.type = "ownershipClaimed" /\ ReceiveOwnership(c, m)
    \/ /\ m.type \in {"handoffRequested", "handoffAccepted", "handoffRefused"}
       /\ ReceiveHandoff(c, m)
    \/ m.type = "added" /\ ReceiveAdded(c, m)
    \/ m.type = "deleted" /\ ReceiveDeleted(c, m)
    \/ m.type = "answer" /\ ReceiveAnswer(c, m)

LEMMA ReceiveMessage ==
    ASSUME TypeOK, ClientTypes, NEW c \in Clients, Receive(c)
    PROVE  /\ sock[c] \in Open
           /\ outbox[sock[c]] \in Seq(Message) /\ outbox[sock[c]] # <<>>
           /\ Head(outbox[sock[c]]) \in Message
           /\ TakesIn(c, Head(outbox[sock[c]]))
           /\ outbox' = [outbox EXCEPT ![sock[c]] = Tail(outbox[sock[c]])]
           /\ UNCHANGED <<status, sockets, controllers, counts, owner, sock, picks, asked>>
<1>1. sock[c] \in Sockets /\ Deliver(sock[c])
  BY DEF Receive, ClientTypes
<1>2. outbox[sock[c]] \in Seq(Message) /\ outbox[sock[c]] # <<>> /\ sock[c] \in Open
  BY <1>1 DEF TypeOK, Deliver
<1>3. Head(outbox[sock[c]]) \in Message
  BY <1>2
<1>4. TakesIn(c, Head(outbox[sock[c]]))
  BY DEF Receive, TakesIn
<1>5. /\ outbox' = [outbox EXCEPT ![sock[c]] = Tail(outbox[sock[c]])]
      /\ UNCHANGED <<status, sockets, controllers, counts, owner, sock, picks, asked>>
  BY <1>1 DEF Deliver, Receive
<1>. QED  BY <1>2, <1>3, <1>4, <1>5

LEMMA ReceiveTypes ==
    ASSUME TypeOK, ClientTypes, NEW c \in Clients, NEW m \in Message, TakesIn(c, m),
           m.type = "answer" => targets[c][m.request.aircraft] # Absent,
           m.type = "handoffRequested" => m.controller \in known[c],
           UNCHANGED <<sock, picks, asked>>
    PROVE  ClientTypes' /\ Stays
<1>1. /\ me[c] \in Sectors \cup {NoOne} /\ known[c] \in SUBSET Sectors
      /\ inbox[c] \in Seq(Request)
      /\ \A a \in Aircraft : targets[c][a] # Absent => targets[c][a] \in SoundTargets
  BY DEF ClientTypes
<1>2. \A i : Lookup(c, i) \in Sectors \cup {NoOne}
  BY <1>1 DEF Lookup
<1>3. CASE m.type = "controllers" /\ ReceiveControllers(c, m)
  <2>1. m.sectors \in SUBSET Sectors
    BY <1>3, MessageKinds
  <2>2. m.sectors \cup ({me[c]} \ {NoOne}) \in SUBSET Sectors
    BY <1>1, <2>1
  <2>. QED  BY <1>3, <2>2 DEF ReceiveControllers, ClientTypes, Stays
<1>4. CASE m.type = "blip" /\ ReceiveBlip(c, m)
  <2> DEFINE t == targets[c][m.aircraft]
             base == IF t = Absent THEN T!NewTarget ELSE t
             u == T!Update(base, m.controller, Lookup(c, m.controller))
  <2>1. m.aircraft \in Aircraft
    BY <1>4, MessageKinds
  <2>2. base \in SoundTargets
    BY <1>1, <2>1, MethodsKeepSound
  <2>3. u \in SoundTargets
    <3>. HIDE DEF base
    <3>. QED  BY <1>2, <2>2, MethodsKeepSound
  <2>4. targets' = [targets EXCEPT ![c][m.aircraft] = u]
    BY <1>4 DEF ReceiveBlip
  <2>. HIDE DEF u
  <2>. QED  BY <1>4, <2>1, <2>3, <2>4, RetargetTypes DEF ReceiveBlip, ClientTypes
<1>5. CASE m.type = "ownershipClaimed" /\ ReceiveOwnership(c, m)
  <2> DEFINE t == targets[c][m.aircraft]
             u == T!SetController(t, Lookup(c, m.controller))
  <2>1. m.aircraft \in Aircraft
    BY <1>5, MessageKinds
  <2>2. targets' = IF t = Absent THEN targets ELSE [targets EXCEPT ![c][m.aircraft] = u]
    BY <1>5 DEF ReceiveOwnership, Retarget
  <2>3. t # Absent => u \in SoundTargets
    BY <1>1, <1>2, <2>1, MethodsKeepSound
  <2>4. UNCHANGED <<me, known, inbox>> /\ heard' \in [Clients -> SUBSET Aircraft]
    BY <1>5, <2>1 DEF ReceiveOwnership, ClientTypes
  <2>. HIDE DEF t, u
  <2>5. CASE t = Absent
    BY <2>2, <2>4, <2>5 DEF ClientTypes, Stays
  <2>6. CASE t # Absent
    BY <2>1, <2>2, <2>3, <2>4, <2>6, RetargetTypes DEF ClientTypes
  <2>. QED  BY <2>5, <2>6
<1>6. CASE /\ m.type \in {"handoffRequested", "handoffAccepted", "handoffRefused"}
           /\ ReceiveHandoff(c, m)
  <2> DEFINE t == targets[c][m.aircraft]
             u == CASE m.type = "handoffRequested" ->
                          T!InboundHandoff(t, Lookup(c, m.controller))
                    [] m.type = "handoffAccepted" ->
                          T!HandoffAccepted(t, Lookup(c, m.to))
                    [] m.type = "handoffRefused" -> T!HandoffRefused(t)
  <2>1. m.aircraft \in Aircraft
    BY <1>6, MessageKinds
  <2>2. targets' = IF t = Absent THEN targets ELSE [targets EXCEPT ![c][m.aircraft] = u]
    BY <1>6 DEF ReceiveHandoff, Retarget
  <2>3. t # Absent => u \in SoundTargets
    <3>. SUFFICES ASSUME t # Absent
                  PROVE  u \in SoundTargets
      OBVIOUS
    <3>1. t \in SoundTargets
      BY <1>1, <2>1
    <3>2. CASE m.type = "handoffRequested"
      <4>1. Lookup(c, m.controller) \in Sectors \cup {NoOne} /\ Lookup(c, m.controller) # NoOne
        BY <1>1, <3>2, ConstantsAssumption DEF Lookup
      <4>2. T!InboundHandoff(t, Lookup(c, m.controller)) \in SoundTargets
        BY <3>1, <4>1, MethodsKeepSound
      <4>. QED  BY <3>2, <4>2
    <3>3. CASE m.type = "handoffAccepted"
      <4>1. T!HandoffAccepted(t, Lookup(c, m.to)) \in SoundTargets
        BY <1>2, <3>1, MethodsKeepSound
      <4>. QED  BY <3>3, <4>1
    <3>4. CASE m.type = "handoffRefused"
      <4>1. T!HandoffRefused(t) \in SoundTargets
        BY <3>1, MethodsKeepSound
      <4>. QED  BY <3>4, <4>1
    <3>. QED  BY <1>6, <3>2, <3>3, <3>4
  <2>4. UNCHANGED <<me, known, inbox>> /\ heard' \in [Clients -> SUBSET Aircraft]
    BY <1>6, <2>1 DEF ReceiveHandoff, ClientTypes
  <2>. HIDE DEF t, u
  <2>5. CASE t = Absent
    BY <2>2, <2>4, <2>5 DEF ClientTypes, Stays
  <2>6. CASE t # Absent
    BY <2>1, <2>2, <2>3, <2>4, <2>6, RetargetTypes DEF ClientTypes
  <2>. QED  BY <2>5, <2>6
<1>7. CASE m.type = "added" /\ ReceiveAdded(c, m)
  <2>1. m.sector \in Sectors
    BY <1>7, MessageKinds
  <2>. QED  BY <1>7, <2>1 DEF ReceiveAdded, ClientTypes, Stays
<1>8. CASE m.type = "deleted" /\ ReceiveDeleted(c, m)
  <2> DEFINE r == [op |-> "add", position |-> m.position]
             left == [a \in Aircraft |->
                         IF targets[c][a] # Absent /\ targets[c][a].controller = me[c]
                         THEN T!SetController(targets[c][a], NoOne) ELSE targets[c][a]]
  <2>1. r \in Request
    BY <1>8, MessageKinds DEF Request, AddRequest
  <2>2. /\ targets' = [targets EXCEPT ![c] = left]
        /\ me' = [me EXCEPT ![c] = NoOne]
        /\ inbox' = [inbox EXCEPT ![c] = Append(inbox[c], r)]
        /\ UNCHANGED <<known, heard>>
    BY <1>8 DEF ReceiveDeleted, Emitted
  <2>3. left \in [Aircraft -> SoundTargets \cup {Absent}]
    <3>1. \A a \in Aircraft :
             targets[c][a] # Absent => T!SetController(targets[c][a], NoOne) \in SoundTargets
      BY <1>1, MethodsKeepSound
    <3>. QED  BY <3>1 DEF ClientTypes
  <2>4. Append(inbox[c], r) \in Seq(Request)
    BY <1>1, <2>1
  <2>5. \A a \in Aircraft : targets[c][a] # Absent => left[a] # Absent
    <3>1. \A a \in Aircraft :
             targets[c][a] # Absent => T!SetController(targets[c][a], NoOne) # Absent
      <4>1. \A t \in SoundTargets : t # Absent
        BY AbsentAssumption DEF SoundTargets
      <4>2. \A t \in SoundTargets : T!SetController(t, NoOne) \in SoundTargets
        BY MethodsKeepSound
      <4>. QED  BY <1>1, <4>1, <4>2
    <3>. QED  BY <3>1
  <2>. HIDE DEF left, r
  <2>6. Stays
    BY <2>2, <2>5 DEF ClientTypes, Stays
  <2>. QED  BY <2>2, <2>3, <2>4, <2>6 DEF ClientTypes
<1>9. CASE m.type = "answer" /\ ReceiveAnswer(c, m)
  <2> DEFINE r == m.request
             t == targets[c][r.aircraft]
             u == CASE m.ok /\ r.op = "request" -> T!RequestSent(t, r.to)
                    [] m.ok /\ r.op = "accept" -> T!AcceptSucceeded(t, me[c])
                    [] m.ok /\ r.op = "refuse" -> T!RefusalSucceeded(t)
                    [] OTHER -> t
  <2>1. /\ r.aircraft \in Aircraft
        /\ r.op = "request" => r.to \in Sectors
    BY <1>9, MessageKinds DEF TrackRequest, HandoffRequest
  <2>2. targets' = [targets EXCEPT ![c][r.aircraft] = u]
    BY <1>9 DEF ReceiveAnswer
  <2>3. t \in SoundTargets
    BY <1>1, <1>9, <2>1
  <2>4. /\ T!AcceptSucceeded(t, me[c]) \in SoundTargets
        /\ T!RefusalSucceeded(t) \in SoundTargets
        /\ r.op = "request" => T!RequestSent(t, r.to) \in SoundTargets
    BY <1>1, <2>1, <2>3, MethodsKeepSound
  <2>. HIDE DEF t
  <2>5. u \in SoundTargets
    BY <2>3, <2>4
  <2>6. UNCHANGED <<me, known, inbox, heard>>
    BY <1>9 DEF ReceiveAnswer
  <2>. HIDE DEF u, r
  <2>7. targets' \in [Clients -> [Aircraft -> SoundTargets \cup {Absent}]] /\ Stays
    BY <2>1, <2>2, <2>5, RetargetTypes
  <2>. QED  BY <2>6, <2>7 DEF ClientTypes
<1>. QED  BY <1>3, <1>4, <1>5, <1>6, <1>7, <1>8, <1>9 DEF TakesIn

\* The steps that are not the receipt of a message keep the types.
LEMMA OtherTypes ==
    ASSUME TypeOK, ClientTypes, [NetworkNext]_networkVars,
           \A c \in Clients : ~Receive(c)
    PROVE  ClientTypes' /\ Stays
<1>1. ASSUME NEW c \in Clients, OpenConnection(c)
      PROVE  ClientTypes' /\ Stays
  <2>1. PICK s \in Sockets : sock' = [sock EXCEPT ![c] = s]
    BY <1>1 DEF OpenConnection
  <2>. QED  BY <1>1, <2>1 DEF OpenConnection, ClientTypes, Stays
<1>2. ASSUME NEW c \in Clients, LoseConnection(c)
      PROVE  ClientTypes' /\ Stays
  <2>1. <<>> \in Seq(Request)
    OBVIOUS
  <2>. QED  BY <1>2, <2>1 DEF LoseConnection, ClientTypes, Stays
<1>3. ASSUME NEW c \in Clients, NEW a \in Aircraft, TimerFires(c, a)
      PROVE  ClientTypes' /\ Stays
  <2>1. PICK timer \in targets[c][a].timers :
           targets' = [targets EXCEPT ![c][a] = T!Timeout(targets[c][a], timer)]
    BY <1>3 DEF TimerFires
  <2>2. targets[c][a] \in SoundTargets
    BY <1>3 DEF TimerFires, ClientTypes
  <2>3. T!Timeout(targets[c][a], timer) \in SoundTargets
    BY <2>1, <2>2, MethodsKeepSound
  <2>4. targets' \in [Clients -> [Aircraft -> SoundTargets \cup {Absent}]] /\ Stays
    BY <2>1, <2>3, RetargetTypes
  <2>. QED  BY <1>3, <2>4 DEF TimerFires, ClientTypes
<1>4. ASSUME NEW c \in Clients, Serve(c)
      PROVE  ClientTypes' /\ Stays
  <2> DEFINE s == sock[c]
             r == Head(inbox[c])
  <2>1. /\ s \in Sockets /\ r \in Request
        /\ inbox[c] \in Seq(Request) /\ inbox[c] # <<>>
        /\ inbox' = [inbox EXCEPT ![c] = Tail(inbox[c])]
        /\ UNCHANGED <<sock, me, known, targets, picks, heard>>
    BY <1>4, ServeRequest
  <2>2. asked' \subseteq Aircraft \X Sectors \X Clients
    <3>1. r.op = "request" => r.aircraft \in Aircraft /\ r.controller \in Sectors
      BY <2>1, RequestKinds DEF HandoffRequest
    <3>2. \A x \in asked' \ asked : r.op = "request"
             /\ \E d \in Clients : x = <<r.aircraft, r.controller, d>>
      BY <1>4 DEF Serve
    <3>. HIDE DEF r
    <3>. QED  BY <3>1, <3>2 DEF ClientTypes
  <2>3. Tail(inbox[c]) \in Seq(Request)
    BY <2>1
  <2>. QED  BY <2>1, <2>2, <2>3 DEF ClientTypes, Stays
<1>5. CASE \/ \E s \in Sockets : NoticeLoss(s) \/ Discard(s)
           \/ \E a \in Aircraft : BlipSent(a)
           \/ UNCHANGED networkVars
  BY <1>5 DEF NoticeLoss, Discard, BlipSent, networkVars, clientVars, ClientTypes, Stays
<1>. QED  BY <1>1, <1>2, <1>3, <1>4, <1>5, CommandTypes DEF NetworkNext
-----------------------------------------------------------------------------
\* Connections do not become new again, and only open ones get a sector.
LEMMA ConnectionsAge ==
    ASSUME TypeOK, [Next]_sessionVars, NEW s \in Sockets
    PROVE  /\ status[s] # "new" => status'[s] # "new"
           /\ HasSector(s)' => HasSector(s) \/ s \in Open
<1>1. status[s] # "new" => status'[s] # "new"
  <2>1. ASSUME NEW t \in Sockets, Handle(t)
        PROVE  status' = status
    BY <2>1 DEF Handle, AddController, AddKnown, AddUnknown, DeleteController,
         InitiateControl, TerminateControl, RequestHandoff, AcceptHandoff,
         RefuseHandoff, Refuse
  <2>2. ASSUME NEW t \in Sockets, Connect(t) \/ Disconnect(t) \/ Deliver(t)
        PROVE  status[s] # "new" => status'[s] # "new"
    BY <2>2 DEF Connect, Disconnect, Deliver, TypeOK
  <2>3. CASE (\E a \in Aircraft : Blip(a)) \/ UNCHANGED sessionVars
    BY <2>3 DEF Blip, sessionVars
  <2>. QED  BY <2>1, <2>2, <2>3 DEF Next
<1>2. HasSector(s)' => HasSector(s) \/ s \in Open
  <2>1. CASE TablesSame
    BY <2>1 DEF TablesSame, HasSector
  <2>2. ASSUME NEW t \in Sockets, NEW p \in Positions, Takes(t, p)
        PROVE  HasSector(s)' => HasSector(s) \/ s \in Open
    <3>1. /\ controllers' = [controllers EXCEPT ![<<p, counts[p]>>] = t]
          /\ t \in Open
      BY <2>2 DEF Takes, Open
    <3>2. \A i \in Sectors : controllers'[i] \in {controllers[i], t}
      BY <3>1 DEF TypeOK
    <3>. QED  BY <3>1, <3>2 DEF HasSector
  <2>3. ASSUME NEW t \in Sockets, GivesUp(t)
        PROVE  HasSector(s)' => HasSector(s)
    BY <2>3, ConstantsAssumption DEF GivesUp, Unstaff, HasSector
  <2>4. ASSUME NEW a \in Aircraft, NEW i \in Sectors \cup {NoOne}, Passes(a, i)
        PROVE  HasSector(s)' => HasSector(s)
    BY <2>4 DEF Passes, HasSector
  <2>. QED  BY <2>1, <2>2, <2>3, <2>4, Effects
<1>. QED  BY <1>1, <1>2

LEMMA WiredStep ==
    ASSUME TypeOK, ClientTypes, Wired, [NetworkNext]_networkVars
    PROVE  Wired'
<1>1. \A s \in Sockets : HasSector(s)' => status'[s] # "new"
  BY SessionStep, ConnectionsAge DEF Wired, Open
<1>2. ASSUME status' = status, sock' = sock
      PROVE  Wired'
  BY <1>1, <1>2 DEF Wired, Open
<1>3. ASSUME NEW c \in Clients, OpenConnection(c)
      PROVE  Wired'
  <2>1. PICK s \in Sockets :
           /\ status[s] = "new" /\ status' = [status EXCEPT ![s] = "open"]
           /\ sock' = [sock EXCEPT ![c] = s]
    BY <1>3 DEF OpenConnection, Connect
  <2>2. \A d \in Clients : sock[d] # s
    BY <2>1, ConstantsAssumption DEF Wired, Open
  <2>. QED  BY <1>1, <2>1, <2>2, ConstantsAssumption DEF Wired, Open, TypeOK, ClientTypes
<1>4. ASSUME NEW c \in Clients, LoseConnection(c)
      PROVE  Wired'
  BY <1>1, <1>4 DEF LoseConnection, Wired, Open, sessionVars, ClientTypes
<1>5. ASSUME NEW s \in Sockets, NoticeLoss(s)
      PROVE  Wired'
  BY <1>1, <1>5 DEF NoticeLoss, Disconnect, Wired, Open, clientVars, TypeOK
<1>6. ASSUME NEW c \in Clients, Serve(c)
      PROVE  Wired'
  BY <1>2, <1>6, ServeRequest, ServesHandles
<1>7. ASSUME NEW c \in Clients, Receive(c)
      PROVE  Wired'
  BY <1>2, <1>7, ReceiveMessage
<1>8. ASSUME NEW c \in Clients, Command(c) \/ \E a \in Aircraft : TimerFires(c, a)
      PROVE  Wired'
  BY <1>2, <1>8 DEF Command, TimerFires, PickPosition, Click, sessionVars,
       InitiateControlCommand, TerminateControlCommand, SlewCommand, HandoffCommand
<1>9. CASE \/ \E s \in Sockets : Discard(s)
           \/ \E a \in Aircraft : BlipSent(a)
           \/ UNCHANGED networkVars
  BY <1>2, <1>9
     DEF Discard, BlipSent, Deliver, Blip, networkVars, clientVars, sessionVars
<1>. QED  BY <1>3, <1>4, <1>5, <1>6, <1>7, <1>8, <1>9 DEF NetworkNext
-----------------------------------------------------------------------------
(***************************************************************************)
(* What a step is to one client: its connection is new, or gone; or the    *)
(* server goes on, or the client's targets change, or it reads a message.  *)
(***************************************************************************)
Keeps(c) == UNCHANGED <<me[c], known[c], heard[c]>>

Begins(c) ==
    /\ UNCHANGED <<me[c], known[c], targets[c]>>
    /\ heard'[c] = {}
    /\ \E s \in Sockets :
          /\ sock'[c] = s /\ outbox'[s] = <<>>
          /\ sockets'[s] = NoOne /\ ~HasSector(s)'

ServerGoesOn(c) ==
    /\ Keeps(c) /\ UNCHANGED targets[c]
    /\ \E s \in Sockets, X \in SUBSET Request :
          /\ sock[c] = s /\ sock'[c] = s
          /\ Grown(s, X)
          /\ \A r \in X : OnAircraft(r) => targets[c][r.aircraft] # Absent

\* The client's own commands and timers change no controller it shows.
ClientActs(c) ==
    /\ UNCHANGED sessionVars
    /\ sock'[c] = sock[c] /\ Keeps(c)
    /\ \A a \in Aircraft :
          targets'[c][a] # targets[c][a] =>
             /\ targets[c][a] # Absent
             /\ targets'[c][a].controller = targets[c][a].controller

\* The methods behind a click and a timer do not change the controller.
LEMMA MethodsKeepController ==
    ASSUME NEW t \in SoundTargets
    PROVE  /\ \A i : T!Select(t, i).controller = t.controller
           /\ \A timer \in t.timers : T!Timeout(t, timer).controller = t.controller
BY DEF T!Select, T!ClearPostHandoff, T!Timeout, SoundTargets, T!Targets

\* A step that leaves the session alone, or what it holds for the client's
\* connection, is one in which the server goes on.
LEMMA GoesOnIdle ==
    ASSUME TypeOK, ClientTypes, NEW c \in Clients, sock[c] # NoSocket,
           sock'[c] = sock[c], Keeps(c), UNCHANGED targets[c],
           outbox'[sock[c]] = outbox[sock[c]], UNCHANGED <<sockets, controllers, owner>>
    PROVE  ServerGoesOn(c)
<1>1. PICK s \in Sockets : sock[c] = s
  BY DEF ClientTypes
<1>2. Grown(s, {}) /\ {} \in SUBSET Request
  BY <1>1, GrownByNothing
<1>. QED  BY <1>1, <1>2 DEF ServerGoesOn

\* The server takes the request of the client d.
LEMMA ServeGoesOn ==
    ASSUME TypeOK, ClientTypes, Wired, TargetsThere,
           NEW d \in Clients, Serve(d), NEW c \in Clients, sock[c] # NoSocket
    PROVE  ServerGoesOn(c)
<1>1. PICK s \in Sockets, r \in Request, t \in Sockets :
         s = sock[d] /\ r = Head(inbox[d]) /\ t = sock[c]
  BY ServeRequest DEF ClientTypes
<1> DEFINE X == IF t = s THEN {r} ELSE {}
<1>2. /\ Serves(s, r)
      /\ inbox[d] \in Seq(Request) /\ inbox[d] # <<>>
      /\ UNCHANGED <<sock, me, known, targets, heard>>
  BY <1>1, ServeRequest
<1>3. t \in Open
  BY <1>1 DEF Wired
<1>4. Grown(t, X)
  <2>1. t = s => r \in X
    OBVIOUS
  <2>. HIDE DEF X
  <2>2. CASE r.op = "add" /\ AddController(s, r)
    BY <1>3, <2>2, RequestKinds, AddGrows
  <2>3. CASE r.op = "delete" /\ DeleteController(s, r)
    BY <1>3, <2>3, RequestKinds, DeleteGrows
  <2>4. CASE \/ r.op = "initiate" /\ InitiateControl(s, r)
             \/ r.op = "terminate" /\ TerminateControl(s, r)
    <3>1. r \in TrackRequest
      BY <2>4, RequestKinds
    <3>. QED  BY <1>3, <2>1, <2>4, <3>1, TrackGrows
  <2>5. CASE \/ r.op = "request" /\ RequestHandoff(s, r)
             \/ r.op = "accept" /\ AcceptHandoff(s, r)
             \/ r.op = "refuse" /\ RefuseHandoff(s, r)
    <3>1. r \in HandoffRequest
      BY <2>5, RequestKinds
    <3>. QED  BY <1>3, <2>1, <2>5, <3>1, HandoffGrows
  <2>. QED  BY <1>2, <2>2, <2>3, <2>4, <2>5 DEF Serves
<1>5. \A x \in X : OnAircraft(x) => targets[c][x.aircraft] # Absent
  <2>. SUFFICES ASSUME t = s, OnAircraft(r)
                PROVE  targets[c][r.aircraft] # Absent
    OBVIOUS
  <2>1. c = d
    BY <1>1 DEF Wired
  <2>2. 1 \in 1 .. Len(inbox[d]) /\ inbox[d][1] = r
    BY <1>1, <1>2
  <2>. QED  BY <2>1, <2>2 DEF TargetsThere
<1>6. X \in SUBSET Request /\ sock[c] = t /\ sock'[c] = t
  BY <1>1, <1>2
<1>. HIDE DEF X
<1>. QED  BY <1>2, <1>4, <1>5, <1>6 DEF ServerGoesOn, Keeps

LEMMA ClientSteps ==
    ASSUME TypeOK, TablesAgree, WordInv, ClientTypes, Wired, TargetsThere,
           [NetworkNext]_networkVars, NEW c \in Clients, sock'[c] # NoSocket
    PROVE  \/ sock[c] = NoSocket /\ Begins(c)
           \/ sock[c] # NoSocket /\ ServerGoesOn(c)
           \/ sock[c] # NoSocket /\ ClientActs(c)
           \/ Receive(c)
<1>1. sock[c] # NoSocket => sock[c] \in Open /\ sock[c] \in Sockets
  BY DEF Wired, ClientTypes
<1>2. ASSUME UNCHANGED sock, Keeps(c), UNCHANGED targets[c], UNCHANGED sessionVars
      PROVE  sock[c] # NoSocket /\ ServerGoesOn(c)
  BY <1>2, GoesOnIdle DEF sessionVars
<1>3. ASSUME NEW d \in Clients, OpenConnection(d)
      PROVE  \/ sock[c] = NoSocket /\ Begins(c)
             \/ sock[c] # NoSocket /\ ServerGoesOn(c)
  <2>1. PICK s \in Sockets :
           /\ status[s] = "new" /\ sock[d] = NoSocket
           /\ sock' = [sock EXCEPT ![d] = s]
           /\ heard' = [heard EXCEPT ![d] = {}]
           /\ UNCHANGED <<me, known, targets, sockets, controllers, owner, outbox>>
    BY <1>3 DEF OpenConnection, Connect
  <2>2. CASE d = c
    <3>1. s \notin Open /\ outbox[s] = <<>>
      BY <2>1 DEF WordInv, Silent, Open
    <3>2. sockets[s] = NoOne /\ ~HasSector(s)
      BY <2>1, <3>1 DEF TablesAgree, SocketIndex, Wired
    <3>3. sock'[c] = s /\ heard'[c] = {}
      BY <2>1, <2>2 DEF ClientTypes
    <3>4. ~HasSector(s)'
      BY <2>1, <3>2 DEF HasSector
    <3>5. /\ UNCHANGED <<me[c], known[c], targets[c]>>
          /\ outbox'[s] = <<>> /\ sockets'[s] = NoOne
      BY <2>1, <3>1, <3>2
    <3>6. Begins(c)
      BY <3>3, <3>4, <3>5 DEF Begins
    <3>. QED  BY <2>1, <2>2, <3>6
  <2>3. CASE d # c
    <3>1. sock'[c] = sock[c] /\ heard'[c] = heard[c]
      BY <2>1, <2>3
    <3>. QED  BY <2>1, <3>1, GoesOnIdle DEF Keeps
  <2>. QED  BY <2>2, <2>3
<1>4. ASSUME NEW d \in Clients, LoseConnection(d)
      PROVE  sock[c] # NoSocket /\ ServerGoesOn(c)
  <2>1. /\ sock' = [sock EXCEPT ![d] = NoSocket]
        /\ UNCHANGED <<sessionVars, me, known, targets, heard>>
    BY <1>4 DEF LoseConnection
  <2>2. d # c /\ sock'[c] = sock[c]
    BY <2>1 DEF ClientTypes
  <2>. QED  BY <2>1, <2>2, GoesOnIdle DEF Keeps, sessionVars
<1>5. ASSUME NEW s \in Sockets, NoticeLoss(s)
      PROVE  sock[c] # NoSocket /\ ServerGoesOn(c)
  <2>1. PICK t \in Sockets : sock[c] = t /\ t \in Open \ {s} /\ Disconnect(s)
    BY <1>1, <1>5 DEF NoticeLoss, clientVars
  <2>2. Grown(t, {}) /\ {} \in SUBSET Request
    BY <2>1, DisconnectGrows
  <2>3. sock[c] # NoSocket
    BY <2>1, ConstantsAssumption
  <2>. QED  BY <1>5, <2>1, <2>2, <2>3 DEF NoticeLoss, clientVars, ServerGoesOn, Keeps
<1>6. ASSUME NEW d \in Clients, NEW a \in Aircraft, NEW t, t.controller = targets[d][a].controller,
             targets[d][a] # Absent, targets' = [targets EXCEPT ![d][a] = t],
             UNCHANGED <<sessionVars, sock, me, known, heard>>
      PROVE  ClientActs(c)
  BY <1>6 DEF ClientActs, Keeps, ClientTypes
<1>7. ASSUME NEW d \in Clients, NEW a \in Aircraft, TimerFires(d, a)
      PROVE  sock[c] # NoSocket /\ ClientActs(c)
  <2>1. PICK timer \in targets[d][a].timers :
           targets' = [targets EXCEPT ![d][a] = T!Timeout(targets[d][a], timer)]
    BY <1>7 DEF TimerFires
  <2>2. targets[d][a] \in SoundTargets
    BY <1>7 DEF TimerFires, ClientTypes
  <2>. QED  BY <1>6, <1>7, <2>1, <2>2, MethodsKeepController DEF TimerFires
<1>8. ASSUME NEW d \in Clients, NEW a \in Aircraft, NEW emits, NEW r, Click(d, a, emits, r)
      PROVE  sock[c] # NoSocket /\ ClientActs(c)
  <2>1. targets[d][a] \in SoundTargets
    BY <1>8 DEF Click, ClientTypes
  <2>. QED  BY <1>6, <1>8, <2>1, MethodsKeepController DEF Click
<1>9. ASSUME NEW d \in Clients, Command(d)
      PROVE  sock[c] # NoSocket /\ (ClientActs(c) \/ ServerGoesOn(c))
  <2>1. CASE \E p \in Positions : PickPosition(d, p)
    BY <1>2, <2>1 DEF PickPosition, Keeps
  <2>2. ASSUME NEW a \in Aircraft,
               \/ InitiateControlCommand(d, a)
               \/ TerminateControlCommand(d, a)
               \/ SlewCommand(d, a)
               \/ \E to \in Sectors : HandoffCommand(d, a, to)
        PROVE  sock[c] # NoSocket /\ ClientActs(c)
    BY <1>8, <2>2 DEF InitiateControlCommand, TerminateControlCommand, SlewCommand,
         HandoffCommand
  <2>. QED  BY <1>9, <2>1, <2>2 DEF Command
<1>10. ASSUME NEW d \in Clients, Serve(d)
       PROVE  sock[c] # NoSocket /\ ServerGoesOn(c)
  <2>1. sock[c] # NoSocket
    BY <1>10, ServeRequest
  <2>. QED  BY <1>10, <2>1, ServeGoesOn
<1>11. ASSUME NEW d \in Clients, Receive(d), d # c
       PROVE  sock[c] # NoSocket /\ ServerGoesOn(c)
  <2>1. /\ sock[d] \in Open
        /\ outbox' = [outbox EXCEPT ![sock[d]] = Tail(outbox[sock[d]])]
        /\ UNCHANGED <<sockets, controllers, owner, sock>>
        /\ TakesIn(d, Head(outbox[sock[d]]))
    BY <1>11, ReceiveMessage
  <2>2. sock[c] # NoSocket /\ sock[c] # sock[d] /\ outbox'[sock[c]] = outbox[sock[c]]
    BY <1>1, <1>11, <2>1 DEF Wired, TypeOK
  <2>3. /\ \A m : TakesIn(d, m) => UNCHANGED <<me[c], known[c], heard[c]>>
        /\ \A m : TakesIn(d, m) => UNCHANGED targets[c]
    BY <1>11 DEF TakesIn, ReceiveControllers, ReceiveBlip, ReceiveOwnership, ReceiveHandoff,
         ReceiveAdded, ReceiveDeleted, ReceiveAnswer, Retarget, ClientTypes
  <2>. QED  BY <2>1, <2>2, <2>3, GoesOnIdle DEF Keeps
<1>12. ASSUME NEW s \in Sockets, Discard(s)
       PROVE  sock[c] # NoSocket /\ ServerGoesOn(c)
  <2>1. sock[c] # NoSocket /\ sock[c] # s /\ UNCHANGED <<sock, me, known, targets, heard>>
    BY <1>12 DEF Discard, clientVars
  <2>2. outbox'[sock[c]] = outbox[sock[c]] /\ UNCHANGED <<sockets, controllers, owner>>
    BY <1>1, <1>12, <2>1 DEF Discard, Deliver, TypeOK
  <2>. QED  BY <2>1, <2>2, GoesOnIdle DEF Keeps
<1>13. ASSUME NEW a \in Aircraft, BlipSent(a)
       PROVE  sock[c] # NoSocket /\ ServerGoesOn(c)
  <2>1. sock[c] # NoSocket /\ UNCHANGED <<sock, me, known, targets, heard>> /\ Blip(a)
    BY <1>13 DEF BlipSent, clientVars
  <2>2. PICK t \in Sockets : sock[c] = t /\ t \in Open
    BY <1>1, <2>1
  <2>3. Grown(t, {}) /\ {} \in SUBSET Request
    BY <2>1, <2>2, BlipGrows
  <2>. QED  BY <2>1, <2>2, <2>3 DEF ServerGoesOn, Keeps
<1>14. CASE UNCHANGED networkVars
  BY <1>2, <1>14 DEF networkVars, clientVars, Keeps
<1>. QED
  BY <1>3, <1>4, <1>5, <1>7, <1>9, <1>10, <1>11, <1>12, <1>13, <1>14 DEF NetworkNext
-----------------------------------------------------------------------------
(***************************************************************************)
(* The queue q of a client's connection, oldest message first.             *)
(***************************************************************************)
\* When the message n is read, the client's list has the sector i: the last list
\* before it does, or the client's present list K if none comes before it.
KnownAt(q, K, n, i) ==
    /\ (\A k \in 1 .. n - 1 : ~IsList(q[k])) => i \in K
    /\ \A k \in 1 .. n - 1 :
          IsList(q[k]) /\ (\A j \in k + 1 .. n - 1 : ~IsList(q[j])) => i \in q[k].sectors

\* When the message n is read, the client, now the controller x, is the sector i.
NameAt(q, x, n, i) ==
    /\ (\A k \in 1 .. n - 1 : ~Names(q[k])) => x = i
    /\ \A k \in 1 .. n - 1 :
          Names(q[k]) /\ (\A j \in k + 1 .. n - 1 : ~Names(q[j])) => Named(q[k]) = i

\* Who requests a handoff will be in the list of who is asked.
RequestsKnown(q, K) ==
    \A n \in 1 .. Len(q) :
        q[n].type = "handoffRequested" => KnownAt(q, K, n, q[n].controller)

\* A connection that has a sector is told of the staffed ones, S.
ListsComing(q, K, S) == (\A n \in 1 .. Len(q) : ~IsList(q[n])) => S \subseteq K

\* The last word about an aircraft that a client has accepted is still the truth.
AcceptsTrue(q, w) ==
    \A n \in 1 .. Len(q) :
        /\ OkAccept(q[n])
        /\ \A k \in n + 1 .. Len(q) : ~Tells(q[k], q[n].request.aircraft)
        => w[q[n].request.aircraft] = q[n].request.to

\* A client reads the answer to an acceptance as the sector that accepted.
AcceptsOwn(q, x) ==
    \A n \in 1 .. Len(q) : OkAccept(q[n]) => NameAt(q, x, n, q[n].request.to)

\* The parts of two queues in a row.
LEMMA ConcatParts ==
    ASSUME NEW p \in Seq(Message), NEW r \in Seq(Message), NEW z, z = p \o r
    PROVE  /\ z \in Seq(Message)
           /\ Len(p) \in Nat /\ Len(r) \in Nat /\ Len(z) = Len(p) + Len(r)
           /\ \A n \in 1 .. Len(p) : z[n] = p[n] /\ n \in 1 .. Len(z)
           /\ \A n \in 1 .. Len(r) : z[Len(p) + n] = r[n] /\ Len(p) + n \in 1 .. Len(z)
           /\ \A n \in 1 .. Len(z) :
                 n \in 1 .. Len(p) \/ \E k \in 1 .. Len(r) : n = Len(p) + k
<1>1. /\ z \in Seq(Message)
      /\ Len(p) \in Nat /\ Len(r) \in Nat /\ Len(z) = Len(p) + Len(r)
      /\ \A n \in 1 .. Len(p) : z[n] = p[n] /\ n \in 1 .. Len(z)
      /\ \A n \in 1 .. Len(r) : z[Len(p) + n] = r[n] /\ Len(p) + n \in 1 .. Len(z)
  OBVIOUS
<1>2. ASSUME NEW n \in 1 .. Len(z), n \notin 1 .. Len(p)
      PROVE  \E k \in 1 .. Len(r) : n = Len(p) + k
  <2>1. n - Len(p) \in 1 .. Len(r) /\ n = Len(p) + (n - Len(p))
    BY <1>1, <1>2
  <2>. QED  BY <2>1
<1>. QED  BY <1>1, <1>2

\* What is appended does not matter to what is read before it.
LEMMA AtConcat ==
    ASSUME NEW p \in Seq(Message), NEW r \in Seq(Message), NEW z, z = p \o r,
           NEW n \in 1 .. Len(p) + 1, NEW x, NEW i
    PROVE  /\ KnownAt(p, x, n, i) => KnownAt(z, x, n, i)
           /\ NameAt(p, x, n, i) => NameAt(z, x, n, i)
<1>1. \A k \in 1 .. n - 1 : z[k] = p[k] /\ \A j \in k + 1 .. n - 1 : j \in 1 .. n - 1
  BY ConcatParts
<1>2. KnownAt(p, x, n, i) => KnownAt(z, x, n, i)
  BY <1>1 DEF KnownAt
<1>3. NameAt(p, x, n, i) => NameAt(z, x, n, i)
  BY <1>1 DEF NameAt
<1>. QED  BY <1>2, <1>3

\* Messages that are no lists, and no names, do not matter to what follows them.
LEMMA AtEnd ==
    ASSUME NEW p \in Seq(Message), NEW r \in Seq(Message), NEW z, z = p \o r,
           NEW n \in 1 .. Len(r) + 1, NEW x, NEW i
    PROVE  /\ KnownAt(p, x, Len(p) + 1, i) /\ (\A k \in 1 .. Len(r) : ~IsList(r[k]))
              => KnownAt(z, x, Len(p) + n, i)
           /\ NameAt(p, x, Len(p) + 1, i) /\ (\A k \in 1 .. Len(r) : ~Names(r[k]))
              => NameAt(z, x, Len(p) + n, i)
<1> DEFINE N == Len(p) + n
<1>1. /\ Len(p) \in Nat /\ Len(r) \in Nat /\ Len(z) = Len(p) + Len(r)
      /\ \A k \in 1 .. Len(p) : z[k] = p[k]
      /\ \A k \in 1 .. Len(r) : z[Len(p) + k] = r[k]
  BY ConcatParts
<1>8. N \in Nat /\ N = Len(p) + n
  BY <1>1
<1>. HIDE DEF N
<1>2. \A k \in 1 .. N - 1 :
         k \in 1 .. Len(p) \/ (k - Len(p) \in 1 .. Len(r) /\ k = Len(p) + (k - Len(p)))
  BY <1>8, <1>1
<1>3. \A k \in 1 .. Len(p) : k \in 1 .. N - 1
  BY <1>8, <1>1
<1>4. \A k \in 1 .. Len(p) :
         \A j \in k + 1 .. Len(p) : j \in k + 1 .. N - 1 /\ z[j] = p[j]
  BY <1>8, <1>1
<1>5. Len(p) + 1 - 1 = Len(p)
  BY <1>1
<1>6. ASSUME KnownAt(p, x, Len(p) + 1, i), \A k \in 1 .. Len(r) : ~IsList(r[k])
      PROVE  KnownAt(z, x, N, i)
  <2>1. \A k \in 1 .. N - 1 : IsList(z[k]) => k \in 1 .. Len(p) /\ z[k] = p[k]
    BY <1>1, <1>2, <1>6
  <2>2. (\A k \in 1 .. N - 1 : ~IsList(z[k])) => i \in x
    BY <1>1, <1>3, <1>5, <1>6 DEF KnownAt
  <2>3. ASSUME NEW k \in 1 .. N - 1, IsList(z[k]),
               \A j \in k + 1 .. N - 1 : ~IsList(z[j])
        PROVE  i \in z[k].sectors
    <3>1. k \in 1 .. Len(p) /\ z[k] = p[k]
      BY <2>1, <2>3
    <3>2. \A j \in k + 1 .. Len(p) : ~IsList(p[j])
      BY <1>4, <2>3, <3>1
    <3>3. k \in 1 .. Len(p) + 1 - 1 /\ \A j \in k + 1 .. Len(p) + 1 - 1 : ~IsList(p[j])
      BY <1>5, <3>1, <3>2
    <3>4. i \in p[k].sectors
      BY <1>6, <2>3, <3>1, <3>3 DEF KnownAt
    <3>. QED  BY <3>1, <3>4
  <2>. QED  BY <2>2, <2>3 DEF KnownAt
<1>7. ASSUME NameAt(p, x, Len(p) + 1, i), \A k \in 1 .. Len(r) : ~Names(r[k])
      PROVE  NameAt(z, x, N, i)
  <2>1. \A k \in 1 .. N - 1 : Names(z[k]) => k \in 1 .. Len(p) /\ z[k] = p[k]
    BY <1>1, <1>2, <1>7
  <2>2. (\A k \in 1 .. N - 1 : ~Names(z[k])) => x = i
    BY <1>1, <1>3, <1>5, <1>7 DEF NameAt
  <2>3. ASSUME NEW k \in 1 .. N - 1, Names(z[k]),
               \A j \in k + 1 .. N - 1 : ~Names(z[j])
        PROVE  Named(z[k]) = i
    <3>1. k \in 1 .. Len(p) /\ z[k] = p[k]
      BY <2>1, <2>3
    <3>2. \A j \in k + 1 .. Len(p) : ~Names(p[j])
      BY <1>4, <2>3, <3>1
    <3>3. k \in 1 .. Len(p) + 1 - 1 /\ \A j \in k + 1 .. Len(p) + 1 - 1 : ~Names(p[j])
      BY <1>5, <3>1, <3>2
    <3>4. Named(p[k]) = i
      BY <1>7, <2>3, <3>1, <3>3 DEF NameAt
    <3>. QED  BY <3>1, <3>4
  <2>. QED  BY <2>2, <2>3 DEF NameAt
<1>. QED  BY <1>6, <1>7 DEF N

\* What the client makes of the oldest message: its new list, its new sector.
LEMMA AtTail ==
    ASSUME NEW q \in Seq(Message), q # <<>>, NEW n \in 1 .. Len(Tail(q)) + 1,
           NEW K, NEW L, NEW x, NEW y, NEW i,
           IF IsList(q[1]) THEN q[1].sectors \subseteq L ELSE L = K,
           y = IF Names(q[1]) THEN Named(q[1]) ELSE x
    PROVE  /\ KnownAt(q, K, n + 1, i) => KnownAt(Tail(q), L, n, i)
           /\ NameAt(q, x, n + 1, i) => NameAt(Tail(q), y, n, i)
<1> DEFINE z == Tail(q)
<1>1. Len(q) \in Nat /\ Len(z) = Len(q) - 1 /\ \A k \in 1 .. Len(z) : z[k] = q[k + 1]
  OBVIOUS
<1>. HIDE DEF z
<1>2. n \in Nat /\ n + 1 - 1 = n /\ 1 \in 1 .. n + 1 - 1
  BY <1>1 DEF z
<1>3. \A k \in 2 .. n : k - 1 \in 1 .. n - 1 /\ q[k] = z[k - 1]
  BY <1>1 DEF z
<1>4. \A k \in 1 .. n - 1 :
         /\ k + 1 \in 1 .. n + 1 - 1 /\ q[k + 1] = z[k]
         /\ \A j \in k + 1 + 1 .. n + 1 - 1 : j - 1 \in k + 1 .. n - 1 /\ q[j] = z[j - 1]
  BY <1>1 DEF z
<1>5. ASSUME KnownAt(q, K, n + 1, i)
      PROVE  KnownAt(z, L, n, i)
  <2>1. ASSUME \A k \in 1 .. n - 1 : ~IsList(z[k])
        PROVE  i \in L
    <3>1. \A k \in 2 .. n : ~IsList(q[k])
      BY <1>3, <2>1
    <3>2. CASE IsList(q[1])
      BY <1>2, <1>5, <3>1, <3>2 DEF KnownAt
    <3>3. CASE ~IsList(q[1])
      <4>1. \A k \in 1 .. n + 1 - 1 : ~IsList(q[k])
        BY <1>2, <3>1, <3>3
      <4>. QED  BY <1>5, <3>3, <4>1 DEF KnownAt
    <3>. QED  BY <3>2, <3>3
  <2>2. ASSUME NEW k \in 1 .. n - 1, IsList(z[k]), \A j \in k + 1 .. n - 1 : ~IsList(z[j])
        PROVE  i \in z[k].sectors
    BY <1>4, <1>5, <2>2 DEF KnownAt
  <2>. QED  BY <2>1, <2>2 DEF KnownAt
<1>6. ASSUME NameAt(q, x, n + 1, i)
      PROVE  NameAt(z, y, n, i)
  <2>1. ASSUME \A k \in 1 .. n - 1 : ~Names(z[k])
        PROVE  y = i
    <3>1. \A k \in 2 .. n : ~Names(q[k])
      BY <1>3, <2>1
    <3>2. CASE Names(q[1])
      BY <1>2, <1>6, <3>1, <3>2 DEF NameAt
    <3>3. CASE ~Names(q[1])
      <4>1. \A k \in 1 .. n + 1 - 1 : ~Names(q[k])
        BY <1>2, <3>1, <3>3
      <4>. QED  BY <1>6, <3>3, <4>1 DEF NameAt
    <3>. QED  BY <3>2, <3>3
  <2>2. ASSUME NEW k \in 1 .. n - 1, Names(z[k]), \A j \in k + 1 .. n - 1 : ~Names(z[j])
        PROVE  Named(z[k]) = i
    BY <1>4, <1>6, <2>2 DEF NameAt
  <2>. QED  BY <2>1, <2>2 DEF NameAt
<1>. QED  BY <1>5, <1>6 DEF z
-----------------------------------------------------------------------------
(***************************************************************************)
(* What is under way to a client whose list is K and whose sector is x,    *)
(* when the session's owners are w and its staffed sectors S, when the     *)
(* connection has a sector or not (has), and speaks for the sector i.      *)
(***************************************************************************)
Waits(q, K, x, w, S, has, i) ==
    /\ has => ListsComing(q, K, S)
    /\ RequestsKnown(q, K)
    /\ AcceptsTold(q)
    /\ AcceptsTrue(q, w)
    /\ AcceptsOwn(q, x)
    /\ i # NoOne => NameAt(q, x, Len(q) + 1, i)

\* Of the aircraft H, which the client was told of, its targets g show nothing
\* wrong but what q corrects.
ShowsRight(q, H, g, w) ==
    \A a \in H :
        (\A n \in 1 .. Len(q) : ~Tells(q[n], a)) /\ g[a] # Absent
        => g[a].controller \in {w[a], NoOne}

\* The client has the targets that answers are about.
AnswersThere(q, g) ==
    \A n \in 1 .. Len(q) : IsAnswer(q[n]) => g[q[n].request.aircraft] # Absent

\* A new connection.
LEMMA WaitsEmpty ==
    ASSUME NEW K, NEW x, NEW w, NEW S, NEW g, NEW has, ~has
    PROVE  /\ Waits(<<>>, K, x, w, S, has, NoOne)
           /\ ShowsRight(<<>>, {}, g, w)
           /\ AnswersThere(<<>>, g)
<1>1. Len(<<>>) = 0 /\ 1 .. Len(<<>>) = {}
  OBVIOUS
<1>. QED
  BY <1>1 DEF Waits, ShowsRight, AnswersThere, RequestsKnown, AcceptsTold, AcceptsTrue,
     AcceptsOwn

\* An acceptance that succeeded is a request about an aircraft, by a sector.
LEMMA OkAcceptRequest ==
    ASSUME NEW m \in Message, OkAccept(m)
    PROVE  m.request.aircraft \in Aircraft /\ m.request.to \in Sectors
BY DEF OkAccept, IsAnswer, Message, TrackRequest, HandoffRequest

\* At the end of a queue the client is what it was named last.
LEMMA NameLast ==
    ASSUME NEW z, NEW N \in Nat, NEW x, NEW i,
           \E k \in 1 .. N : Names(z[k]),
           \A k \in 1 .. N :
              Names(z[k]) /\ (\A j \in k + 1 .. N : ~Names(z[j])) => Named(z[k]) = i
    PROVE  NameAt(z, x, N + 1, i)
<1>1. N + 1 - 1 = N
  OBVIOUS
<1>. QED  BY <1>1 DEF NameAt

(***************************************************************************)
(* What the server appends keeps the queue as it should be.                *)
(***************************************************************************)
LEMMA WaitsAppend ==
    ASSUME NEW s \in Sockets, NEW K, NEW x, NEW X,
           NEW p \in Seq(Message), NEW r \in Seq(Message), NEW z, z = p \o r,
           ListSays(p, Staffed),
           Waits(p, K, x, owner, Staffed, HasSector(s), sockets[s]),
           TellsChanges(r), AcceptsTold(r), RequestsStaffed(s, r),
           AnswersTrue(s, r, X), PositionTold(s, r)
    PROVE  Waits(z, K, x, owner', Staffed', HasSector(s)', sockets'[s])
<1>1. /\ TellsChanges(r) /\ AcceptsTold(r) /\ RequestsStaffed(s, r)
      /\ AnswersTrue(s, r, X) /\ PositionTold(s, r)
      /\ ListSays(p, Staffed)
      /\ Waits(p, K, x, owner, Staffed, HasSector(s), sockets[s])
  OBVIOUS
<1>2. /\ z \in Seq(Message)
      /\ Len(p) \in Nat /\ Len(r) \in Nat /\ Len(z) = Len(p) + Len(r)
      /\ \A n \in 1 .. Len(p) : z[n] = p[n] /\ n \in 1 .. Len(z)
      /\ \A n \in 1 .. Len(r) : z[Len(p) + n] = r[n] /\ Len(p) + n \in 1 .. Len(z)
      /\ \A n \in 1 .. Len(z) :
            n \in 1 .. Len(p) \/ \E k \in 1 .. Len(r) : n = Len(p) + k
  <2>1. /\ z \in Seq(Message)
        /\ Len(p) \in Nat /\ Len(r) \in Nat /\ Len(z) = Len(p) + Len(r)
        /\ \A n \in 1 .. Len(p) : z[n] = p[n] /\ n \in 1 .. Len(z)
        /\ \A n \in 1 .. Len(r) : z[Len(p) + n] = r[n] /\ Len(p) + n \in 1 .. Len(z)
    BY ConcatParts
  <2>2. \A n \in 1 .. Len(z) :
           n \in 1 .. Len(p) \/ \E k \in 1 .. Len(r) : n = Len(p) + k
    <3>. TAKE n \in 1 .. Len(z)
    <3>1. n \notin 1 .. Len(p) => n - Len(p) \in 1 .. Len(r) /\ n = Len(p) + (n - Len(p))
      BY <2>1
    <3>. QED  BY <3>1
  <2>. QED  BY <2>1, <2>2
<1>3. \A n \in 1 .. Len(p) : \A k \in n + 1 .. Len(p) : k \in n + 1 .. Len(z) /\ z[k] = p[k]
  BY <1>2
<1>4. \A n \in 1 .. Len(p) : \A k \in 1 .. Len(r) : Len(p) + k \in n + 1 .. Len(z)
  BY <1>2
<1>5. \A n \in 1 .. Len(r) : \A k \in n + 1 .. Len(r) :
         Len(p) + k \in Len(p) + n + 1 .. Len(z) /\ z[Len(p) + k] = r[k]
  BY <1>2
<1>6. HasSector(s)' => ListsComing(z, K, Staffed')
  <2>. SUFFICES ASSUME HasSector(s)', \A n \in 1 .. Len(z) : ~IsList(z[n])
                PROVE  Staffed' \subseteq K
    BY DEF ListsComing
  <2>1. /\ \A n \in 1 .. Len(p) : ~IsList(p[n])
        /\ \A n \in 1 .. Len(r) : ~IsList(r[n])
    BY <1>2
  <2>2. Staffed' = Staffed /\ HasSector(s)
    BY <1>1, <2>1 DEF TellsChanges, PositionTold
  <2>. QED  BY <1>1, <2>1, <2>2 DEF Waits, ListsComing
<1>7. RequestsKnown(z, K)
  <2>. SUFFICES ASSUME NEW n \in 1 .. Len(z), z[n].type = "handoffRequested"
                PROVE  KnownAt(z, K, n, z[n].controller)
    BY DEF RequestsKnown
  <2>1. CASE n \in 1 .. Len(p)
    <3>1. z[n] = p[n] /\ n \in 1 .. Len(p) + 1
      BY <1>2, <2>1
    <3>2. KnownAt(p, K, n, z[n].controller)
      BY <1>1, <2>1, <3>1 DEF Waits, RequestsKnown
    <3>. QED  BY <1>1, <3>1, <3>2, AtConcat
  <2>2. ASSUME NEW k \in 1 .. Len(r), n = Len(p) + k
        PROVE  KnownAt(z, K, n, z[n].controller)
    <3> DEFINE i == z[n].controller
    <3>1. z[n] = r[k] /\ k \in 1 .. Len(r) + 1
      BY <1>2, <2>2
    <3>2. i \in Staffed /\ HasSector(s) /\ \A j \in 1 .. Len(r) : ~IsList(r[j])
      BY <1>1, <3>1 DEF RequestsStaffed
    <3>3. Len(p) + 1 - 1 = Len(p)
      BY <1>2
    <3>. HIDE DEF i
    <3>4. (\A j \in 1 .. Len(p) : ~IsList(p[j])) => i \in K
      BY <1>1, <3>2 DEF Waits, ListsComing
    <3>5. ASSUME NEW j \in 1 .. Len(p), IsList(p[j]), \A h \in j + 1 .. Len(p) : ~IsList(p[h])
          PROVE  i \in p[j].sectors
      BY <1>1, <3>2, <3>5 DEF ListSays
    <3>6. KnownAt(p, K, Len(p) + 1, i)
      BY <3>3, <3>4, <3>5 DEF KnownAt
    <3>. QED  BY <1>1, <2>2, <3>1, <3>2, <3>6, AtEnd DEF i
  <2>. QED  BY <1>2, <2>1, <2>2
<1>8. AcceptsTold(z)
  <2>. SUFFICES ASSUME NEW n \in 1 .. Len(z), z[n].type = "handoffAccepted"
                PROVE  \E k \in n + 1 .. Len(z) : Tells(z[k], z[n].aircraft)
    BY DEF AcceptsTold
  <2>1. CASE n \in 1 .. Len(p)
    <3>1. z[n] = p[n]
      BY <1>2, <2>1
    <3>2. PICK k \in n + 1 .. Len(p) : Tells(p[k], p[n].aircraft)
      BY <1>1, <2>1, <3>1 DEF Waits, AcceptsTold
    <3>. QED  BY <1>3, <2>1, <3>1, <3>2
  <2>2. ASSUME NEW j \in 1 .. Len(r), n = Len(p) + j
        PROVE  \E k \in n + 1 .. Len(z) : Tells(z[k], z[n].aircraft)
    <3>1. z[n] = r[j]
      BY <1>2, <2>2
    <3>2. PICK k \in j + 1 .. Len(r) : Tells(r[k], r[j].aircraft)
      BY <1>1, <2>2, <3>1 DEF AcceptsTold
    <3>. QED  BY <1>5, <2>2, <3>1, <3>2
  <2>. QED  BY <1>2, <2>1, <2>2
<1>9. AcceptsTrue(z, owner')
  <2>. SUFFICES ASSUME NEW n \in 1 .. Len(z), OkAccept(z[n]),
                       \A k \in n + 1 .. Len(z) : ~Tells(z[k], z[n].request.aircraft)
                PROVE  owner'[z[n].request.aircraft] = z[n].request.to
    BY DEF AcceptsTrue
  <2>1. CASE n \in 1 .. Len(p)
    <3>1. z[n] = p[n] /\ p[n] \in Message
      BY <1>1, <1>2, <2>1
    <3>2. p[n].request.aircraft \in Aircraft
      BY <3>1, OkAcceptRequest
    <3>3. \A k \in n + 1 .. Len(p) : ~Tells(p[k], p[n].request.aircraft)
      BY <1>3, <2>1, <3>1
    <3>4. owner[p[n].request.aircraft] = p[n].request.to
      BY <1>1, <2>1, <3>1, <3>3 DEF Waits, AcceptsTrue
    <3>5. \A k \in 1 .. Len(r) : ~Tells(r[k], p[n].request.aircraft)
      BY <1>2, <1>4, <2>1, <3>1
    <3>. QED  BY <1>1, <3>1, <3>2, <3>4, <3>5 DEF TellsChanges
  <2>2. ASSUME NEW j \in 1 .. Len(r), n = Len(p) + j
        PROVE  owner'[z[n].request.aircraft] = z[n].request.to
    <3>1. z[n] = r[j]
      BY <1>2, <2>2
    <3>. QED  BY <1>1, <3>1 DEF AnswersTrue
  <2>. QED  BY <1>2, <2>1, <2>2
<1>10. AcceptsOwn(z, x)
  <2>. SUFFICES ASSUME NEW n \in 1 .. Len(z), OkAccept(z[n])
                PROVE  NameAt(z, x, n, z[n].request.to)
    BY DEF AcceptsOwn
  <2>1. CASE n \in 1 .. Len(p)
    <3>1. z[n] = p[n] /\ n \in 1 .. Len(p) + 1
      BY <1>2, <2>1
    <3>2. NameAt(p, x, n, z[n].request.to)
      BY <1>1, <2>1, <3>1 DEF Waits, AcceptsOwn
    <3>. QED  BY <1>1, <3>1, <3>2, AtConcat
  <2>2. ASSUME NEW k \in 1 .. Len(r), n = Len(p) + k
        PROVE  NameAt(z, x, n, z[n].request.to)
    <3>1. z[n] = r[k] /\ k \in 1 .. Len(r) + 1 /\ r[k] \in Message
      BY <1>1, <1>2, <2>2
    <3>2. /\ sockets[s] = z[n].request.to
          /\ \A j \in 1 .. Len(r) : ~Names(r[j])
      BY <1>1, <3>1 DEF AnswersTrue
    <3>3. z[n].request.to # NoOne
      BY <3>1, OkAcceptRequest, ConstantsAssumption
    <3>4. NameAt(p, x, Len(p) + 1, z[n].request.to)
      BY <1>1, <3>2, <3>3 DEF Waits
    <3>. QED  BY <1>1, <2>2, <3>1, <3>2, <3>4, AtEnd
  <2>. QED  BY <1>2, <2>1, <2>2
<1>11. ASSUME sockets'[s] # NoOne
       PROVE  NameAt(z, x, Len(z) + 1, sockets'[s])
  <2>1. CASE \A n \in 1 .. Len(r) : ~Names(r[n])
    <3>1. sockets'[s] = sockets[s]
      BY <1>1, <1>11, <2>1 DEF PositionTold
    <3>2. NameAt(p, x, Len(p) + 1, sockets'[s])
      BY <1>1, <1>11, <3>1 DEF Waits
    <3>3. Len(r) + 1 \in 1 .. Len(r) + 1 /\ Len(p) + (Len(r) + 1) = Len(z) + 1
      BY <1>2
    <3>. QED  BY <1>1, <2>1, <3>2, <3>3, AtEnd
  <2>2. ASSUME NEW n \in 1 .. Len(r), Names(r[n])
        PROVE  NameAt(z, x, Len(z) + 1, sockets'[s])
    <3>1. sockets'[s] = Named(r[n]) /\ \A k \in 1 .. Len(r) : Names(r[k]) => k = n
      BY <1>1, <2>2 DEF PositionTold
    <3>4. Len(p) + n \in 1 .. Len(z) /\ z[Len(p) + n] = r[n]
      BY <1>2
    <3>5. Len(z) + 1 - 1 = Len(z)
      BY <1>2
    <3>2. Len(z) + 1 - 1 = Len(z) /\ Len(p) + n \in 1 .. Len(z) /\ z[Len(p) + n] = r[n]
      BY <3>4, <3>5
    <3>3. ASSUME NEW k \in 1 .. Len(z), Names(z[k]), \A j \in k + 1 .. Len(z) : ~Names(z[j])
          PROVE  Named(z[k]) = sockets'[s]
      <4>1. k \notin 1 .. Len(p)
        BY <1>4, <2>2, <3>2, <3>3
      <4>2. PICK j \in 1 .. Len(r) : k = Len(p) + j
        BY <1>2, <4>1
      <4>3. z[k] = r[j] /\ j = n
        BY <1>2, <3>1, <3>3, <4>2
      <4>. QED  BY <3>1, <4>3
    <3>6. \E k \in 1 .. Len(z) : Names(z[k])
      BY <2>2, <3>2
    <3>7. Len(z) \in Nat
      BY <1>2
    <3>. QED  BY <3>3, <3>6, <3>7, NameLast
  <2>. QED  BY <2>1, <2>2
<1>. QED  BY <1>6, <1>7, <1>8, <1>9, <1>10, <1>11 DEF Waits

(***************************************************************************)
(* What the client makes of the oldest message of the queue q: its list L, *)
(* its sector y.                                                           *)
(***************************************************************************)
LEMMA WaitsTail ==
    ASSUME NEW q \in Seq(Message), q # <<>>, NEW K, NEW L, NEW x, NEW y, NEW w, NEW S,
           NEW has, NEW i,
           IF IsList(q[1]) THEN q[1].sectors \subseteq L ELSE L = K,
           y = IF Names(q[1]) THEN Named(q[1]) ELSE x,
           ListSays(q, S),
           Waits(q, K, x, w, S, has, i)
    PROVE  Waits(Tail(q), L, y, w, S, has, i)
<1> DEFINE z == Tail(q)
<1>1. /\ Len(q) \in Nat /\ Len(z) = Len(q) - 1 /\ Len(q) > 0
      /\ \A n \in 1 .. Len(z) : z[n] = q[n + 1] /\ n + 1 \in 1 .. Len(q)
  OBVIOUS
<1>2. \A n \in 1 .. Len(z) + 1 :
         /\ \A j : KnownAt(q, K, n + 1, j) => KnownAt(z, L, n, j)
         /\ \A j : NameAt(q, x, n + 1, j) => NameAt(z, y, n, j)
  BY AtTail
<1>. HIDE DEF z
<1>3. \A n \in 1 .. Len(z) : n \in 1 .. Len(z) + 1
  BY <1>1
<1>4. \A n \in 1 .. Len(z) : \A k \in n + 1 + 1 .. Len(q) :
         k - 1 \in n + 1 .. Len(z) /\ z[k - 1] = q[k]
  BY <1>1
<1>5. has => ListsComing(z, L, S)
  <2>. SUFFICES ASSUME has, \A n \in 1 .. Len(z) : ~IsList(z[n])
                PROVE  S \subseteq L
    BY DEF ListsComing
  <2>1. \A n \in 2 .. Len(q) : ~IsList(q[n])
    <3>1. \A n \in 2 .. Len(q) : n - 1 \in 1 .. Len(z) /\ z[n - 1] = q[n]
      BY <1>1
    <3>. QED  BY <3>1
  <2>2. CASE IsList(q[1])
    <3>1. 1 \in 1 .. Len(q) /\ \A n \in 1 + 1 .. Len(q) : ~IsList(q[n])
      BY <1>1, <2>1
    <3>2. q[1].sectors = S
      BY <2>2, <3>1 DEF ListSays
    <3>. QED  BY <2>2, <3>2
  <2>3. CASE ~IsList(q[1])
    <3>1. \A n \in 1 .. Len(q) : n = 1 \/ n \in 2 .. Len(q)
      BY <1>1
    <3>2. \A n \in 1 .. Len(q) : ~IsList(q[n])
      BY <2>1, <2>3, <3>1
    <3>. QED  BY <2>3, <3>2 DEF Waits, ListsComing
  <2>. QED  BY <2>2, <2>3
<1>6. RequestsKnown(z, L)
  BY <1>1, <1>2, <1>3 DEF RequestsKnown, Waits
<1>7. AcceptsTold(z)
  <2>. SUFFICES ASSUME NEW n \in 1 .. Len(z), z[n].type = "handoffAccepted"
                PROVE  \E k \in n + 1 .. Len(z) : Tells(z[k], z[n].aircraft)
    BY DEF AcceptsTold
  <2>1. PICK k \in n + 1 + 1 .. Len(q) : Tells(q[k], q[n + 1].aircraft)
    BY <1>1 DEF Waits, AcceptsTold
  <2>. QED  BY <1>1, <1>4, <2>1
<1>8. AcceptsTrue(z, w)
  <2>. SUFFICES ASSUME NEW n \in 1 .. Len(z), OkAccept(z[n]),
                       \A k \in n + 1 .. Len(z) : ~Tells(z[k], z[n].request.aircraft)
                PROVE  w[z[n].request.aircraft] = z[n].request.to
    BY DEF AcceptsTrue
  <2>1. z[n] = q[n + 1] /\ n + 1 \in 1 .. Len(q)
    BY <1>1
  <2>2. \A k \in n + 1 + 1 .. Len(q) : ~Tells(q[k], q[n + 1].request.aircraft)
    BY <1>4, <2>1
  <2>. QED  BY <2>1, <2>2 DEF Waits, AcceptsTrue
<1>9. AcceptsOwn(z, y)
  BY <1>1, <1>2, <1>3 DEF AcceptsOwn, Waits
<1>10. i # NoOne => NameAt(z, y, Len(z) + 1, i)
  <2>1. Len(z) + 1 \in 1 .. Len(z) + 1 /\ Len(z) + 1 + 1 = Len(q) + 1
    BY <1>1
  <2>. QED  BY <1>2, <2>1 DEF Waits
<1>. QED  BY <1>5, <1>6, <1>7, <1>8, <1>9, <1>10 DEF Waits, z

\* What the oldest message of a queue finds at the client that reads it.
LEMMA OldestMessage ==
    ASSUME NEW q \in Seq(Message), q # <<>>, NEW K, NEW x, NEW w, NEW S, NEW has, NEW i,
           NEW g, Waits(q, K, x, w, S, has, i), AnswersThere(q, g)
    PROVE  /\ q[1].type = "handoffRequested" => q[1].controller \in K
           /\ IsAnswer(q[1]) => g[q[1].request.aircraft] # Absent
           /\ q[1].type = "handoffAccepted" =>
                 \E k \in 1 .. Len(Tail(q)) : Tells(Tail(q)[k], q[1].aircraft)
           /\ OkAccept(q[1]) =>
                 /\ x = q[1].request.to
                 /\ \/ \E k \in 1 .. Len(Tail(q)) : Tells(Tail(q)[k], q[1].request.aircraft)
                    \/ w[q[1].request.aircraft] = q[1].request.to
<1>1. /\ Len(q) \in Nat /\ 1 \in 1 .. Len(q)
      /\ \A k \in 1 + 1 .. Len(q) : k - 1 \in 1 .. Len(Tail(q)) /\ Tail(q)[k - 1] = q[k]
  OBVIOUS
<1>2. 1 .. 1 - 1 = {}
  OBVIOUS
<1>3. q[1].type = "handoffRequested" => q[1].controller \in K
  BY <1>1, <1>2 DEF Waits, RequestsKnown, KnownAt
<1>4. IsAnswer(q[1]) => g[q[1].request.aircraft] # Absent
  BY <1>1 DEF AnswersThere
<1>5. q[1].type = "handoffAccepted" =>
         \E k \in 1 .. Len(Tail(q)) : Tells(Tail(q)[k], q[1].aircraft)
  BY <1>1 DEF Waits, AcceptsTold
<1>6. OkAccept(q[1]) => x = q[1].request.to
  BY <1>1, <1>2 DEF Waits, AcceptsOwn, NameAt
<1>7. OkAccept(q[1]) =>
         \/ \E k \in 1 .. Len(Tail(q)) : Tells(Tail(q)[k], q[1].request.aircraft)
         \/ w[q[1].request.aircraft] = q[1].request.to
  BY <1>1 DEF Waits, AcceptsTrue
<1>. QED  BY <1>3, <1>4, <1>5, <1>6, <1>7
-----------------------------------------------------------------------------
(***************************************************************************)
(* The inductive invariant, client by client.                              *)
(***************************************************************************)
QueueInv ==
    \A c \in Clients, s \in Sockets :
        sock[c] = s =>
            /\ Waits(outbox[s], known[c], me[c], owner, Staffed, HasSector(s), sockets[s])
            /\ ShowsRight(outbox[s], heard[c], targets[c], owner)
            /\ AnswersThere(outbox[s], targets[c])

\* A queue of requests that got one more, or lost its oldest one.
LEMMA RequestsOf ==
    ASSUME NEW q \in Seq(Request), NEW g, NEW h, NEW z,
           \A n \in 1 .. Len(q) : OnAircraft(q[n]) => g[q[n].aircraft] # Absent,
           \A a \in Aircraft : g[a] # Absent => h[a] # Absent,
           \/ z = q
           \/ z = <<>>
           \/ q # <<>> /\ z = Tail(q)
           \/ \E r \in Request :
                 z = Append(q, r) /\ (OnAircraft(r) => g[r.aircraft] # Absent)
    PROVE  \A n \in 1 .. Len(z) : OnAircraft(z[n]) => h[z[n].aircraft] # Absent
<1>1. \A r \in Request : OnAircraft(r) => r.aircraft \in Aircraft
  BY RequestKinds DEF TrackRequest, HandoffRequest
<1>2. \A n \in 1 .. Len(q) : q[n] \in Request
  OBVIOUS
<1>3. \A n \in 1 .. Len(q) : OnAircraft(q[n]) => h[q[n].aircraft] # Absent
  BY <1>1, <1>2
<1>4. \A n \in 1 .. Len(z) :
         \/ \E k \in 1 .. Len(q) : z[n] = q[k]
         \/ z[n] \in Request /\ (OnAircraft(z[n]) => g[z[n].aircraft] # Absent)
  <2>. TAKE n \in 1 .. Len(z)
  <2>1. CASE z = q
    BY <2>1
  <2>2. CASE z = <<>>
    BY <2>2
  <2>3. CASE q # <<>> /\ z = Tail(q)
    <3>1. n + 1 \in 1 .. Len(q) /\ z[n] = q[n + 1]
      BY <2>3
    <3>. QED  BY <3>1
  <2>4. ASSUME NEW r \in Request, z = Append(q, r), OnAircraft(r) => g[r.aircraft] # Absent
        PROVE  \/ \E k \in 1 .. Len(q) : z[n] = q[k]
               \/ z[n] \in Request /\ (OnAircraft(z[n]) => g[z[n].aircraft] # Absent)
    <3>1. (n \in 1 .. Len(q) /\ z[n] = q[n]) \/ z[n] = r
      BY <2>4
    <3>. QED  BY <2>4, <3>1
  <2>. QED  BY <2>1, <2>2, <2>3, <2>4
<1>. QED  BY <1>1, <1>3, <1>4

\* What the oldest message makes of the client's list and of its sector.
LEMMA TakesLists ==
    ASSUME ClientTypes, NEW c \in Clients, NEW m \in Message, TakesIn(c, m)
    PROVE  /\ IF IsList(m) THEN m.sectors \subseteq known'[c] ELSE known'[c] = known[c]
           /\ me'[c] = IF Names(m) THEN Named(m) ELSE me[c]
<1> USE DEF ClientTypes, IsList, Names, Named
<1>1. CASE m.type = "controllers" /\ ReceiveControllers(c, m)
  BY <1>1 DEF ReceiveControllers
<1>2. CASE m.type = "added" /\ ReceiveAdded(c, m)
  BY <1>2 DEF ReceiveAdded
<1>3. CASE m.type = "deleted" /\ ReceiveDeleted(c, m)
  BY <1>3 DEF ReceiveDeleted
<1>4. CASE \/ m.type = "blip" /\ ReceiveBlip(c, m)
           \/ m.type = "ownershipClaimed" /\ ReceiveOwnership(c, m)
           \/ /\ m.type \in {"handoffRequested", "handoffAccepted", "handoffRefused"}
              /\ ReceiveHandoff(c, m)
           \/ m.type = "answer" /\ ReceiveAnswer(c, m)
  BY <1>4 DEF ReceiveBlip, ReceiveOwnership, ReceiveHandoff, ReceiveAnswer
<1>. QED  BY <1>1, <1>2, <1>3, <1>4 DEF TakesIn

\* The message tells who tracks the aircraft a, and says i: the client shows i,
\* or nobody if i is not in its list.
LEMMA TakesWord ==
    ASSUME ClientTypes, NEW c \in Clients, NEW m \in Message, TakesIn(c, m),
           NEW a \in Aircraft, Tells(m, a), targets'[c][a] # Absent
    PROVE  targets'[c][a].controller \in {m.controller, NoOne}
<1>1. m.aircraft = a /\ Lookup(c, m.controller) \in {m.controller, NoOne}
  BY DEF Tells, Lookup
<1>2. targets[c][a] # Absent => targets[c][a] \in SoundTargets
  BY DEF ClientTypes
<1>3. CASE m.type = "blip"
  <2> DEFINE t == IF targets[c][a] = Absent THEN T!NewTarget ELSE targets[c][a]
             u == T!Update(t, m.controller, Lookup(c, m.controller))
  <2>1. t \in SoundTargets
    BY <1>2, MethodsKeepSound
  <2>2. targets' = [targets EXCEPT ![c][a] = u]
    BY <1>1, <1>3 DEF TakesIn, ReceiveBlip
  <2>. HIDE DEF t
  <2>3. u.controller \in {m.controller, NoOne}
    BY <1>1, <2>1 DEF T!Update, T!SetController, SoundTargets, T!Targets
  <2>. HIDE DEF u
  <2>. QED  BY <2>2, <2>3 DEF ClientTypes
<1>4. CASE m.type = "ownershipClaimed"
  <2> DEFINE t == targets[c][a]
             u == T!SetController(t, Lookup(c, m.controller))
  <2>1. targets' = IF t = Absent THEN targets ELSE [targets EXCEPT ![c][a] = u]
    BY <1>1, <1>4 DEF TakesIn, ReceiveOwnership, Retarget
  <2>2. t # Absent
    BY <2>1
  <2>3. u.controller \in {m.controller, NoOne}
    BY <1>1, <1>2, <2>2 DEF T!SetController, SoundTargets, T!Targets
  <2>. HIDE DEF u
  <2>. QED  BY <2>1, <2>2, <2>3 DEF ClientTypes
<1>. QED  BY <1>3, <1>4 DEF Tells

\* Any other message leaves the controller of a, or takes it away, unless it
\* says that a handoff was accepted.
LEMMA TakesOther ==
    ASSUME ClientTypes, NEW c \in Clients, NEW m \in Message, TakesIn(c, m),
           NEW a \in Aircraft, ~Tells(m, a), targets'[c][a] # Absent,
           IsAnswer(m) => targets[c][m.request.aircraft] # Absent
    PROVE  \/ /\ targets[c][a] # Absent
              /\ targets'[c][a].controller \in {targets[c][a].controller, NoOne}
           \/ m.type = "handoffAccepted" /\ m.aircraft = a
           \/ /\ OkAccept(m) /\ m.request.aircraft = a
              /\ targets'[c][a].controller = me[c]
<1>1. targets[c][a] # Absent => targets[c][a] \in SoundTargets
  BY DEF ClientTypes
<1>2. CASE targets'[c][a] = targets[c][a]
  BY <1>2
<1>3. CASE m.type \in {"controllers", "added"}
  BY <1>2, <1>3 DEF TakesIn, ReceiveControllers, ReceiveAdded
<1>4. CASE m.type \in {"blip", "ownershipClaimed"}
  <2>1. m.aircraft # a
    BY <1>4 DEF Tells
  <2>2. targets'[c][a] = targets[c][a]
    BY <1>4, <2>1 DEF TakesIn, ReceiveBlip, ReceiveOwnership, Retarget, ClientTypes
  <2>. QED  BY <1>2, <2>2
<1>5. CASE m.type = "deleted"
  <2>1. targets'[c][a] =
           IF targets[c][a] # Absent /\ targets[c][a].controller = me[c]
           THEN T!SetController(targets[c][a], NoOne) ELSE targets[c][a]
    BY <1>5 DEF TakesIn, ReceiveDeleted, ClientTypes
  <2>2. CASE targets[c][a] # Absent /\ targets[c][a].controller = me[c]
    <3>1. T!SetController(targets[c][a], NoOne).controller = NoOne
      BY <1>1, <2>2 DEF T!SetController, SoundTargets, T!Targets
    <3>. QED  BY <2>1, <2>2, <3>1
  <2>3. CASE ~(targets[c][a] # Absent /\ targets[c][a].controller = me[c])
    BY <1>2, <2>1, <2>3
  <2>. QED  BY <2>2, <2>3
<1>6. CASE m.type \in {"handoffRequested", "handoffAccepted", "handoffRefused"}
  <2> DEFINE t == targets[c][m.aircraft]
             u == CASE m.type = "handoffRequested" ->
                          T!InboundHandoff(t, Lookup(c, m.controller))
                    [] m.type = "handoffAccepted" ->
                          T!HandoffAccepted(t, Lookup(c, m.to))
                    [] m.type = "handoffRefused" -> T!HandoffRefused(t)
  <2>1. targets' = IF t = Absent THEN targets ELSE [targets EXCEPT ![c][m.aircraft] = u]
    BY <1>6 DEF TakesIn, ReceiveHandoff, Retarget
  <2>2. m.type # "handoffAccepted" /\ t \in SoundTargets => u.controller = t.controller
    BY <1>6 DEF T!InboundHandoff, T!HandoffRefused, SoundTargets, T!Targets
  <2>. HIDE DEF u
  <2>3. CASE m.aircraft # a \/ t = Absent
    <3>1. targets'[c][a] = targets[c][a]
      BY <2>1, <2>3 DEF ClientTypes
    <3>. QED  BY <1>2, <3>1
  <2>4. CASE m.aircraft = a /\ t # Absent
    <3>1. targets'[c][a] = u
      BY <2>1, <2>4 DEF ClientTypes
    <3>. QED  BY <1>1, <2>2, <2>4, <3>1
  <2>. QED  BY <2>3, <2>4
<1>7. CASE m.type = "answer"
  <2> DEFINE r == m.request
             t == targets[c][r.aircraft]
             u == CASE m.ok /\ r.op = "request" -> T!RequestSent(t, r.to)
                    [] m.ok /\ r.op = "accept" -> T!AcceptSucceeded(t, me[c])
                    [] m.ok /\ r.op = "refuse" -> T!RefusalSucceeded(t)
                    [] OTHER -> t
  <2>1. r.aircraft \in Aircraft /\ t # Absent
    BY <1>7, MessageKinds DEF IsAnswer, TrackRequest, HandoffRequest
  <2>2. targets' = [targets EXCEPT ![c][r.aircraft] = u]
    BY <1>7 DEF TakesIn, ReceiveAnswer
  <2>3. t \in SoundTargets
    BY <2>1 DEF ClientTypes
  <2>4. /\ T!AcceptSucceeded(t, me[c]).controller = me[c]
        /\ T!RefusalSucceeded(t).controller = t.controller
        /\ T!RequestSent(t, r.to).controller = t.controller
    BY <2>3 DEF T!AcceptSucceeded, T!RefusalSucceeded, T!RequestSent, SoundTargets, T!Targets
  <2>5. u.controller = IF m.ok /\ r.op = "accept" THEN me[c] ELSE t.controller
    <3>. HIDE DEF t
    <3>. QED  BY <2>4
  <2>. HIDE DEF u
  <2>6. CASE r.aircraft # a
    <3>1. targets'[c][a] = targets[c][a]
      BY <2>2, <2>6 DEF ClientTypes
    <3>. QED  BY <1>2, <3>1
  <2>7. CASE r.aircraft = a
    <3>1. targets'[c][a] = u
      BY <2>1, <2>2, <2>7 DEF ClientTypes
    <3>. QED  BY <1>7, <2>1, <2>5, <2>7, <3>1 DEF OkAccept, IsAnswer
  <2>. QED  BY <2>6, <2>7
<1>. QED  BY <1>3, <1>4, <1>5, <1>6, <1>7 DEF TakesIn

\* What the server appends corrects what it changes, and answers requests.
LEMMA ShowsAppend ==
    ASSUME NEW s \in Sockets, NEW X \in SUBSET Request, NEW H \in SUBSET Aircraft, NEW g,
           NEW p \in Seq(Message), NEW r \in Seq(Message), NEW z, z = p \o r,
           ShowsRight(p, H, g, owner), AnswersThere(p, g),
           \A x \in X : OnAircraft(x) => g[x.aircraft] # Absent,
           TellsChanges(r), AnswersTrue(s, r, X)
    PROVE  ShowsRight(z, H, g, owner') /\ AnswersThere(z, g)
<1>1. /\ \A n \in 1 .. Len(p) : z[n] = p[n] /\ n \in 1 .. Len(z)
      /\ \A n \in 1 .. Len(r) : z[Len(p) + n] = r[n] /\ Len(p) + n \in 1 .. Len(z)
  BY ConcatParts
<1>2. \A n \in 1 .. Len(z) :
         n \in 1 .. Len(p) \/ \E k \in 1 .. Len(r) : n = Len(p) + k
  BY ConcatParts
<1>3. ShowsRight(z, H, g, owner')
  <2>. SUFFICES ASSUME NEW a \in H, \A n \in 1 .. Len(z) : ~Tells(z[n], a), g[a] # Absent
                PROVE  g[a].controller \in {owner'[a], NoOne}
    BY DEF ShowsRight
  <2>1. /\ \A n \in 1 .. Len(p) : ~Tells(p[n], a)
        /\ \A n \in 1 .. Len(r) : ~Tells(r[n], a)
    BY <1>1
  <2>2. owner'[a] = owner[a]
    BY <2>1 DEF TellsChanges
  <2>. QED  BY <2>1, <2>2 DEF ShowsRight
<1>4. AnswersThere(z, g)
  <2>. SUFFICES ASSUME NEW n \in 1 .. Len(z), IsAnswer(z[n])
                PROVE  g[z[n].request.aircraft] # Absent
    BY DEF AnswersThere
  <2>1. CASE n \in 1 .. Len(p)
    BY <1>1, <2>1 DEF AnswersThere
  <2>2. ASSUME NEW k \in 1 .. Len(r), n = Len(p) + k
        PROVE  g[z[n].request.aircraft] # Absent
    <3>1. z[n] = r[k] /\ r[k] \in Message
      BY <1>1, <2>2
    <3>2. r[k].request \in X
      BY <3>1 DEF AnswersTrue
    <3>3. OnAircraft(r[k].request)
      BY <3>1, MessageKinds DEF IsAnswer, OnAircraft, TrackRequest, HandoffRequest
    <3>. QED  BY <3>1, <3>2, <3>3
  <2>. QED  BY <1>2, <2>1, <2>2
<1>. QED  BY <1>3, <1>4

\* What the client shows when it has read its oldest message.
LEMMA ShowsReceive ==
    ASSUME ClientTypes, NEW c \in Clients, NEW q \in Seq(Message), q # <<>>,
           TakesIn(c, q[1]), NEW K, NEW S, NEW has, NEW i,
           Waits(q, K, me[c], owner, S, has, i),
           AnswersThere(q, targets[c]), ShowsRight(q, heard[c], targets[c], owner),
           \A a \in Aircraft : LastSays(q, a, owner[a])
    PROVE  ShowsRight(Tail(q), heard'[c], targets'[c], owner)
<1> DEFINE m == q[1]
           z == Tail(q)
<1>1. /\ m \in Message /\ 1 \in 1 .. Len(q) /\ Len(q) \in Nat
      /\ \A k \in 2 .. Len(q) : k - 1 \in 1 .. Len(z) /\ z[k - 1] = q[k]
      /\ \A k \in 1 .. Len(q) : k = 1 \/ k \in 2 .. Len(q)
      /\ 1 + 1 = 2
  OBVIOUS
<1>2. /\ IsAnswer(m) => targets[c][m.request.aircraft] # Absent
      /\ m.type = "handoffAccepted" => \E k \in 1 .. Len(z) : Tells(z[k], m.aircraft)
      /\ OkAccept(m) =>
            /\ me[c] = m.request.to
            /\ \/ \E k \in 1 .. Len(z) : Tells(z[k], m.request.aircraft)
               \/ owner[m.request.aircraft] = m.request.to
  BY OldestMessage
<1>. HIDE DEF z
<1>. SUFFICES ASSUME NEW a \in heard'[c], \A n \in 1 .. Len(z) : ~Tells(z[n], a),
                     targets'[c][a] # Absent
              PROVE  targets'[c][a].controller \in {owner[a], NoOne}
  BY DEF ShowsRight, z
<1>3. a \in Aircraft /\ (a \in heard[c] \/ Tells(m, a))
  <2>1. m.type \in {"blip", "ownershipClaimed"} => m.aircraft \in Aircraft
    BY <1>1, MessageKinds
  <2>2. \/ heard'[c] = heard[c]
        \/ /\ m.type \in {"blip", "ownershipClaimed"}
           /\ heard'[c] = heard[c] \cup {m.aircraft}
    BY DEF TakesIn, ReceiveControllers, ReceiveBlip, ReceiveOwnership, ReceiveHandoff,
       ReceiveAdded, ReceiveDeleted, ReceiveAnswer, ClientTypes
  <2>3. heard[c] \subseteq Aircraft
    BY DEF ClientTypes
  <2>. QED  BY <2>1, <2>2, <2>3 DEF Tells
<1>4. \A k \in 2 .. Len(q) : ~Tells(q[k], a)
  BY <1>1
<1>5. CASE Tells(m, a)
  <2>1. m.controller = owner[a]
    BY <1>1, <1>3, <1>4, <1>5 DEF LastSays
  <2>. QED  BY <1>1, <1>3, <1>5, <2>1, TakesWord
<1>6. CASE ~Tells(m, a)
  <2>1. \A k \in 1 .. Len(q) : ~Tells(q[k], a)
    BY <1>1, <1>4, <1>6
  <2>2. targets[c][a] # Absent => targets[c][a].controller \in {owner[a], NoOne}
    BY <1>3, <1>6, <2>1 DEF ShowsRight
  <2>3. \/ /\ targets[c][a] # Absent
           /\ targets'[c][a].controller \in {targets[c][a].controller, NoOne}
        \/ m.type = "handoffAccepted" /\ m.aircraft = a
        \/ /\ OkAccept(m) /\ m.request.aircraft = a
           /\ targets'[c][a].controller = me[c]
    BY <1>1, <1>2, <1>3, <1>6, TakesOther
  <2>. QED  BY <1>2, <2>2, <2>3
<1>. QED  BY <1>5, <1>6

\* What a step finds at the client that reads a message.
LEMMA TypesStep ==
    ASSUME TypeOK, ClientTypes, QueueInv, [NetworkNext]_networkVars
    PROVE  ClientTypes' /\ Stays
<1>1. ASSUME NEW c \in Clients, Receive(c)
      PROVE  ClientTypes' /\ Stays
  <2>1. PICK s \in Sockets : sock[c] = s
    BY <1>1, ReceiveMessage DEF Open
  <2> DEFINE q == outbox[s]
  <2>2. /\ q \in Seq(Message) /\ q # <<>>
        /\ TakesIn(c, Head(q))
        /\ UNCHANGED <<sock, picks, asked>>
    BY <1>1, <2>1, ReceiveMessage
  <2>3. /\ Waits(q, known[c], me[c], owner, Staffed, HasSector(s), sockets[s])
        /\ AnswersThere(q, targets[c])
    BY <2>1 DEF QueueInv
  <2>. HIDE DEF q
  <2>4. Head(q) = q[1] /\ q[1] \in Message
    BY <2>2
  <2>5. /\ q[1].type = "handoffRequested" => q[1].controller \in known[c]
        /\ IsAnswer(q[1]) => targets[c][q[1].request.aircraft] # Absent
    BY <2>2, <2>3, OldestMessage
  <2>. QED  BY <2>2, <2>4, <2>5, ReceiveTypes DEF IsAnswer
<1>2. CASE \A c \in Clients : ~Receive(c)
  BY <1>2, OtherTypes
<1>. QED  BY <1>1, <1>2

LEMMA QueueStep ==
    ASSUME TypeOK, TablesAgree, WordInv, ListInv, ClientTypes, Wired, TargetsThere,
           QueueInv, Stays, [NetworkNext]_networkVars
    PROVE  QueueInv'
<1>. SUFFICES ASSUME NEW c \in Clients, NEW s \in Sockets, sock'[c] = s
              PROVE  /\ Waits(outbox'[s], known'[c], me'[c], owner', Staffed',
                              HasSector(s)', sockets'[s])
                     /\ ShowsRight(outbox'[s], heard'[c], targets'[c], owner')
                     /\ AnswersThere(outbox'[s], targets'[c])
  BY DEF QueueInv
<1>1. \/ sock[c] = NoSocket /\ Begins(c)
      \/ sock[c] # NoSocket /\ ServerGoesOn(c)
      \/ sock[c] # NoSocket /\ ClientActs(c)
      \/ Receive(c)
  <2>1. sock'[c] # NoSocket
    BY ConstantsAssumption
  <2>. QED  BY <2>1, ClientSteps
<1>2. CASE Begins(c)
  <2>1. outbox'[s] = <<>> /\ sockets'[s] = NoOne /\ ~HasSector(s)' /\ heard'[c] = {}
    BY <1>2 DEF Begins
  <2>. QED  BY <2>1, WaitsEmpty
<1>3. ASSUME sock[c] = s
      PROVE  /\ Waits(outbox[s], known[c], me[c], owner, Staffed, HasSector(s), sockets[s])
             /\ ShowsRight(outbox[s], heard[c], targets[c], owner)
             /\ AnswersThere(outbox[s], targets[c])
             /\ outbox[s] \in Seq(Message)
             /\ s \in Open /\ ListSays(outbox[s], Staffed)
             /\ \A a \in Aircraft : LastSays(outbox[s], a, owner[a])
             /\ heard[c] \in SUBSET Aircraft
  <2>1. s # NoSocket /\ s \in Open
    BY <1>3, ConstantsAssumption DEF Wired
  <2>. QED
    BY <1>3, <2>1 DEF QueueInv, TypeOK, ListInv, Listed, WordInv, Truthful, ClientTypes
<1>4. CASE sock[c] # NoSocket /\ ServerGoesOn(c)
  <2>1. PICK X \in SUBSET Request :
           /\ sock[c] = s /\ Grown(s, X)
           /\ \A r \in X : OnAircraft(r) => targets[c][r.aircraft] # Absent
    BY <1>4 DEF ServerGoesOn
  <2>2. PICK r \in Seq(Message) : Appends(s, r, X)
    BY <2>1 DEF Grown
  <2>3. /\ outbox'[s] = outbox[s] \o r
        /\ TellsChanges(r) /\ AcceptsTold(r) /\ RequestsStaffed(s, r)
        /\ AnswersTrue(s, r, X) /\ PositionTold(s, r)
    BY <2>2 DEF Appends
  <2>4. UNCHANGED <<me[c], known[c], heard[c], targets[c]>>
    BY <1>4 DEF ServerGoesOn, Keeps
  <2>5. Waits(outbox'[s], known[c], me[c], owner', Staffed', HasSector(s)', sockets'[s])
    BY <1>3, <2>1, <2>3, WaitsAppend
  <2>6. /\ ShowsRight(outbox'[s], heard[c], targets[c], owner')
        /\ AnswersThere(outbox'[s], targets[c])
    BY <1>3, <2>1, <2>3, ShowsAppend
  <2>. QED  BY <2>4, <2>5, <2>6
<1>5. CASE sock[c] # NoSocket /\ ClientActs(c)
  <2>1. /\ sock[c] = s /\ UNCHANGED <<me[c], known[c], heard[c]>>
        /\ UNCHANGED <<outbox, owner, sockets, controllers>>
        /\ \A a \in Aircraft :
              targets'[c][a] # targets[c][a] =>
                 /\ targets[c][a] # Absent
                 /\ targets'[c][a].controller = targets[c][a].controller
    BY <1>5 DEF ClientActs, Keeps, sessionVars
  <2>2. Staffed' = Staffed /\ (HasSector(s)' <=> HasSector(s))
    BY <2>1 DEF Staffed, HasSector
  <2>3. Waits(outbox'[s], known'[c], me'[c], owner', Staffed', HasSector(s)', sockets'[s])
    BY <1>3, <2>1, <2>2 DEF Waits
  <2>4. ShowsRight(outbox'[s], heard'[c], targets'[c], owner')
    BY <1>3, <2>1 DEF ShowsRight
  <2>5. AnswersThere(outbox'[s], targets'[c])
    <3>1. \A n \in 1 .. Len(outbox[s]) :
             IsAnswer(outbox[s][n]) => outbox[s][n].request.aircraft \in Aircraft
      BY <1>3, <2>1, MessageKinds DEF IsAnswer, TrackRequest, HandoffRequest
    <3>. QED  BY <1>3, <2>1, <3>1 DEF AnswersThere, Stays
  <2>. QED  BY <2>3, <2>4, <2>5
<1>6. CASE Receive(c)
  <2>1. /\ sock' = sock /\ UNCHANGED <<owner, sockets, controllers>>
        /\ outbox[sock[c]] # <<>>
        /\ TakesIn(c, Head(outbox[sock[c]]))
        /\ outbox' = [outbox EXCEPT ![sock[c]] = Tail(outbox[sock[c]])]
    BY <1>6, ReceiveMessage
  <2>2. PICK q \in Seq(Message) : q = outbox[s]
    BY <1>3, <2>1
  <2>3. /\ q # <<>> /\ outbox'[s] = Tail(q) /\ TakesIn(c, q[1]) /\ q[1] \in Message
        /\ sock[c] = s
    BY <2>1, <2>2 DEF TypeOK
  <2>4. /\ Waits(q, known[c], me[c], owner, Staffed, HasSector(s), sockets[s])
        /\ ShowsRight(q, heard[c], targets[c], owner)
        /\ AnswersThere(q, targets[c])
        /\ ListSays(q, Staffed)
        /\ \A a \in Aircraft : LastSays(q, a, owner[a])
    BY <1>3, <2>2, <2>3
  <2>5. Staffed' = Staffed /\ (HasSector(s)' <=> HasSector(s))
    BY <2>1 DEF Staffed, HasSector
  <2>6. Waits(Tail(q), known'[c], me'[c], owner, Staffed, HasSector(s), sockets[s])
    BY <2>3, <2>4, TakesLists, WaitsTail
  <2>7. Waits(outbox'[s], known'[c], me'[c], owner', Staffed', HasSector(s)', sockets'[s])
    BY <2>1, <2>3, <2>5, <2>6 DEF Waits
  <2>8. ShowsRight(outbox'[s], heard'[c], targets'[c], owner')
    BY <2>1, <2>3, <2>4, ShowsReceive
  <2>9. AnswersThere(outbox'[s], targets'[c])
    <3>1. \A n \in 1 .. Len(Tail(q)) :
             n + 1 \in 1 .. Len(q) /\ Tail(q)[n] = q[n + 1] /\ q[n + 1] \in Message
      BY <2>3
    <3>2. \A m \in Message : IsAnswer(m) => m.request.aircraft \in Aircraft
      BY MessageKinds DEF IsAnswer, TrackRequest, HandoffRequest
    <3>. QED  BY <2>3, <2>4, <3>1, <3>2 DEF AnswersThere, Stays
  <2>. QED  BY <2>7, <2>8, <2>9
<1>. QED  BY <1>1, <1>2, <1>4, <1>5, <1>6

-----------------------------------------------------------------------------
(***************************************************************************)
(* What a client sends.                                                    *)
(***************************************************************************)
\* The target of the client c asks it to take a from the sector i.
Offered(c, a, i) ==
    /\ targets[c][a] # Absent
    /\ T!IsUndergoingInboundHandoff(targets[c][a])
    /\ targets[c][a].other = i

\* The sector in whose name a request about an aircraft is made.
Sender(r) == IF r.op \in {"accept", "refuse"} THEN r.to ELSE r.controller

\* The request r may come from the client c: it is about a target that is there
\* and in the name of the client's sector; what it accepts was offered; and it
\* takes a position when it has none.
Sends(c, r) ==
    /\ r \in Request
    /\ OnAircraft(r) =>
          /\ targets[c][r.aircraft] # Absent
          /\ me[c] # NoOne
          /\ Sender(r) = me[c] /\ me'[c] = me[c]
    /\ r.op = "accept" => Offered(c, r.aircraft, r.controller)
    /\ r.op = "add" => me'[c] = NoOne

\* No method but that of a request makes or changes an offer.
LEMMA MethodsKeepOffer ==
    ASSUME NEW t \in SoundTargets
    PROVE  /\ ~T!IsUndergoingInboundHandoff(T!NewTarget)
           /\ \A i :
                 /\ T!IsUndergoingInboundHandoff(T!SetController(t, i)) =>
                       T!IsUndergoingInboundHandoff(t) /\ T!SetController(t, i).other = t.other
                 /\ ~T!IsUndergoingInboundHandoff(T!AcceptSucceeded(t, i))
                 /\ ~T!IsUndergoingInboundHandoff(T!HandoffAccepted(t, i))
                 /\ ~T!IsUndergoingInboundHandoff(T!RequestSent(t, i))
                 /\ T!IsUndergoingInboundHandoff(T!Select(t, i)) =>
                       T!IsUndergoingInboundHandoff(t) /\ T!Select(t, i).other = t.other
                 /\ T!InboundHandoff(t, i).other = i
           /\ \A i, j :
                 T!IsUndergoingInboundHandoff(T!Update(t, i, j)) =>
                    T!IsUndergoingInboundHandoff(t) /\ T!Update(t, i, j).other = t.other
           /\ ~T!IsUndergoingInboundHandoff(T!RefusalSucceeded(t))
           /\ ~T!IsUndergoingInboundHandoff(T!HandoffRefused(t))
           /\ \A timer \in t.timers : ~T!IsUndergoingInboundHandoff(T!Timeout(t, timer))
<1> USE DEF SoundTargets, T!Targets, T!IsUndergoingInboundHandoff
<1>1. ~T!IsUndergoingInboundHandoff(T!NewTarget)
  BY DEF T!NewTarget
<1>2. ASSUME NEW i
      PROVE  /\ T!IsUndergoingInboundHandoff(T!SetController(t, i)) =>
                   T!IsUndergoingInboundHandoff(t) /\ T!SetController(t, i).other = t.other
             /\ ~T!IsUndergoingInboundHandoff(T!AcceptSucceeded(t, i))
             /\ ~T!IsUndergoingInboundHandoff(T!HandoffAccepted(t, i))
             /\ ~T!IsUndergoingInboundHandoff(T!RequestSent(t, i))
             /\ T!InboundHandoff(t, i).other = i
  BY DEF T!SetController, T!AcceptSucceeded, T!HandoffAccepted, T!RequestSent,
     T!InboundHandoff
<1>3. \A i : T!IsUndergoingInboundHandoff(T!Select(t, i)) =>
                T!IsUndergoingInboundHandoff(t) /\ T!Select(t, i).other = t.other
  BY DEF T!Select, T!ClearPostHandoff
<1>4. \A i, j : T!IsUndergoingInboundHandoff(T!Update(t, i, j)) =>
                   T!IsUndergoingInboundHandoff(t) /\ T!Update(t, i, j).other = t.other
  BY DEF T!Update, T!SetController
<1>5. /\ ~T!IsUndergoingInboundHandoff(T!RefusalSucceeded(t))
      /\ ~T!IsUndergoingInboundHandoff(T!HandoffRefused(t))
  BY DEF T!RefusalSucceeded, T!HandoffRefused
<1>6. \A timer \in t.timers : ~T!IsUndergoingInboundHandoff(T!Timeout(t, timer))
  BY DEF T!Timeout
<1>. QED  BY <1>1, <1>2, <1>3, <1>4, <1>5, <1>6

\* What a click sends.
LEMMA ClickSends ==
    ASSUME ClientTypes, NEW c \in Clients, NEW d \in Clients, NEW a \in Aircraft,
           NEW emits, NEW r, Click(d, a, emits, r)
    PROVE  \/ inbox'[c] = inbox[c]
           \/ /\ d = c /\ emits /\ targets[c][a] # Absent /\ me' = me
              /\ inbox'[c] = Append(inbox[c], r)
BY DEF Click, Emitted, ClientTypes

LEMMA CommandSends ==
    ASSUME TypeOK, ClientTypes, NEW c \in Clients, NEW d \in Clients, Command(d)
    PROVE  \/ inbox'[c] = inbox[c]
           \/ \E r : Sends(c, r) /\ inbox'[c] = Append(inbox[c], r)
<1>1. ASSUME NEW r, inbox'[c] = Append(inbox[c], r)
      PROVE  r \in Request
  <2>1. inbox[c] \in Seq(Request) /\ inbox'[c] \in Seq(Request)
    BY CommandTypes DEF ClientTypes
  <2>2. inbox'[c][Len(inbox[c]) + 1] = r /\ Len(inbox[c]) + 1 \in 1 .. Len(inbox'[c])
    BY <1>1, <2>1
  <2>. QED  BY <2>1, <2>2
<1>2. ASSUME NEW p \in Positions, PickPosition(d, p)
      PROVE  \/ inbox'[c] = inbox[c]
             \/ \E r : Sends(c, r) /\ inbox'[c] = Append(inbox[c], r)
  <2> DEFINE r == [op |-> IF me[d] = NoOne THEN "add" ELSE "delete", position |-> p]
  <2>1. ~OnAircraft(r) /\ r.op # "accept" /\ (r.op = "add" => me[d] = NoOne)
    BY DEF OnAircraft
  <2>2. inbox' = [inbox EXCEPT ![d] = Append(inbox[d], r)] /\ me' = me
    BY <1>2 DEF PickPosition, Emitted
  <2>. HIDE DEF r
  <2>3. CASE d # c
    BY <2>2, <2>3 DEF ClientTypes
  <2>4. CASE d = c
    <3>1. inbox'[c] = Append(inbox[c], r)
      BY <2>2, <2>4 DEF ClientTypes
    <3>2. r \in Request
      BY <1>1, <3>1
    <3>. QED  BY <2>1, <2>2, <2>4, <3>1, <3>2 DEF Sends
  <2>. QED  BY <2>3, <2>4
<1>3. ASSUME NEW a \in Aircraft, NEW emits, NEW r, Click(d, a, emits, r),
             r.op \notin {"add", "delete"}, r.aircraft = a,
             emits => me[d] # NoOne /\ Sender(r) = me[d],
             emits /\ r.op = "accept" => Offered(d, a, r.controller)
      PROVE  \/ inbox'[c] = inbox[c]
             \/ \E e : Sends(c, e) /\ inbox'[c] = Append(inbox[c], e)
  <2>1. \/ inbox'[c] = inbox[c]
        \/ /\ d = c /\ emits /\ targets[c][a] # Absent /\ me' = me
           /\ inbox'[c] = Append(inbox[c], r)
    BY <1>3, ClickSends
  <2>2. inbox'[c] = Append(inbox[c], r) => r \in Request
    BY <1>1
  <2>. QED  BY <1>3, <2>1, <2>2 DEF Sends
<1>4. ASSUME NEW a \in Aircraft, NEW op \in {"initiate", "terminate"}
      PROVE  /\ TrackOp(op, d, a).op = op
             /\ TrackOp(op, d, a).aircraft = a
             /\ Sender(TrackOp(op, d, a)) = me[d]
  BY <1>4 DEF TrackOp, Sender
<1>5. ASSUME NEW a \in Aircraft, NEW op \in {"request", "accept", "refuse"}, NEW i, NEW j
      PROVE  /\ HandoffOp(op, a, i, j).op = op
             /\ HandoffOp(op, a, i, j).aircraft = a
             /\ HandoffOp(op, a, i, j).controller = i
             /\ Sender(HandoffOp(op, a, i, j)) = IF op = "request" THEN i ELSE j
  BY <1>5 DEF HandoffOp, Sender
<1>6. ASSUME NEW a \in Aircraft, InitiateControlCommand(d, a)
      PROVE  \/ inbox'[c] = inbox[c]
             \/ \E r : Sends(c, r) /\ inbox'[c] = Append(inbox[c], r)
  <2> DEFINE emits == ~T!IsUndergoingHandoff(T!Select(targets[d][a], me[d])) /\ me[d] # NoOne
             r == TrackOp("initiate", d, a)
  <2>1. Click(d, a, emits, r)
    BY <1>6 DEF InitiateControlCommand
  <2>2. r.op = "initiate" /\ r.aircraft = a /\ Sender(r) = me[d]
    BY <1>4
  <2>3. emits => me[d] # NoOne
    OBVIOUS
  <2>. HIDE DEF emits, r
  <2>. QED  BY <1>3, <2>1, <2>2, <2>3
<1>7. ASSUME NEW a \in Aircraft, TerminateControlCommand(d, a)
      PROVE  \/ inbox'[c] = inbox[c]
             \/ \E r : Sends(c, r) /\ inbox'[c] = Append(inbox[c], r)
  <2> DEFINE t == T!Select(targets[d][a], me[d])
             refusal == T!IsUndergoingInboundHandoff(t)
             emits == /\ ~T!IsUndergoingHandoff(t)
                      /\ me[d] # NoOne
                      /\ refusal => t.other # NoOne
             r == IF refusal THEN HandoffOp("refuse", a, t.other, me[d])
                  ELSE TrackOp("terminate", d, a)
  <2>1. Click(d, a, emits, r)
    BY <1>7 DEF TerminateControlCommand
  <2>2. r.op \in {"refuse", "terminate"} /\ r.aircraft = a /\ Sender(r) = me[d]
    <3>1. CASE refusal
      <4>1. r = HandoffOp("refuse", a, t.other, me[d])
        BY <3>1
      <4>. HIDE DEF r, t, refusal
      <4>. QED  BY <1>5, <4>1
    <3>2. CASE ~refusal
      <4>1. r = TrackOp("terminate", d, a)
        BY <3>2
      <4>. HIDE DEF r, t, refusal
      <4>. QED  BY <1>4, <4>1
    <3>. QED  BY <3>1, <3>2
  <2>3. emits => me[d] # NoOne
    OBVIOUS
  <2>. HIDE DEF emits, r
  <2>. QED  BY <1>3, <2>1, <2>2, <2>3
<1>8. ASSUME NEW a \in Aircraft, SlewCommand(d, a)
      PROVE  \/ inbox'[c] = inbox[c]
             \/ \E r : Sends(c, r) /\ inbox'[c] = Append(inbox[c], r)
  <2> DEFINE t == T!Select(targets[d][a], me[d])
             emits == /\ T!IsUndergoingInboundHandoff(t)
                      /\ t.other # NoOne
                      /\ me[d] # NoOne
             r == HandoffOp("accept", a, t.other, me[d])
  <2>1. Click(d, a, emits, r)
    BY <1>8 DEF SlewCommand
  <2>2. /\ r.op = "accept" /\ r.aircraft = a /\ Sender(r) = me[d]
        /\ r.controller = t.other
    <3>. HIDE DEF t
    <3>. QED  BY <1>5
  <2>3. targets[d][a] # Absent /\ targets[d][a] \in SoundTargets
    BY <2>1 DEF Click, ClientTypes
  <2>4. T!IsUndergoingInboundHandoff(t) => Offered(d, a, t.other)
    BY <2>3, MethodsKeepOffer DEF Offered
  <2>5. emits => me[d] # NoOne /\ T!IsUndergoingInboundHandoff(t)
    OBVIOUS
  <2>. HIDE DEF emits, r, t
  <2>. QED  BY <1>3, <2>1, <2>2, <2>4, <2>5
<1>9. ASSUME NEW a \in Aircraft, NEW to \in Sectors, HandoffCommand(d, a, to)
      PROVE  \/ inbox'[c] = inbox[c]
             \/ \E r : Sends(c, r) /\ inbox'[c] = Append(inbox[c], r)
  <2> DEFINE emits == /\ ~T!IsUndergoingHandoff(T!Select(targets[d][a], me[d]))
                      /\ me[d] # NoOne
             r == HandoffOp("request", a, me[d], to)
  <2>1. Click(d, a, emits, r)
    BY <1>9 DEF HandoffCommand
  <2>2. r.op = "request" /\ r.aircraft = a /\ Sender(r) = me[d]
    BY <1>5
  <2>3. emits => me[d] # NoOne
    OBVIOUS
  <2>. HIDE DEF emits, r
  <2>. QED  BY <1>3, <2>1, <2>2, <2>3
<1>. QED  BY <1>2, <1>6, <1>7, <1>8, <1>9 DEF Command

\* What a step does to the requests under way from a client.
LEMMA InboxStep ==
    ASSUME TypeOK, ClientTypes, [NetworkNext]_networkVars, NEW c \in Clients
    PROVE  \/ inbox'[c] = inbox[c]
           \/ inbox'[c] = <<>>
           \/ Serve(c) /\ inbox[c] # <<>> /\ inbox'[c] = Tail(inbox[c])
           \/ \E r : Sends(c, r) /\ inbox'[c] = Append(inbox[c], r)
<1>1. ASSUME NEW d \in Clients, OpenConnection(d) \/ \E a \in Aircraft : TimerFires(d, a)
      PROVE  inbox'[c] = inbox[c]
  BY <1>1 DEF OpenConnection, TimerFires
<1>2. ASSUME NEW d \in Clients, LoseConnection(d)
      PROVE  inbox'[c] = inbox[c] \/ inbox'[c] = <<>>
  BY <1>2 DEF LoseConnection, ClientTypes
<1>3. ASSUME NEW d \in Clients, Serve(d)
      PROVE  \/ inbox'[c] = inbox[c]
             \/ Serve(c) /\ inbox[c] # <<>> /\ inbox'[c] = Tail(inbox[c])
  BY <1>3, ServeRequest DEF ClientTypes
<1>4. ASSUME NEW d \in Clients, Receive(d)
      PROVE  \/ inbox'[c] = inbox[c]
             \/ \E r : Sends(c, r) /\ inbox'[c] = Append(inbox[c], r)
  <2>1. PICK m \in Message : TakesIn(d, m)
    BY <1>4, ReceiveMessage
  <2>2. CASE m.type = "deleted"
    <3> DEFINE r == [op |-> "add", position |-> m.position]
    <3>1. r \in Request /\ ~OnAircraft(r) /\ r.op = "add"
      BY <2>2, MessageKinds DEF Request, AddRequest, OnAircraft
    <3>2. inbox' = [inbox EXCEPT ![d] = Append(inbox[d], r)] /\ me'[d] = NoOne
      BY <2>1, <2>2 DEF TakesIn, ReceiveDeleted, Emitted, ClientTypes
    <3>. HIDE DEF r
    <3>. QED  BY <3>1, <3>2 DEF ClientTypes, Sends
  <2>3. CASE m.type # "deleted"
    BY <2>1, <2>3 DEF TakesIn, ReceiveControllers, ReceiveBlip, ReceiveOwnership,
       ReceiveHandoff, ReceiveAdded, ReceiveAnswer
  <2>. QED  BY <2>2, <2>3
<1>5. CASE \/ \E s \in Sockets : NoticeLoss(s) \/ Discard(s)
           \/ \E a \in Aircraft : BlipSent(a)
           \/ UNCHANGED networkVars
  BY <1>5 DEF NoticeLoss, Discard, BlipSent, networkVars, clientVars
<1>. QED  BY <1>1, <1>2, <1>3, <1>4, <1>5, CommandSends DEF NetworkNext

\* What clients ask for stays about targets that are there.
LEMMA TargetsThereStep ==
    ASSUME TypeOK, ClientTypes, TargetsThere, Stays, [NetworkNext]_networkVars
    PROVE  TargetsThere'
<1>. SUFFICES ASSUME NEW c \in Clients
              PROVE  \A n \in 1 .. Len(inbox'[c]) :
                        OnAircraft(inbox'[c][n]) => targets'[c][inbox'[c][n].aircraft] # Absent
  BY DEF TargetsThere
<1>1. PICK q \in Seq(Request) : q = inbox[c]
  BY DEF ClientTypes
<1>2. PICK z, g, h : z = inbox'[c] /\ g = targets[c] /\ h = targets'[c]
  OBVIOUS
<1>3. \/ z = q
      \/ z = <<>>
      \/ q # <<>> /\ z = Tail(q)
      \/ \E r \in Request : z = Append(q, r) /\ (OnAircraft(r) => g[r.aircraft] # Absent)
  BY <1>1, <1>2, InboxStep DEF Sends
<1>4. /\ \A n \in 1 .. Len(q) : OnAircraft(q[n]) => g[q[n].aircraft] # Absent
      /\ \A a \in Aircraft : g[a] # Absent => h[a] # Absent
  BY <1>1, <1>2 DEF TargetsThere, Stays
<1>5. \A n \in 1 .. Len(z) : OnAircraft(z[n]) => h[z[n].aircraft] # Absent
  BY <1>3, <1>4, RequestsOf
<1>. QED  BY <1>2, <1>5
-----------------------------------------------------------------------------
(***************************************************************************)
(* The inductive invariant of the network, and what follows from it.       *)
(***************************************************************************)
NetworkInv ==
    /\ TypeOK
    /\ TablesAgree
    /\ WordInv
    /\ ListInv
    /\ ClientTypes
    /\ Wired
    /\ TargetsThere
    /\ QueueInv

LEMMA NetworkInvInit == NetworkInit => NetworkInv
<1>. SUFFICES ASSUME NetworkInit
              PROVE  NetworkInv
  OBVIOUS
<1>1. Init
  BY DEF NetworkInit
<1>2. TypeOK
  BY <1>1, ConstantsAssumption DEF Init, TypeOK
<1>3. TablesAgree
  BY <1>1, TablesInit
<1>4. WordInv
  BY <1>1 DEF Init, WordInv, Truthful, Silent, LastSays, Open
<1>5. ListInv
  BY <1>1, <1>2 DEF Init, ListInv, Listed, Open, TypeOK
<1>6. ClientTypes
  <2>1. <<>> \in Seq(Request)
    OBVIOUS
  <2>. QED  BY <2>1, BoundsAssumption DEF NetworkInit, ClientTypes
<1>7. Wired
  BY <1>1, ConstantsAssumption DEF NetworkInit, Init, Wired, HasSector
<1>8. TargetsThere
  <2>1. 1 .. Len(<<>>) = {}
    OBVIOUS
  <2>. QED  BY <2>1 DEF NetworkInit, TargetsThere
<1>9. QueueInv
  BY ConstantsAssumption DEF NetworkInit, QueueInv
<1>. QED  BY <1>2, <1>3, <1>4, <1>5, <1>6, <1>7, <1>8, <1>9 DEF NetworkInv

LEMMA NetworkInvStep ==
    ASSUME NetworkInv, [NetworkNext]_networkVars
    PROVE  NetworkInv' /\ [Next]_sessionVars
<1>1. [Next]_sessionVars
  BY SessionStep DEF NetworkInv
<1>2. TypeOK'
  BY <1>1, TypeStep DEF NetworkInv
<1>3. TablesAgree' /\ WordInv'
  BY <1>1, TablesStep, WordStep DEF NetworkInv
<1>4. ListInv'
  BY <1>1, <1>2, ListStep DEF NetworkInv
<1>5. ClientTypes' /\ Stays
  BY TypesStep DEF NetworkInv
<1>6. Wired'
  BY WiredStep DEF NetworkInv
<1>7. TargetsThere'
  BY <1>5, TargetsThereStep DEF NetworkInv
<1>8. QueueInv'
  BY <1>5, QueueStep DEF NetworkInv
<1>. QED  BY <1>1, <1>2, <1>3, <1>4, <1>5, <1>6, <1>7, <1>8 DEF NetworkInv

LEMMA NetworkInvariant == NetworkSpec => []NetworkInv
<1>1. NetworkInv /\ [NetworkNext]_networkVars => NetworkInv'
  BY NetworkInvStep
<1>. QED  BY <1>1, NetworkInvInit, PTL DEF NetworkSpec

(***************************************************************************)
(* The server among its clients is a session: whatever is proved of the    *)
(* session, where a connection may send anything, is true of the network.  *)
(***************************************************************************)
THEOREM NetworkImplementsSession == NetworkSpec => Spec
<1>1. NetworkInv /\ [NetworkNext]_networkVars => [Next]_sessionVars
  BY NetworkInvStep
<1>2. NetworkInit => Init
  BY DEF NetworkInit
<1>. QED  BY <1>1, <1>2, NetworkInvariant, PTL DEF NetworkSpec, Spec

(***************************************************************************)
(* A client keeps nothing of what it is sent but sectors, and nobody.      *)
(***************************************************************************)
THEOREM NetworkTypeCorrect == NetworkSpec => []NetworkTypeOK
<1>1. SoundTargets \subseteq T!Targets
  BY DEF SoundTargets
<1>2. NetworkInv => NetworkTypeOK
  BY <1>1 DEF NetworkInv, NetworkTypeOK, ClientTypes
<1>. QED  BY <1>2, NetworkInvariant, PTL

(***************************************************************************)
(* No timer of an earlier handoff is pending: target.js restarts its timer *)
(* in every method that changes the state.                                 *)
(***************************************************************************)
THEOREM TimerMatchesCorrect == NetworkSpec => []TimerMatchesState
<1>1. NetworkInv => TimerMatchesState
  BY DEF NetworkInv, ClientTypes, SoundTargets, TimerMatchesState
<1>. QED  BY <1>1, NetworkInvariant, PTL

(***************************************************************************)
(* The list of controllers always arrives before a request of a controller *)
(* does, so a client knows who offers it an aircraft.                      *)
(***************************************************************************)
THEOREM InboundKnowsSenderCorrect == NetworkSpec => []InboundKnowsSender
<1>1. NetworkInv => InboundKnowsSender
  BY DEF NetworkInv, ClientTypes, SoundTargets, InboundKnowsSender
<1>. QED  BY <1>1, NetworkInvariant, PTL

(***************************************************************************)
(* A client that has read what is under way about an aircraft shows the    *)
(* controller the server has, or nobody, and never another one.            *)
(***************************************************************************)
THEOREM NoWrongOwnerCorrect == NetworkSpec => []NoWrongOwner
<1>1. NetworkInv => NoWrongOwner
  <2>. SUFFICES ASSUME NetworkInv, NEW c \in Clients, NEW a \in Aircraft, NEW i \in Sectors,
                       sock[c] # NoSocket, a \in heard[c], ~Pending(c, a), Shows(c, a, i)
                PROVE  i = owner[a]
    BY DEF NoWrongOwner
  <2>1. PICK s \in Sockets : sock[c] = s
    BY DEF NetworkInv, ClientTypes
  <2>2. ShowsRight(outbox[s], heard[c], targets[c], owner)
    BY <2>1 DEF NetworkInv, QueueInv
  <2>3. \A n \in 1 .. Len(outbox[s]) : ~Tells(outbox[s][n], a)
    BY <2>1 DEF Pending
  <2>4. targets[c][a].controller \in {owner[a], NoOne}
    BY <2>2, <2>3 DEF ShowsRight, Shows
  <2>. QED  BY <2>4, ConstantsAssumption DEF Shows
<1>. QED  BY <1>1, NetworkInvariant, PTL
-----------------------------------------------------------------------------
(***************************************************************************)
(* Consent: what is offered to a client, and what it accepts, was asked of *)
(* it.                                                                     *)
(***************************************************************************)
\* The requests of handoffs in the queue q.
Asks(q) == {q[n] : n \in {k \in 1 .. Len(q) : q[k].type = "handoffRequested"}}

LEMMA AsksAppend ==
    ASSUME NEW q \in Seq(Message), NEW m \in Message
    PROVE  Asks(Append(q, m)) \subseteq
              Asks(q) \cup (IF m.type = "handoffRequested" THEN {m} ELSE {})
BY DEF Asks

LEMMA AsksTail ==
    ASSUME NEW q \in Seq(Message), q # <<>>
    PROVE  Asks(Tail(q)) \subseteq Asks(q)
<1>1. \A n \in 1 .. Len(Tail(q)) : n + 1 \in 1 .. Len(q) /\ Tail(q)[n] = q[n + 1]
  OBVIOUS
<1>. QED  BY <1>1 DEF Asks

LEMMA AsksConcat ==
    ASSUME NEW q \in Seq(Message), NEW r \in Seq(Message),
           \A n \in 1 .. Len(r) : r[n].type # "handoffRequested"
    PROVE  Asks(q \o r) \subseteq Asks(q)
<1> DEFINE z == q \o r
<1>1. /\ Len(q) \in Nat /\ Len(r) \in Nat /\ Len(z) = Len(q) + Len(r)
      /\ \A n \in 1 .. Len(z) : z[n] = IF n <= Len(q) THEN q[n] ELSE r[n - Len(q)]
  OBVIOUS
<1>. HIDE DEF z
<1>2. ASSUME NEW n \in 1 .. Len(z), z[n].type = "handoffRequested"
      PROVE  n \in 1 .. Len(q) /\ z[n] = q[n]
  <2>1. CASE n <= Len(q)
    BY <1>1, <2>1
  <2>2. CASE ~(n <= Len(q))
    <3>1. n - Len(q) \in 1 .. Len(r)
      BY <1>1, <2>2
    <3>. QED  BY <1>1, <1>2, <2>2, <3>1
  <2>. QED  BY <2>1, <2>2
<1>3. Asks(z) \subseteq Asks(q)
  BY <1>2 DEF Asks
<1>. QED  BY <1>3 DEF z

LEMMA AsksSend ==
    ASSUME NEW box \in [Sockets -> Seq(Message)], NEW m \in Message, NEW s, NEW to,
           NEW t \in Sockets
    PROVE  /\ Asks(Emit(box, s, m)[t]) \subseteq
                 Asks(box[t])
                   \cup (IF m.type = "handoffRequested" /\ t = s THEN {m} ELSE {})
           /\ m.type # "handoffRequested" =>
                 Asks(Broadcast(box, to, m)[t]) \subseteq Asks(box[t])
<1>1. box[t] \in Seq(Message)
  OBVIOUS
<1>2. Emit(box, s, m)[t] = IF t = s /\ t \in Open THEN Append(box[t], m) ELSE box[t]
  BY DEF Emit
<1>3. Broadcast(box, to, m)[t] = IF t \in to THEN Append(box[t], m) ELSE box[t]
  BY DEF Broadcast
<1>4. Asks(Append(box[t], m)) \subseteq
         Asks(box[t]) \cup (IF m.type = "handoffRequested" THEN {m} ELSE {})
  BY <1>1, AsksAppend
<1>5. CASE t = s /\ t \in Open
  BY <1>2, <1>3, <1>4, <1>5
<1>6. CASE ~(t = s /\ t \in Open)
  BY <1>2, <1>3, <1>4, <1>6
<1>. QED  BY <1>5, <1>6

LEMMA AsksReleases ==
    ASSUME TypeOK, NEW s \in Sockets, NEW live, NEW t \in Sockets
    PROVE  Asks(ReleaseNotices(s, live)[t]) \subseteq Asks(outbox[t])
<1> DEFINE r == Releases(Released(s))
<1>1. /\ r \in Seq(Message)
      /\ \A n \in 1 .. Len(r) : \E a \in Released(s) : r[n] = Claimed(a, NoOne)
  BY ReleasesShape DEF Released
<1>2. \A a : Claimed(a, NoOne).type # "handoffRequested"
  BY DEF Claimed
<1>. HIDE DEF r
<1>3. \A n \in 1 .. Len(r) : r[n].type # "handoffRequested"
  BY <1>1, <1>2
<1>4. Asks(outbox[t] \o r) \subseteq Asks(outbox[t])
  BY <1>1, <1>3, AsksConcat DEF TypeOK
<1>. QED  BY <1>4 DEF ReleaseNotices, r

\* The steps of the server that are not the answer to a request ask nothing.
LEMMA OthersAskNothing ==
    ASSUME TypeOK, NEW t \in Sockets,
           \/ \E s \in Sockets : Connect(s) \/ Disconnect(s) \/ Deliver(s)
           \/ \E a \in Aircraft : Blip(a)
           \/ UNCHANGED outbox
    PROVE  Asks(outbox'[t]) \subseteq Asks(outbox[t])
<1>1. CASE UNCHANGED outbox \/ \E s \in Sockets : Connect(s)
  BY <1>1 DEF Connect
<1>2. ASSUME NEW s \in Sockets, Deliver(s)
      PROVE  Asks(outbox'[t]) \subseteq Asks(outbox[t])
  <2>1. CASE s = t
    <3>1. outbox[t] \in Seq(Message) /\ outbox[t] # <<>> /\ outbox'[t] = Tail(outbox[t])
      BY <1>2, <2>1 DEF Deliver, TypeOK
    <3>. QED  BY <3>1, AsksTail
  <2>2. CASE s # t
    BY <1>2, <2>2 DEF Deliver, TypeOK
  <2>. QED  BY <2>1, <2>2
<1>3. ASSUME NEW s \in Sockets, Disconnect(s)
      PROVE  Asks(outbox'[t]) \subseteq Asks(outbox[t])
  <2> DEFINE notices == ReleaseNotices(s, Open \ {s})
             m == Controllers(Staffed \ {sockets[s]})
             box == Broadcast(notices, Open \ {s}, m)
  <2>1. Unstaff(s) /\ outbox' = [box EXCEPT ![s] = <<>>]
    BY <1>3 DEF Disconnect
  <2>2. notices \in [Sockets -> Seq(Message)]
    BY <2>1, UnstaffType
  <2>3. m \in Message /\ m.type # "handoffRequested"
    BY MessageTypes DEF Controllers, Staffed
  <2>4. Asks(notices[t]) \subseteq Asks(outbox[t])
    BY AsksReleases
  <2>. HIDE DEF notices, m
  <2>5. Asks(box[t]) \subseteq Asks(notices[t]) /\ box \in [Sockets -> Seq(Message)]
    BY <2>2, <2>3, AsksSend, SendType
  <2>. HIDE DEF box
  <2>6. Asks(<<>>) = {}
    BY DEF Asks
  <2>7. outbox'[t] = IF t = s THEN <<>> ELSE box[t]
    BY <2>1, <2>5
  <2>. QED  BY <2>4, <2>5, <2>6, <2>7
<1>4. ASSUME NEW a \in Aircraft, Blip(a)
      PROVE  Asks(outbox'[t]) \subseteq Asks(outbox[t])
  <2> DEFINE m == [type |-> "blip", aircraft |-> a, controller |-> owner[a]]
  <2>1. m \in Message /\ m.type # "handoffRequested"
    BY DEF Message, TypeOK
  <2>2. outbox' = Broadcast(outbox, Open, m) /\ outbox \in [Sockets -> Seq(Message)]
    BY <1>4 DEF Blip, TypeOK
  <2>. HIDE DEF m
  <2>. QED  BY <2>1, <2>2, AsksSend
<1>. QED  BY <1>1, <1>2, <1>3, <1>4

\* What is asked in answer to the request r.
LEMMA ServesAsks ==
    ASSUME TypeOK, NEW s \in Sockets, NEW r \in Request, Serves(s, r), NEW t \in Sockets,
           NEW m \in Asks(outbox'[t])
    PROVE  \/ m \in Asks(outbox[t])
           \/ /\ r.op = "request" /\ CanRequest(s, r)
              /\ t = controllers[r.to]
              /\ m = Handoff("handoffRequested", r)
<1>1. outbox \in [Sockets -> Seq(Message)]
  BY DEF TypeOK
<1>2. CASE \E b \in TrackRequest \cup HandoffRequest : Refuse(s, b)
  <2>1. PICK b \in TrackRequest \cup HandoffRequest : Refuse(s, b)
    BY <1>2
  <2>2. Answer(b, FALSE) \in Message /\ Answer(b, FALSE).type # "handoffRequested"
    BY MessageTypes DEF Answer
  <2>3. Asks(Emit(outbox, s, Answer(b, FALSE))[t]) \subseteq Asks(outbox[t])
    BY <1>1, <2>2, AsksSend
  <2>. QED  BY <2>1, <2>3 DEF Refuse
<1>3. CASE r.op = "add" /\ AddController(s, r)
  <2>1. ASSUME NEW S \in SUBSET Sectors, NEW box \in [Sockets -> Seq(Message)]
        PROVE  Asks(Broadcast(box, Open, Controllers(S))[t]) \subseteq Asks(box[t])
    <3>1. Controllers(S) \in Message /\ Controllers(S).type # "handoffRequested"
      BY MessageTypes DEF Controllers
    <3>. QED  BY <3>1, AsksSend
  <2>2. CASE AddKnown(s, r)
    <3> DEFINE i == <<r.position, counts[r.position]>>
               e == [type |-> "added", sector |-> i]
               box == Emit(outbox, s, e)
    <3>1. i \in Sectors
      BY <2>2, ConstantsAssumption DEF AddKnown, Sectors, TypeOK
    <3>2. e \in Message /\ e.type # "handoffRequested" /\ Staffed \cup {i} \in SUBSET Sectors
      BY <3>1 DEF Message, Staffed
    <3>3. outbox' = Broadcast(box, Open, Controllers(Staffed \cup {i}))
      BY <2>2 DEF AddKnown
    <3>. HIDE DEF i, e
    <3>4. box \in [Sockets -> Seq(Message)] /\ Asks(box[t]) \subseteq Asks(outbox[t])
      BY <1>1, <3>2, AsksSend, SendType
    <3>. HIDE DEF box
    <3>. QED  BY <2>1, <3>2, <3>3, <3>4
  <2>3. CASE AddUnknown(s, r)
    <3>1. Staffed \in SUBSET Sectors
      BY DEF Staffed
    <3>. QED  BY <1>1, <2>1, <2>3, <3>1 DEF AddUnknown
  <2>. QED  BY <1>3, <2>2, <2>3 DEF AddController
<1>4. CASE r.op = "delete" /\ DeleteController(s, r)
  <2> DEFINE notices == ReleaseNotices(s, Open)
             e == [type |-> "deleted", position |-> r.position]
             box == Emit(notices, s, e)
             l == Controllers(Staffed \ {sockets[s]})
  <2>1. Unstaff(s) /\ outbox' = Broadcast(box, Open, l)
    BY <1>4 DEF DeleteController
  <2>2. notices \in [Sockets -> Seq(Message)]
    BY <2>1, UnstaffType
  <2>3. l \in Message /\ l.type # "handoffRequested"
    BY MessageTypes DEF Controllers, Staffed
  <2>4. e \in Message /\ e.type # "handoffRequested"
    BY <1>4, RequestKinds DEF Message, DeleteRequest
  <2>5. Asks(notices[t]) \subseteq Asks(outbox[t])
    BY AsksReleases
  <2>. HIDE DEF notices, l, e
  <2>6. box \in [Sockets -> Seq(Message)] /\ Asks(box[t]) \subseteq Asks(notices[t])
    BY <2>2, <2>4, AsksSend, SendType
  <2>. HIDE DEF box
  <2>7. Asks(outbox'[t]) \subseteq Asks(box[t])
    BY <2>1, <2>3, <2>6, AsksSend
  <2>. QED  BY <2>5, <2>6, <2>7
<1>5. CASE /\ r \in TrackRequest \cup HandoffRequest /\ ~Refuse(s, r)
           /\ \/ r.op = "initiate" /\ InitiateControl(s, r)
              \/ r.op = "terminate" /\ TerminateControl(s, r)
              \/ r.op = "accept" /\ AcceptHandoff(s, r)
  <2> DEFINE l == Answer(r, TRUE)
  <2>1. l \in Message /\ l.type # "handoffRequested"
    BY <1>5, MessageTypes DEF Answer
  <2>2. PICK box \in [Sockets -> Seq(Message)], i \in Sectors \cup {NoOne} :
           /\ outbox' = Emit(Broadcast(box, Open, Claimed(r.aircraft, i)), s, l)
           /\ Asks(box[t]) \subseteq Asks(outbox[t])
    <3>1. CASE r.op = "accept" /\ AcceptHandoff(s, r)
      <4> DEFINE h == Handoff("handoffAccepted", r)
                 box == Emit(outbox, controllers[r.controller], h)
      <4>1. r \in HandoffRequest
        BY <3>1, RequestKinds
      <4>2. h \in Message /\ h.type # "handoffRequested" /\ r.to \in Sectors
        BY <4>1, MessageTypes DEF Handoff, HandoffRequest
      <4>3. outbox' = Emit(Broadcast(box, Open, Claimed(r.aircraft, r.to)), s, l)
        BY <1>5, <3>1 DEF AcceptHandoff
      <4>. HIDE DEF h, l
      <4>4. box \in [Sockets -> Seq(Message)] /\ Asks(box[t]) \subseteq Asks(outbox[t])
        BY <1>1, <4>2, AsksSend, SendType
      <4>. HIDE DEF box
      <4>. QED  BY <4>2, <4>3, <4>4
    <3>2. CASE r.op = "initiate" /\ InitiateControl(s, r)
      <4>1. r.controller \in Sectors
        BY <3>2, RequestKinds DEF TrackRequest
      <4>. QED  BY <1>1, <1>5, <3>2, <4>1 DEF InitiateControl
    <3>3. CASE r.op = "terminate" /\ TerminateControl(s, r)
      BY <1>1, <1>5, <3>3 DEF TerminateControl
    <3>. QED  BY <1>5, <3>1, <3>2, <3>3
  <2>3. /\ Claimed(r.aircraft, i) \in Message
        /\ Claimed(r.aircraft, i).type # "handoffRequested"
    BY <1>5, MessageTypes DEF Claimed, TrackRequest, HandoffRequest
  <2>. HIDE DEF l
  <2> DEFINE bex == Broadcast(box, Open, Claimed(r.aircraft, i))
  <2>4. bex \in [Sockets -> Seq(Message)] /\ Asks(bex[t]) \subseteq Asks(box[t])
    BY <2>3, AsksSend, SendType
  <2>. HIDE DEF bex
  <2>5. Asks(outbox'[t]) \subseteq Asks(bex[t])
    BY <2>1, <2>2, <2>4, AsksSend DEF bex
  <2>. QED  BY <2>2, <2>4, <2>5
<1>6. CASE /\ r \in HandoffRequest /\ ~Refuse(s, r)
           /\ \/ r.op = "request" /\ RequestHandoff(s, r)
              \/ r.op = "refuse" /\ RefuseHandoff(s, r)
  <2> DEFINE l == Answer(r, TRUE)
  <2>1. l \in Message /\ l.type # "handoffRequested"
    BY <1>6, MessageTypes DEF Answer
  <2>2. PICK e \in {"handoffRequested", "handoffRefused"} : \E u :
           /\ outbox' = Emit(Emit(outbox, u, Handoff(e, r)), s, l)
           /\ e = "handoffRequested" =>
                 r.op = "request" /\ CanRequest(s, r) /\ u = controllers[r.to]
    BY <1>6 DEF RequestHandoff, RefuseHandoff
  <2>3. PICK u :
           /\ outbox' = Emit(Emit(outbox, u, Handoff(e, r)), s, l)
           /\ e = "handoffRequested" =>
                 r.op = "request" /\ CanRequest(s, r) /\ u = controllers[r.to]
    BY <2>2
  <2>4. Handoff(e, r) \in Message /\ Handoff(e, r).type = e
    BY <1>6, MessageTypes DEF Handoff
  <2>. HIDE DEF l
  <2> DEFINE box == Emit(outbox, u, Handoff(e, r))
  <2>5. /\ box \in [Sockets -> Seq(Message)]
        /\ Asks(box[t]) \subseteq
              Asks(outbox[t])
                \cup (IF e = "handoffRequested" /\ t = u THEN {Handoff(e, r)} ELSE {})
    BY <1>1, <2>4, AsksSend, SendType
  <2>. HIDE DEF box
  <2>6. Asks(outbox'[t]) \subseteq Asks(box[t])
    BY <2>1, <2>3, <2>5, AsksSend DEF box
  <2>. QED  BY <2>3, <2>5, <2>6
<1>. QED  BY <1>2, <1>3, <1>4, <1>5, <1>6, RequestKinds DEF Serves

\* A new request of a handoff is in `asked`, for the client that reads it.
LEMMA AskedStep ==
    ASSUME TypeOK, ClientTypes, [NetworkNext]_networkVars,
           NEW c \in Clients, NEW s \in Sockets, sock[c] = s, NEW m \in Asks(outbox'[s])
    PROVE  m \in Asks(outbox[s]) \/ <<m.aircraft, m.controller, c>> \in asked'
<1>1. ASSUME NEW d \in Clients, Serve(d)
      PROVE  m \in Asks(outbox[s]) \/ <<m.aircraft, m.controller, c>> \in asked'
  <2>1. PICK u \in Sockets, r \in Request : u = sock[d] /\ r = Head(inbox[d])
    BY <1>1, ServeRequest
  <2>2. Serves(u, r)
    BY <1>1, <2>1, ServeRequest
  <2>3. CASE m \notin Asks(outbox[s])
    <3>1. /\ r.op = "request" /\ CanRequest(u, r)
          /\ s = controllers[r.to]
          /\ m = Handoff("handoffRequested", r)
      BY <2>2, <2>3, ServesAsks
    <3>2. m.aircraft = r.aircraft /\ m.controller = r.controller
      BY <3>1 DEF Handoff
    <3>3. asked' = asked \cup {<<r.aircraft, r.controller, e>> :
                                 e \in {f \in Clients : sock[f] = controllers[r.to]}}
      BY <1>1, <2>1, <3>1 DEF Serve
    <3>. QED  BY <3>1, <3>2, <3>3
  <2>. QED  BY <2>3
<1>2. ASSUME NEW d \in Clients, LoseConnection(d) \/ Command(d) \/ \E a \in Aircraft : TimerFires(d, a)
      PROVE  UNCHANGED outbox
  BY <1>2 DEF LoseConnection, Command, TimerFires, PickPosition, Click, sessionVars,
       InitiateControlCommand, TerminateControlCommand, SlewCommand, HandoffCommand
<1>3. ASSUME NEW d \in Clients, OpenConnection(d)
      PROVE  \E t \in Sockets : Connect(t)
  BY <1>3 DEF OpenConnection
<1>4. ASSUME NEW d \in Clients, Receive(d)
      PROVE  \E t \in Sockets : Deliver(t)
  BY <1>4 DEF Receive, ClientTypes
<1>5. ASSUME \/ \E t \in Sockets : NoticeLoss(t) \/ Discard(t)
             \/ \E a \in Aircraft : BlipSent(a)
      PROVE  \/ \E t \in Sockets : Disconnect(t) \/ Deliver(t)
             \/ \E a \in Aircraft : Blip(a)
  BY <1>5 DEF NoticeLoss, Discard, BlipSent
<1>6. CASE UNCHANGED networkVars
  BY <1>6 DEF networkVars, sessionVars
<1>. QED  BY <1>1, <1>2, <1>3, <1>4, <1>5, <1>6, OthersAskNothing DEF NetworkNext

\* What was asked stays asked.
LEMMA AskedGrows ==
    ASSUME [NetworkNext]_networkVars
    PROVE  asked \subseteq asked'
<1>1. ASSUME NEW d \in Clients, Serve(d)
      PROVE  asked \subseteq asked'
  BY <1>1 DEF Serve
<1>2. ASSUME NEW d \in Clients, Command(d)
      PROVE  UNCHANGED asked
  BY <1>2 DEF Command, PickPosition, Click, InitiateControlCommand, TerminateControlCommand,
       SlewCommand, HandoffCommand
<1>3. ASSUME NEW d \in Clients, OpenConnection(d) \/ LoseConnection(d) \/ Receive(d)
                                \/ \E a \in Aircraft : TimerFires(d, a)
      PROVE  UNCHANGED asked
  BY <1>3 DEF OpenConnection, LoseConnection, Receive, TimerFires
<1>4. CASE \/ \E s \in Sockets : NoticeLoss(s) \/ Discard(s)
           \/ \E a \in Aircraft : BlipSent(a)
           \/ UNCHANGED networkVars
  BY <1>4 DEF NoticeLoss, Discard, BlipSent, networkVars, clientVars
<1>. QED  BY <1>1, <1>2, <1>3, <1>4 DEF NetworkNext

\* An offer is made by the oldest message, or was there.
LEMMA OffersStep ==
    ASSUME TypeOK, ClientTypes, QueueInv, [NetworkNext]_networkVars,
           NEW c \in Clients, NEW a \in Aircraft, NEW i \in Sectors, Offered(c, a, i)'
    PROVE  \/ Offered(c, a, i)
           \/ \E s \in Sockets : \E m \in Asks(outbox[s]) :
                 sock[c] = s /\ m.aircraft = a /\ m.controller = i
<1>1. CASE targets'[c][a] = targets[c][a]
  BY <1>1 DEF Offered
<1>2. \A b \in Aircraft : targets[c][b] # Absent => targets[c][b] \in SoundTargets
  BY DEF ClientTypes
<1>3. ASSUME NEW d \in Clients, NEW b \in Aircraft, NEW u,
             targets' = [targets EXCEPT ![d][b] = u], targets'[c][a] # targets[c][a]
      PROVE  d = c /\ b = a /\ targets'[c][a] = u
  BY <1>3 DEF ClientTypes
<1>4. ASSUME NEW d \in Clients, NEW b \in Aircraft, NEW emits, NEW r, Click(d, b, emits, r)
      PROVE  Offered(c, a, i)
  <2>1. CASE targets'[c][a] # targets[c][a]
    <3>1. /\ targets[d][b] # Absent
          /\ targets' = [targets EXCEPT ![d][b] = T!Select(targets[d][b], me[d])]
      BY <1>4 DEF Click
    <3>2. d = c /\ b = a /\ targets'[c][a] = T!Select(targets[c][a], me[c])
      BY <1>3, <2>1, <3>1
    <3>3. targets[c][a] \in SoundTargets
      BY <1>2, <3>1, <3>2
    <3>. QED  BY <3>1, <3>2, <3>3, MethodsKeepOffer DEF Offered
  <2>. QED  BY <1>1, <2>1 DEF Offered
<1>5. ASSUME NEW d \in Clients, NEW b \in Aircraft, TimerFires(d, b)
      PROVE  Offered(c, a, i)
  <2>1. CASE targets'[c][a] # targets[c][a]
    <3>1. PICK timer \in targets[d][b].timers :
             /\ targets[d][b] # Absent
             /\ targets' = [targets EXCEPT ![d][b] = T!Timeout(targets[d][b], timer)]
      BY <1>5 DEF TimerFires
    <3>2. d = c /\ b = a /\ targets'[c][a] = T!Timeout(targets[c][a], timer)
      BY <1>3, <2>1, <3>1
    <3>3. targets[c][a] \in SoundTargets
      BY <1>2, <3>1, <3>2
    <3>. QED  BY <3>1, <3>2, <3>3, MethodsKeepOffer DEF Offered
  <2>. QED  BY <1>1, <2>1 DEF Offered
<1>6. ASSUME NEW d \in Clients, Command(d)
      PROVE  Offered(c, a, i)
  <2>1. ASSUME NEW p \in Positions, PickPosition(d, p)
        PROVE  Offered(c, a, i)
    BY <1>1, <2>1 DEF PickPosition, Offered
  <2>2. ASSUME NEW b \in Aircraft,
               \/ InitiateControlCommand(d, b)
               \/ TerminateControlCommand(d, b)
               \/ SlewCommand(d, b)
               \/ \E to \in Sectors : HandoffCommand(d, b, to)
        PROVE  Offered(c, a, i)
    BY <1>4, <2>2 DEF InitiateControlCommand, TerminateControlCommand, SlewCommand,
         HandoffCommand
  <2>. QED  BY <1>6, <2>1, <2>2 DEF Command
<1>7. ASSUME NEW d \in Clients, Receive(d), targets'[c][a] # targets[c][a]
      PROVE  \/ Offered(c, a, i)
             \/ \E s \in Sockets : \E m \in Asks(outbox[s]) :
                   sock[c] = s /\ m.aircraft = a /\ m.controller = i
  <2>1. PICK s \in Sockets, m \in Message :
           s = sock[d] /\ m = Head(outbox[s]) /\ TakesIn(d, m)
    BY <1>7, ReceiveMessage DEF Open
  <2>2. outbox[s] \in Seq(Message) /\ outbox[s] # <<>>
    BY <1>7, <2>1, ReceiveMessage
  <2>3. CASE m.type = "blip" /\ ReceiveBlip(d, m)
    <3> DEFINE t == targets[d][m.aircraft]
               base == IF t = Absent THEN T!NewTarget ELSE t
               f == Lookup(d, m.controller)
    <3>1. m.aircraft \in Aircraft
      BY <2>3, MessageKinds
    <3>2. targets' = [targets EXCEPT ![d][m.aircraft] = T!Update(base, m.controller, f)]
      BY <2>3 DEF ReceiveBlip
    <3>3. base \in SoundTargets
      BY <3>1, MethodsKeepSound DEF ClientTypes
    <3>4. d = c /\ m.aircraft = a
      BY <1>3, <1>7, <3>1, <3>2
    <3>5. targets'[c][a] = T!Update(base, m.controller, f)
      BY <1>3, <1>7, <3>1, <3>2
    <3>6. T!IsUndergoingInboundHandoff(base) /\ base.other = i
      <4>. HIDE DEF base, f
      <4>. QED  BY <3>3, <3>5, MethodsKeepOffer DEF Offered
    <3>7. base = t /\ t # Absent
      BY <3>6, <3>3, MethodsKeepOffer
    <3>. QED  BY <3>4, <3>6, <3>7 DEF Offered
  <2>4. CASE m.type = "ownershipClaimed" /\ ReceiveOwnership(d, m)
    <3> DEFINE t == targets[d][m.aircraft]
               f == Lookup(d, m.controller)
    <3>1. m.aircraft \in Aircraft
      BY <2>4, MessageKinds
    <3>2. t # Absent /\ targets' = [targets EXCEPT ![d][m.aircraft] = T!SetController(t, f)]
      BY <1>7, <2>4 DEF ReceiveOwnership, Retarget
    <3>3. d = c /\ m.aircraft = a /\ targets'[c][a] = T!SetController(t, f)
      BY <1>3, <1>7, <3>1, <3>2
    <3>4. t \in SoundTargets
      BY <3>1, <3>2 DEF ClientTypes
    <3>. HIDE DEF f
    <3>. QED  BY <3>2, <3>3, <3>4, MethodsKeepOffer DEF Offered
  <2>5. CASE m.type = "deleted" /\ ReceiveDeleted(d, m)
    <3>1. targets' = [targets EXCEPT ![d] =
                        [b \in Aircraft |->
                          IF targets[d][b] # Absent /\ targets[d][b].controller = me[d]
                          THEN T!SetController(targets[d][b], NoOne) ELSE targets[d][b]]]
      BY <2>5 DEF ReceiveDeleted
    <3>2. /\ targets[c][a] # Absent
          /\ targets'[c][a] = T!SetController(targets[c][a], NoOne)
      BY <1>7, <3>1 DEF ClientTypes
    <3>. QED  BY <1>2, <3>2, MethodsKeepOffer DEF Offered
  <2>6. CASE m.type = "answer" /\ ReceiveAnswer(d, m)
    <3> DEFINE r == m.request
               t == targets[d][r.aircraft]
               u == CASE m.ok /\ r.op = "request" -> T!RequestSent(t, r.to)
                      [] m.ok /\ r.op = "accept" -> T!AcceptSucceeded(t, me[d])
                      [] m.ok /\ r.op = "refuse" -> T!RefusalSucceeded(t)
                      [] OTHER -> t
    <3>1. r.aircraft \in Aircraft
      BY <2>6, MessageKinds DEF TrackRequest, HandoffRequest
    <3>2. targets' = [targets EXCEPT ![d][r.aircraft] = u]
      BY <2>6 DEF ReceiveAnswer
    <3>3. d = c /\ r.aircraft = a /\ targets'[c][a] = u
      <4>. HIDE DEF u
      <4>. QED  BY <1>3, <1>7, <3>1, <3>2
    <3>4. \/ u = t
          \/ u = T!RequestSent(t, r.to)
          \/ u = T!AcceptSucceeded(t, me[d])
          \/ u = T!RefusalSucceeded(t)
      OBVIOUS
    <3>. HIDE DEF u
    <3>5. t \in SoundTargets
      <4>1. AnswersThere(outbox[s], targets[d])
        BY <1>7, <2>1 DEF QueueInv, Receive
      <4>2. 1 \in 1 .. Len(outbox[s]) /\ outbox[s][1] = m
        BY <2>1, <2>2
      <4>3. t # Absent
        BY <2>6, <4>1, <4>2 DEF AnswersThere, IsAnswer
      <4>. QED  BY <3>1, <4>3 DEF ClientTypes
    <3>6. T!IsUndergoingInboundHandoff(u)
      BY <3>3 DEF Offered
    <3>. HIDE DEF t
    <3>7. u = t
      BY <3>4, <3>5, <3>6, MethodsKeepOffer
    <3>8. u = targets[c][a]
      BY <3>3, <3>7 DEF t
    <3>. QED  BY <1>7, <3>3, <3>8
  <2>7. CASE /\ m.type \in {"handoffRequested", "handoffAccepted", "handoffRefused"}
             /\ ReceiveHandoff(d, m)
    <3> DEFINE t == targets[d][m.aircraft]
               u == CASE m.type = "handoffRequested" ->
                            T!InboundHandoff(t, Lookup(d, m.controller))
                      [] m.type = "handoffAccepted" ->
                            T!HandoffAccepted(t, Lookup(d, m.to))
                      [] m.type = "handoffRefused" -> T!HandoffRefused(t)
    <3>1. m.aircraft \in Aircraft
      BY <2>7, MessageKinds
    <3>2. t # Absent /\ targets' = [targets EXCEPT ![d][m.aircraft] = u]
      BY <1>7, <2>7 DEF ReceiveHandoff, Retarget
    <3>3. d = c /\ m.aircraft = a /\ targets'[c][a] = u
      <4>. HIDE DEF u
      <4>. QED  BY <1>3, <1>7, <3>1, <3>2
    <3>4. t \in SoundTargets
      BY <3>1, <3>2 DEF ClientTypes
    <3>5. T!IsUndergoingInboundHandoff(u) /\ u.other = i
      BY <3>3 DEF Offered
    <3>6. CASE m.type = "handoffRequested"
      <4>1. Lookup(d, m.controller) = i
        BY <3>4, <3>5, <3>6, MethodsKeepOffer
      <4>2. m.controller = i
        BY <4>1, ConstantsAssumption DEF Lookup
      <4>3. m \in Asks(outbox[s])
        BY <2>1, <2>2, <3>6 DEF Asks
      <4>. QED  BY <2>1, <3>3, <4>2, <4>3
    <3>7. CASE m.type = "handoffAccepted"
      <4>1. u = T!HandoffAccepted(t, Lookup(d, m.to))
        BY <3>7
      <4>. HIDE DEF u, t
      <4>. QED  BY <3>4, <3>5, <4>1, MethodsKeepOffer
    <3>8. CASE m.type = "handoffRefused"
      <4>1. u = T!HandoffRefused(t)
        BY <3>8
      <4>. HIDE DEF u, t
      <4>. QED  BY <3>4, <3>5, <4>1, MethodsKeepOffer
    <3>. QED  BY <2>7, <3>6, <3>7, <3>8
  <2>8. CASE \/ m.type = "controllers" /\ ReceiveControllers(d, m)
             \/ m.type = "added" /\ ReceiveAdded(d, m)
    BY <1>7, <2>8 DEF ReceiveControllers, ReceiveAdded
  <2>. QED  BY <2>1, <2>3, <2>4, <2>5, <2>6, <2>7, <2>8 DEF TakesIn
<1>8. ASSUME NEW d \in Clients, OpenConnection(d) \/ LoseConnection(d) \/ Serve(d)
      PROVE  UNCHANGED targets
  BY <1>8 DEF OpenConnection, LoseConnection, Serve
<1>9. CASE \/ \E s \in Sockets : NoticeLoss(s) \/ Discard(s)
           \/ \E b \in Aircraft : BlipSent(b)
           \/ UNCHANGED networkVars
  BY <1>1, <1>9 DEF NoticeLoss, Discard, BlipSent, networkVars, clientVars
<1>. QED  BY <1>1, <1>5, <1>6, <1>7, <1>8, <1>9 DEF NetworkNext

(***************************************************************************)
(* Whatever is offered to a client, or accepted by it, or about to be      *)
(* offered to it, was asked of it.                                         *)
(***************************************************************************)
AcceptsAsked(c, q, A) ==
    \A n \in 1 .. Len(q) :
        q[n].op = "accept" => <<q[n].aircraft, q[n].controller, c>> \in A

ConsentInv ==
    \A c \in Clients :
        /\ \A a \in Aircraft, i \in Sectors : Offered(c, a, i) => <<a, i, c>> \in asked
        /\ AcceptsAsked(c, inbox[c], asked)
        /\ \A s \in Sockets : \A m \in Asks(outbox[s]) :
              sock[c] = s => <<m.aircraft, m.controller, c>> \in asked

LEMMA AcceptsOf ==
    ASSUME NEW c, NEW q \in Seq(Request), NEW A, NEW B, A \subseteq B, AcceptsAsked(c, q, A),
           NEW z,
           \/ z = q
           \/ z = <<>>
           \/ q # <<>> /\ z = Tail(q)
           \/ \E r \in Request :
                 /\ z = Append(q, r)
                 /\ r.op = "accept" => <<r.aircraft, r.controller, c>> \in B
    PROVE  AcceptsAsked(c, z, B)
<1>1. CASE z = q \/ z = <<>>
  BY <1>1 DEF AcceptsAsked
<1>2. CASE q # <<>> /\ z = Tail(q)
  <2>1. \A n \in 1 .. Len(z) : n + 1 \in 1 .. Len(q) /\ z[n] = q[n + 1]
    BY <1>2
  <2>. QED  BY <2>1 DEF AcceptsAsked
<1>3. ASSUME NEW r \in Request, z = Append(q, r),
             r.op = "accept" => <<r.aircraft, r.controller, c>> \in B
      PROVE  AcceptsAsked(c, z, B)
  <2>1. \A n \in 1 .. Len(z) : (n \in 1 .. Len(q) /\ z[n] = q[n]) \/ z[n] = r
    BY <1>3
  <2>. QED  BY <1>3, <2>1 DEF AcceptsAsked
<1>. QED  BY <1>1, <1>2, <1>3

LEMMA ConsentStep ==
    ASSUME NetworkInv, ConsentInv, [NetworkNext]_networkVars
    PROVE  ConsentInv'
<1> USE DEF NetworkInv
<1>1. asked \subseteq asked'
  BY AskedGrows
<1>. SUFFICES ASSUME NEW c \in Clients
              PROVE  /\ \A a \in Aircraft, i \in Sectors :
                           Offered(c, a, i)' => <<a, i, c>> \in asked'
                     /\ AcceptsAsked(c, inbox'[c], asked')
                     /\ \A s \in Sockets : \A m \in Asks(outbox'[s]) :
                           sock'[c] = s => <<m.aircraft, m.controller, c>> \in asked'
  BY DEF ConsentInv, AcceptsAsked
<1>2. ASSUME NEW a \in Aircraft, NEW i \in Sectors, Offered(c, a, i)'
      PROVE  <<a, i, c>> \in asked'
  BY <1>1, <1>2, OffersStep DEF ConsentInv
<1>3. AcceptsAsked(c, inbox'[c], asked')
  <2>1. PICK q \in Seq(Request) : q = inbox[c]
    BY DEF ClientTypes
  <2>2. PICK z : z = inbox'[c]
    OBVIOUS
  <2>3. ASSUME NEW r, Sends(c, r), r.op = "accept"
        PROVE  <<r.aircraft, r.controller, c>> \in asked'
    <3>1. r.aircraft \in Aircraft /\ r.controller \in Sectors
      BY <2>3, RequestKinds DEF Sends, HandoffRequest
    <3>. QED  BY <1>1, <2>3, <3>1 DEF Sends, ConsentInv
  <2>4. \/ z = q
        \/ z = <<>>
        \/ q # <<>> /\ z = Tail(q)
        \/ \E r \in Request :
              /\ z = Append(q, r)
              /\ r.op = "accept" => <<r.aircraft, r.controller, c>> \in asked'
    BY <2>1, <2>2, <2>3, InboxStep DEF Sends
  <2>5. AcceptsAsked(c, q, asked)
    BY <2>1 DEF ConsentInv
  <2>6. AcceptsAsked(c, z, asked')
    BY <1>1, <2>4, <2>5, AcceptsOf
  <2>. QED  BY <2>2, <2>6
<1>4. ASSUME NEW s \in Sockets, NEW m \in Asks(outbox'[s]), sock'[c] = s
      PROVE  <<m.aircraft, m.controller, c>> \in asked'
  <2>1. CASE sock[c] = s
    BY <1>1, <2>1, AskedStep DEF ConsentInv
  <2>2. CASE sock[c] # s
    <3>1. sock[c] = NoSocket /\ Begins(c)
      <4>1. s # NoSocket
        BY ConstantsAssumption
      <4>2. ~Receive(c)
        BY <1>4, <2>2, ReceiveMessage
      <4>. QED  BY <1>4, <2>2, <4>1, <4>2, ClientSteps DEF ServerGoesOn, ClientActs
    <3>2. outbox'[s] = <<>>
      BY <1>4, <3>1 DEF Begins
    <3>. QED  BY <1>4, <3>2 DEF Asks
  <2>. QED  BY <2>1, <2>2
<1>. QED  BY <1>2, <1>3, <1>4

\* An aircraft gets a controller by the request of a client whose connection
\* speaks for that controller's sector.
LEMMA OwnerChanges ==
    ASSUME TypeOK, ClientTypes, [NetworkNext]_networkVars, NEW a \in Aircraft,
           owner'[a] \notin {NoOne, owner[a]}
    PROVE  \E c \in Clients : \E s \in Sockets, r \in Request :
              /\ Serve(c) /\ sock[c] = s /\ inbox[c] # <<>> /\ inbox[c][1] = r
              /\ OnAircraft(r) /\ Sender(r) = owner'[a] /\ sockets[s] = owner'[a]
              /\ owner[a] # NoOne => /\ r.op = "accept" /\ r.aircraft = a
                                     /\ r.controller = owner[a]
              /\ UNCHANGED <<sockets, controllers>>
<1>1. PICK c \in Clients : Serve(c)
  <2>1. ASSUME NEW s \in Sockets, Disconnect(s)
        PROVE  owner'[a] \in {NoOne, owner[a]}
    BY <2>1 DEF Disconnect, Unstaff
  <2>2. ASSUME NEW c \in Clients, OpenConnection(c) \/ LoseConnection(c) \/ Command(c)
                 \/ Receive(c) \/ \E b \in Aircraft : TimerFires(c, b)
        PROVE  UNCHANGED owner
    BY <2>2 DEF OpenConnection, Connect, LoseConnection, Command, TimerFires, PickPosition,
       Click, sessionVars, InitiateControlCommand, TerminateControlCommand, SlewCommand,
       HandoffCommand, Receive, Deliver
  <2>3. ASSUME \/ \E s \in Sockets : Discard(s)
               \/ \E b \in Aircraft : BlipSent(b)
               \/ UNCHANGED networkVars
        PROVE  UNCHANGED owner
    BY <2>3 DEF Discard, Deliver, BlipSent, Blip, networkVars, sessionVars
  <2>. QED  BY <2>1, <2>2, <2>3 DEF NetworkNext, NoticeLoss
<1>2. PICK s \in Sockets, r \in Request : s = sock[c] /\ r = Head(inbox[c])
  BY <1>1, ServeRequest
<1>3. Serves(s, r) /\ inbox[c] \in Seq(Request) /\ inbox[c] # <<>>
  BY <1>1, <1>2, ServeRequest
<1>4. inbox[c][1] = r /\ ~Refuse(s, r)
  <2>1. inbox[c][1] = r
    BY <1>2, <1>3
  <2>2. ~Refuse(s, r)
    BY DEF Refuse
  <2>. QED  BY <2>1, <2>2
<1>5. CASE \/ r.op = "add" /\ AddController(s, r)
           \/ r.op = "delete" /\ DeleteController(s, r)
           \/ r.op = "request" /\ RequestHandoff(s, r)
           \/ r.op = "refuse" /\ RefuseHandoff(s, r)
  BY <1>4, <1>5 DEF AddController, AddKnown, AddUnknown, DeleteController, Unstaff,
     RequestHandoff, RefuseHandoff
<1>6. CASE r.op = "terminate" /\ TerminateControl(s, r)
  <2>1. owner' = [owner EXCEPT ![r.aircraft] = NoOne]
    BY <1>4, <1>6 DEF TerminateControl
  <2>. QED  BY <2>1 DEF TypeOK
<1>7. CASE r.op = "initiate" /\ InitiateControl(s, r)
  <2>1. /\ sockets[s] = r.controller /\ owner[r.aircraft] = NoOne
        /\ owner' = [owner EXCEPT ![r.aircraft] = r.controller]
        /\ UNCHANGED <<sockets, controllers>>
    BY <1>4, <1>7 DEF InitiateControl, Speaks
  <2>2. r.aircraft = a /\ owner'[a] = r.controller
    BY <2>1 DEF TypeOK
  <2>3. OnAircraft(r) /\ Sender(r) = r.controller
    BY <1>7 DEF OnAircraft, Sender
  <2>. QED  BY <1>1, <1>2, <1>3, <1>4, <2>1, <2>2, <2>3
<1>8. CASE r.op = "accept" /\ AcceptHandoff(s, r)
  <2>1. /\ sockets[s] = r.to /\ owner[r.aircraft] = r.controller
        /\ owner' = [owner EXCEPT ![r.aircraft] = r.to]
        /\ UNCHANGED <<sockets, controllers>>
    BY <1>4, <1>8 DEF AcceptHandoff, CanReply, Speaks
  <2>2. r.aircraft = a /\ owner'[a] = r.to
    BY <2>1 DEF TypeOK
  <2>3. OnAircraft(r) /\ Sender(r) = r.to
    BY <1>8 DEF OnAircraft, Sender
  <2>. QED  BY <1>1, <1>2, <1>3, <1>4, <1>8, <2>1, <2>2, <2>3
<1>. QED  BY <1>3, <1>5, <1>6, <1>7, <1>8 DEF Serves

LEMMA TransferIsAccepted ==
    ASSUME NetworkInv, ConsentInv, [NetworkNext]_networkVars, NEW a \in Aircraft,
           owner[a] # NoOne, owner'[a] \notin {NoOne, owner[a]}
    PROVE  \E c \in Clients :
              /\ <<a, owner[a], c>> \in asked
              /\ sock[c] = controllers[owner'[a]]
<1> USE DEF NetworkInv
<1>1. PICK c \in Clients, s \in Sockets, r \in Request :
         /\ sock[c] = s /\ inbox[c] # <<>> /\ inbox[c][1] = r
         /\ r.op = "accept" /\ r.aircraft = a /\ r.controller = owner[a]
         /\ sockets[s] = owner'[a]
  BY OwnerChanges
<1>2. controllers[owner'[a]] = s
  BY <1>1 DEF TablesAgree, SocketIndex
<1>3. 1 \in 1 .. Len(inbox[c])
  BY <1>1 DEF ClientTypes
<1>4. <<r.aircraft, r.controller, c>> \in asked
  BY <1>1, <1>3 DEF ConsentInv, AcceptsAsked
<1>. QED  BY <1>1, <1>2, <1>4

(***************************************************************************)
(* An aircraft only passes to a sector whose client had been asked by the  *)
(* sector that had it, although the server keeps no record of requests.    *)
(***************************************************************************)
THEOREM ConsentedTransferCorrect == NetworkSpec => ConsentedTransfer
<1> DEFINE Consented ==
       \A a \in Aircraft :
          owner[a] # NoOne /\ owner'[a] \notin {NoOne, owner[a]}
          => \E c \in Clients :
                /\ <<a, owner[a], c>> \in asked
                /\ sock[c] = controllers[owner'[a]]
<1>1. NetworkInit => ConsentInv
  <2>1. 1 .. Len(<<>>) = {}
    OBVIOUS
  <2>. QED  BY <2>1 DEF NetworkInit, Init, ConsentInv, Offered, Asks, AcceptsAsked
<1>2. NetworkInv /\ ConsentInv /\ [NetworkNext]_networkVars => ConsentInv'
  BY ConsentStep
<1>3. NetworkInv /\ ConsentInv /\ [NetworkNext]_networkVars => [Consented]_networkVars
  BY TransferIsAccepted
<1>. QED  BY <1>1, <1>2, <1>3, NetworkInvariant, PTL DEF NetworkSpec, ConsentedTransfer
-----------------------------------------------------------------------------
(***************************************************************************)
(* Positions that a connection took before the one it speaks for: the      *)
(* sectors handed out so far, and what each client says and is told of.    *)
(***************************************************************************)
UsedSectors == {i \in Sectors : Used(i)}

\* The requests of the queue b are in the name of sectors of U.
SendersIn(b, U) == \A n \in 1 .. Len(b) : OnAircraft(b[n]) => Sender(b[n]) \in U

\* The sectors that messages of q give the client are of U.
NamedIn(q, U) == \A n \in 1 .. Len(q) : Names(q[n]) => Named(q[n]) \in U \cup {NoOne}

(***************************************************************************)
(* What a client has, has sent and will be told are sectors that were      *)
(* handed out: so none is the next one.                                    *)
(***************************************************************************)
FreshInv ==
    \A c \in Clients :
        /\ me[c] \in UsedSectors \cup {NoOne}
        /\ SendersIn(inbox[c], UsedSectors)
        /\ \A s \in Sockets : sock[c] = s => NamedIn(outbox[s], UsedSectors)

(***************************************************************************)
(* A connection speaks for i, its client has the sector x; q is under way  *)
(* to the client and b from it; `owns` when the sector i tracks something. *)
(* The message that gives i to the client is the last that gives it one.   *)
(* Requests in the name of i, and tracks, are there only once the client   *)
(* has i, and then it takes no other position before it gives up this one. *)
(***************************************************************************)
Position(q, b, x, i, owns) ==
    /\ \A n \in 1 .. Len(q) :
          Names(q[n]) /\ Named(q[n]) = i => \A k \in n + 1 .. Len(q) : ~Names(q[k])
    /\ x = i => \A n \in 1 .. Len(q) : ~Names(q[n])
    /\ \A n \in 1 .. Len(b) :
          OnAircraft(b[n]) /\ Sender(b[n]) = i
          => x = i /\ \A k \in n + 1 .. Len(b) : b[k].op # "add"
    /\ owns => x = i /\ \A n \in 1 .. Len(b) : b[n].op # "add"

Owns(i) == \E a \in Aircraft : owner[a] = i

PositionInv ==
    \A c \in Clients, s \in Sockets :
        sock[c] = s /\ sockets[s] # NoOne
        => Position(outbox[s], inbox[c], me[c], sockets[s], Owns(sockets[s]))

\* Only what a client reads changes its sector.
LEMMA SectorStep ==
    ASSUME ClientTypes, [NetworkNext]_networkVars, NEW c \in Clients
    PROVE  me'[c] = me[c] \/ Receive(c)
<1>1. ASSUME NEW d \in Clients, Command(d)
      PROVE  UNCHANGED me
  BY <1>1 DEF Command, PickPosition, Click, InitiateControlCommand, TerminateControlCommand,
     SlewCommand, HandoffCommand
<1>2. ASSUME NEW d \in Clients, OpenConnection(d) \/ LoseConnection(d) \/ Serve(d)
                                \/ \E a \in Aircraft : TimerFires(d, a)
      PROVE  UNCHANGED me
  BY <1>2 DEF OpenConnection, LoseConnection, Serve, TimerFires
<1>3. ASSUME NEW d \in Clients, Receive(d), d # c
      PROVE  me'[c] = me[c]
  BY <1>3 DEF Receive, ReceiveControllers, ReceiveBlip, ReceiveOwnership,
     ReceiveHandoff, ReceiveAdded, ReceiveDeleted, ReceiveAnswer, ClientTypes
<1>4. CASE \/ \E s \in Sockets : NoticeLoss(s) \/ Discard(s)
           \/ \E a \in Aircraft : BlipSent(a)
           \/ UNCHANGED networkVars
  BY <1>4 DEF NoticeLoss, Discard, BlipSent, networkVars, clientVars
<1>. QED  BY <1>1, <1>2, <1>3, <1>4 DEF NetworkNext

\* A client reads its oldest message.
LEMMA ReadsOldest ==
    ASSUME TypeOK, ClientTypes, NEW c \in Clients, NEW s \in Sockets, sock[c] = s, Receive(c)
    PROVE  /\ outbox[s] # <<>> /\ outbox'[s] = Tail(outbox[s]) /\ UNCHANGED <<sockets, owner>>
           /\ outbox[s] \in Seq(Message)
           /\ me'[c] = IF Names(outbox[s][1]) THEN Named(outbox[s][1]) ELSE me[c]
<1>1. PICK q \in Seq(Message), m \in Message :
         /\ q = outbox[s] /\ q # <<>> /\ m = Head(q) /\ TakesIn(c, m)
  BY ReceiveMessage
<1>2. me'[c] = IF Names(m) THEN Named(m) ELSE me[c]
  BY <1>1, TakesLists
<1>3. m = q[1]
  BY <1>1
<1>4. outbox' = [outbox EXCEPT ![s] = Tail(q)] /\ UNCHANGED <<sockets, owner>>
  BY <1>1, ReceiveMessage
<1>5. outbox'[s] = Tail(q)
  BY <1>4 DEF TypeOK
<1>. QED  BY <1>1, <1>2, <1>3, <1>4, <1>5

\* Identifiers are not handed out again, and those in the tables were.
LEMMA UsedGrows ==
    ASSUME TypeOK, [Next]_sessionVars
    PROVE  UsedSectors \subseteq UsedSectors'
<1>1. ASSUME UNCHANGED counts
      PROVE  UsedSectors \subseteq UsedSectors'
  BY <1>1 DEF UsedSectors, Used
<1>2. ASSUME NEW s \in Sockets, NEW p \in Positions, Takes(s, p)
      PROVE  UsedSectors \subseteq UsedSectors'
  <2>1. \A o \in Positions : counts[o] \in Nat /\ counts'[o] \in Nat /\ counts[o] <= counts'[o]
    BY <1>2, ConstantsAssumption DEF Takes, TypeOK
  <2>2. \A i \in Sectors : i[1] \in Positions /\ i[2] \in Nat
    BY ConstantsAssumption DEF Sectors
  <2>. QED  BY <2>1, <2>2 DEF UsedSectors, Used
<1>. QED  BY <1>1, <1>2, Effects DEF TablesSame, GivesUp, Unstaff, Passes

LEMMA TablesUsed ==
    ASSUME TypeOK, TablesAgree
    PROVE  /\ \A s \in Sockets : sockets[s] \in UsedSectors \cup {NoOne}
           /\ \A a \in Aircraft : owner[a] \in UsedSectors \cup {NoOne}
<1>1. Staffed \subseteq UsedSectors
  BY DEF TablesAgree, CountsAhead, UsedSectors, Used, Staffed
<1>2. \A s \in Sockets : sockets[s] # NoOne => sockets[s] \in Staffed
  BY ConstantsAssumption DEF TablesAgree, SocketIndex, Staffed, TypeOK
<1>. QED  BY <1>1, <1>2 DEF TablesAgree, OwnerStaffed

\* What requests a client has under way after a step.
LEMMA SendersStep ==
    ASSUME NEW U, NEW b \in Seq(Request), NEW z, SendersIn(b, U),
           \/ z = b
           \/ z = <<>>
           \/ b # <<>> /\ z = Tail(b)
           \/ \E r \in Request : z = Append(b, r) /\ (OnAircraft(r) => Sender(r) \in U)
    PROVE  SendersIn(z, U)
<1>1. CASE z = b \/ z = <<>>
  BY <1>1 DEF SendersIn
<1>2. CASE b # <<>> /\ z = Tail(b)
  <2>1. \A n \in 1 .. Len(z) : n + 1 \in 1 .. Len(b) /\ z[n] = b[n + 1]
    BY <1>2
  <2>. QED  BY <2>1 DEF SendersIn
<1>3. ASSUME NEW r \in Request, z = Append(b, r), OnAircraft(r) => Sender(r) \in U
      PROVE  SendersIn(z, U)
  <2>1. \A n \in 1 .. Len(z) : (n \in 1 .. Len(b) /\ z[n] = b[n]) \/ z[n] = r
    BY <1>3
  <2>. QED  BY <1>3, <2>1 DEF SendersIn
<1>. QED  BY <1>1, <1>2, <1>3

\* What a client is told of after a step.
LEMMA NamedAppend ==
    ASSUME NEW q \in Seq(Message), NEW r \in Seq(Message), NEW U, NamedIn(q, U), NamedIn(r, U)
    PROVE  NamedIn(q \o r, U)
<1> DEFINE z == q \o r
<1>1. /\ Len(q) \in Nat /\ Len(r) \in Nat /\ Len(z) = Len(q) + Len(r)
      /\ \A n \in 1 .. Len(z) : z[n] = IF n <= Len(q) THEN q[n] ELSE r[n - Len(q)]
  OBVIOUS
<1>. HIDE DEF z
<1>2. ASSUME NEW n \in 1 .. Len(z)
      PROVE  Names(z[n]) => Named(z[n]) \in U \cup {NoOne}
  <2>1. CASE n <= Len(q)
    <3>1. n \in 1 .. Len(q) /\ z[n] = q[n]
      BY <1>1, <2>1
    <3>. QED  BY <3>1 DEF NamedIn
  <2>2. CASE ~(n <= Len(q))
    <3>1. PICK k \in 1 .. Len(r) : z[n] = r[k]
      <4>1. n - Len(q) \in 1 .. Len(r) /\ z[n] = r[n - Len(q)]
        BY <1>1, <2>2
      <4>. QED  BY <4>1
    <3>. QED  BY <3>1 DEF NamedIn
  <2>. QED  BY <2>1, <2>2
<1>3. NamedIn(z, U)
  BY <1>2 DEF NamedIn
<1>. QED  BY <1>3 DEF z

LEMMA FreshStep ==
    ASSUME NetworkInv, FreshInv, [NetworkNext]_networkVars
    PROVE  FreshInv'
<1> USE DEF NetworkInv
<1>1. UsedSectors \subseteq UsedSectors'
  BY SessionStep, UsedGrows
<1>2. PICK U, V : U = UsedSectors /\ V = UsedSectors'
  OBVIOUS
<1>. SUFFICES ASSUME NEW c \in Clients
              PROVE  /\ me'[c] \in V \cup {NoOne}
                     /\ SendersIn(inbox'[c], V)
                     /\ \A s \in Sockets : sock'[c] = s => NamedIn(outbox'[s], V)
  BY <1>2 DEF FreshInv, SendersIn, NamedIn
<1>3. U \subseteq V
  BY <1>1, <1>2
<1>4. me'[c] \in V \cup {NoOne}
  <2>1. CASE me'[c] = me[c]
    BY <1>2, <1>3, <2>1 DEF FreshInv
  <2>2. CASE Receive(c)
    <3>1. PICK s \in Sockets : sock[c] = s
      BY <2>2, ReceiveMessage DEF Open
    <3>2. NamedIn(outbox[s], U) /\ me[c] \in U \cup {NoOne}
      BY <1>2, <3>1 DEF FreshInv
    <3>3. /\ outbox[s] # <<>> /\ outbox[s] \in Seq(Message)
          /\ me'[c] = IF Names(outbox[s][1]) THEN Named(outbox[s][1]) ELSE me[c]
      BY <2>2, <3>1, ReadsOldest
    <3>4. 1 \in 1 .. Len(outbox[s])
      BY <3>3
    <3>. QED  BY <1>3, <3>2, <3>3, <3>4 DEF NamedIn
  <2>. QED  BY <2>1, <2>2, SectorStep
<1>5. SendersIn(inbox'[c], V)
  <2>1. PICK b \in Seq(Request) : b = inbox[c]
    BY DEF ClientTypes
  <2>2. PICK z : z = inbox'[c]
    OBVIOUS
  <2>3. SendersIn(b, V)
    BY <1>2, <1>3, <2>1 DEF FreshInv, SendersIn
  <2>4. ASSUME NEW r, Sends(c, r), OnAircraft(r)
        PROVE  Sender(r) \in V
    BY <1>2, <1>3, <2>4 DEF Sends, FreshInv
  <2>5. \/ z = b
        \/ z = <<>>
        \/ b # <<>> /\ z = Tail(b)
        \/ \E r \in Request : z = Append(b, r) /\ (OnAircraft(r) => Sender(r) \in V)
    BY <2>1, <2>2, <2>4, InboxStep DEF Sends
  <2>6. SendersIn(z, V)
    BY <2>3, <2>5, SendersStep
  <2>. QED  BY <2>2, <2>6
<1>6. ASSUME NEW s \in Sockets, sock'[c] = s
      PROVE  NamedIn(outbox'[s], V)
  <2>1. s # NoSocket
    BY ConstantsAssumption
  <2>2. CASE Begins(c)
    BY <1>6, <2>2 DEF Begins, NamedIn
  <2>3. CASE sock[c] # NoSocket /\ ServerGoesOn(c)
    <3>1. PICK X : Grown(s, X) /\ sock[c] = s
      BY <1>6, <2>3 DEF ServerGoesOn
    <3>2. PICK q \in Seq(Message), r \in Seq(Message) :
             q = outbox[s] /\ outbox'[s] = q \o r /\ NamesFresh(r)
      BY <3>1 DEF Grown, Appends, TypeOK
    <3>3. NamedIn(r, V)
      <4>1. \A n \in 1 .. Len(r) : Named(r[n]) \in Sectors \cup {NoOne}
        BY MessageKinds DEF Named
      <4>. QED  BY <1>2, <3>2, <4>1 DEF NamedIn, NamesFresh, UsedSectors
    <3>4. NamedIn(q, V)
      BY <1>2, <1>3, <3>1, <3>2 DEF FreshInv, NamedIn
    <3>. QED  BY <3>2, <3>3, <3>4, NamedAppend
  <2>4. CASE sock[c] # NoSocket /\ ClientActs(c)
    BY <1>2, <1>3, <1>6, <2>4 DEF ClientActs, sessionVars, FreshInv, NamedIn
  <2>5. CASE Receive(c)
    <3>1. sock[c] = s
      BY <1>6, <2>5, ReceiveMessage
    <3>2. PICK q \in Seq(Message) : q = outbox[s] /\ q # <<>> /\ outbox'[s] = Tail(q)
      BY <2>5, <3>1, ReadsOldest
    <3>3. \A n \in 1 .. Len(Tail(q)) : n + 1 \in 1 .. Len(q) /\ Tail(q)[n] = q[n + 1]
      BY <3>2
    <3>4. NamedIn(q, V)
      BY <1>2, <1>3, <3>1, <3>2 DEF FreshInv, NamedIn
    <3>. QED  BY <3>2, <3>3, <3>4 DEF NamedIn
  <2>. QED  BY <1>6, <2>1, <2>2, <2>3, <2>4, <2>5, ClientSteps
<1>. QED  BY <1>4, <1>5, <1>6

\* A position that was just taken.
LEMMA NewPosition ==
    ASSUME NEW U, NEW i, i \notin U, i # NoOne,
           NEW q \in Seq(Message), NEW r \in Seq(Message), NamedIn(q, U),
           \A n \in 1 .. Len(r) : Names(r[n]) => \A k \in 1 .. Len(r) : Names(r[k]) => k = n,
           NEW b, SendersIn(b, U), NEW x \in U \cup {NoOne}
    PROVE  Position(q \o r, b, x, i, FALSE)
<1> DEFINE z == q \o r
<1>1. /\ Len(q) \in Nat /\ Len(r) \in Nat /\ Len(z) = Len(q) + Len(r)
      /\ \A n \in 1 .. Len(z) : z[n] = IF n <= Len(q) THEN q[n] ELSE r[n - Len(q)]
  OBVIOUS
<1>. HIDE DEF z
<1>2. ASSUME NEW n \in 1 .. Len(z), Names(z[n]), Named(z[n]) = i,
             NEW k \in n + 1 .. Len(z), Names(z[k])
      PROVE  FALSE
  <2>1. ~(n <= Len(q))
    <3>. SUFFICES ASSUME n <= Len(q)
                  PROVE  FALSE
      OBVIOUS
    <3>1. n \in 1 .. Len(q) /\ z[n] = q[n]
      BY <1>1
    <3>. QED  BY <1>2, <3>1 DEF NamedIn
  <2>2. /\ n - Len(q) \in 1 .. Len(r) /\ z[n] = r[n - Len(q)]
        /\ k \in 1 .. Len(z) /\ ~(k <= Len(q)) /\ k # n
    BY <1>1, <2>1
  <2>3. k - Len(q) \in 1 .. Len(r) /\ z[k] = r[k - Len(q)] /\ k - Len(q) # n - Len(q)
    BY <1>1, <2>2
  <2>. QED  BY <1>2, <2>2, <2>3
<1>3. x # i
  OBVIOUS
<1>4. \A n \in 1 .. Len(b) : OnAircraft(b[n]) => Sender(b[n]) # i
  BY DEF SendersIn
<1>5. Position(z, b, x, i, FALSE)
  BY <1>2, <1>3, <1>4 DEF Position
<1>. QED  BY <1>5 DEF z

\* The server goes on without telling the client of a sector.
LEMMA PositionAppend ==
    ASSUME NEW q \in Seq(Message), NEW r \in Seq(Message), NEW b, NEW x, NEW i, NEW o,
           \A n \in 1 .. Len(r) : ~Names(r[n]),
           Position(q, b, x, i, o)
    PROVE  Position(q \o r, b, x, i, o)
<1> DEFINE z == q \o r
<1>1. /\ Len(q) \in Nat /\ Len(r) \in Nat /\ Len(z) = Len(q) + Len(r)
      /\ \A n \in 1 .. Len(z) : z[n] = IF n <= Len(q) THEN q[n] ELSE r[n - Len(q)]
  OBVIOUS
<1>. HIDE DEF z
<1>2. \A n \in 1 .. Len(z) : Names(z[n]) => n \in 1 .. Len(q) /\ z[n] = q[n]
  <2>. SUFFICES ASSUME NEW n \in 1 .. Len(z), Names(z[n]), ~(n <= Len(q))
                PROVE  FALSE
    BY <1>1
  <2>1. n - Len(q) \in 1 .. Len(r) /\ z[n] = r[n - Len(q)]
    BY <1>1
  <2>. QED  BY <2>1
<1>3. ASSUME NEW n \in 1 .. Len(z), Names(z[n]), Named(z[n]) = i,
             NEW k \in n + 1 .. Len(z), Names(z[k])
      PROVE  FALSE
  <2>1. k \in 1 .. Len(z)
    BY <1>1
  <2>2. n \in 1 .. Len(q) /\ z[n] = q[n] /\ k \in 1 .. Len(q) /\ z[k] = q[k]
    BY <1>2, <1>3, <2>1
  <2>3. k \in n + 1 .. Len(q)
    BY <1>1, <2>2
  <2>. QED  BY <1>3, <2>2, <2>3 DEF Position
<1>4. x = i => \A n \in 1 .. Len(z) : ~Names(z[n])
  BY <1>2 DEF Position
<1>5. Position(z, b, x, i, o)
  BY <1>3, <1>4 DEF Position
<1>. QED  BY <1>5 DEF z

\* The client reads its oldest message.
LEMMA PositionTail ==
    ASSUME NEW q \in Seq(Message), q # <<>>, NEW b, NEW x, NEW y, NEW i, NEW o,
           Position(q, b, x, i, o),
           y = IF Names(q[1]) THEN Named(q[1]) ELSE x
    PROVE  Position(Tail(q), b, y, i, o)
<1> DEFINE z == Tail(q)
<1>1. /\ Len(q) \in Nat /\ Len(z) = Len(q) - 1 /\ 1 \in 1 .. Len(q)
      /\ \A n \in 1 .. Len(z) : z[n] = q[n + 1] /\ n + 1 \in 1 .. Len(q) /\ n + 1 \in 1 + 1 .. Len(q)
  OBVIOUS
<1>. HIDE DEF z
<1>2. ASSUME NEW n \in 1 .. Len(z), Names(z[n]), Named(z[n]) = i,
             NEW k \in n + 1 .. Len(z), Names(z[k])
      PROVE  FALSE
  <2>1. k \in 1 .. Len(z) /\ k + 1 \in n + 1 + 1 .. Len(q)
    BY <1>1
  <2>2. z[n] = q[n + 1] /\ n + 1 \in 1 .. Len(q) /\ z[k] = q[k + 1]
    BY <1>1, <2>1
  <2>. QED  BY <1>2, <2>1, <2>2 DEF Position
<1>3. y = i => \A n \in 1 .. Len(z) : ~Names(z[n])
  BY <1>1 DEF Position
<1>4. x = i => y = i
  BY <1>1 DEF Position
<1>5. Position(z, b, y, i, o)
  BY <1>2, <1>3, <1>4 DEF Position
<1>. QED  BY <1>5 DEF z

\* What the client sends, and what the server takes from it.
LEMMA PositionRequests ==
    ASSUME NEW q, NEW b \in Seq(Request), NEW x, NEW i, NEW o, NEW p,
           Position(q, b, x, i, o), i # NoOne, NEW z,
           p => o \/ (b # <<>> /\ z = Tail(b) /\ OnAircraft(b[1]) /\ Sender(b[1]) = i),
           \/ z = b
           \/ z = <<>>
           \/ b # <<>> /\ z = Tail(b)
           \/ \E r \in Request :
                 /\ z = Append(b, r)
                 /\ OnAircraft(r) => Sender(r) = x
                 /\ r.op = "add" => x = NoOne
    PROVE  Position(q, z, x, i, p)
<1> USE DEF Position
<1>1. CASE z = b /\ ~(b # <<>> /\ z = Tail(b))
  BY <1>1
<1>2. CASE z = <<>> /\ ~(b # <<>> /\ z = Tail(b))
  <2>1. \A n \in 1 .. Len(z) : FALSE
    BY <1>2
  <2>. QED  BY <1>2, <2>1
<1>3. CASE b # <<>> /\ z = Tail(b)
  <2>1. /\ Len(b) \in Nat /\ Len(z) = Len(b) - 1 /\ 1 \in 1 .. Len(b)
        /\ \A n \in 1 .. Len(z) : z[n] = b[n + 1] /\ n + 1 \in 1 .. Len(b) /\ n + 1 \in 1 + 1 .. Len(b)
    BY <1>3
  <2>2. \A n \in 1 .. Len(z) : \A k \in n + 1 .. Len(z) :
           k \in 1 .. Len(z) /\ k + 1 \in n + 1 + 1 .. Len(b)
    BY <2>1
  <2>3. \A n \in 1 .. Len(z) :
           OnAircraft(z[n]) /\ Sender(z[n]) = i
           => x = i /\ \A k \in n + 1 .. Len(z) : z[k].op # "add"
    BY <2>1, <2>2
  <2>4. p => x = i /\ \A n \in 1 .. Len(z) : z[n].op # "add"
    <3>1. CASE o
      BY <2>1, <3>1
    <3>2. CASE OnAircraft(b[1]) /\ Sender(b[1]) = i
      BY <2>1, <3>2
    <3>. QED  BY <3>1, <3>2
  <2>. QED  BY <2>3, <2>4
<1>4. ASSUME NEW r \in Request, z = Append(b, r), OnAircraft(r) => Sender(r) = x,
             r.op = "add" => x = NoOne, ~(b # <<>> /\ z = Tail(b))
      PROVE  Position(q, z, x, i, p)
  <2>1. /\ Len(b) \in Nat /\ Len(z) = Len(b) + 1
        /\ \A n \in 1 .. Len(z) : (n \in 1 .. Len(b) /\ z[n] = b[n]) \/ (n = Len(z) /\ z[n] = r)
    BY <1>4
  <2>2. \A n \in 1 .. Len(z) :
           OnAircraft(z[n]) /\ Sender(z[n]) = i
           => x = i /\ \A k \in n + 1 .. Len(z) : z[k].op # "add"
    <3>. SUFFICES ASSUME NEW n \in 1 .. Len(z), OnAircraft(z[n]), Sender(z[n]) = i
                  PROVE  x = i /\ \A k \in n + 1 .. Len(z) : z[k].op # "add"
      OBVIOUS
    <3>1. x = i
      BY <1>4, <2>1
    <3>2. r.op # "add"
      BY <1>4, <3>1
    <3>3. CASE n = Len(z)
      BY <2>1, <3>1, <3>3
    <3>4. CASE n \in 1 .. Len(b) /\ z[n] = b[n]
      <4>1. \A k \in n + 1 .. Len(z) : k \in 1 .. Len(z) /\ (k \in n + 1 .. Len(b) \/ k = Len(z))
        BY <2>1, <3>4
      <4>2. \A k \in n + 1 .. Len(b) : b[k].op # "add"
        BY <3>4
      <4>. QED  BY <2>1, <3>1, <3>2, <4>1, <4>2
    <3>. QED  BY <2>1, <3>3, <3>4
  <2>3. p => x = i /\ \A n \in 1 .. Len(z) : z[n].op # "add"
    BY <1>4, <2>1
  <2>. QED  BY <2>2, <2>3
<1>. QED  BY <1>1, <1>2, <1>3, <1>4

\* What a step does to the requests of a client, in terms of the sector it has
\* after the step.
LEMMA RequestsStep ==
    ASSUME TypeOK, ClientTypes, [NetworkNext]_networkVars, NEW c \in Clients
    PROVE  \/ inbox'[c] = inbox[c]
           \/ inbox'[c] = <<>>
           \/ inbox[c] # <<>> /\ inbox'[c] = Tail(inbox[c])
           \/ \E r \in Request :
                 /\ inbox'[c] = Append(inbox[c], r)
                 /\ OnAircraft(r) => Sender(r) = me'[c]
                 /\ r.op = "add" => me'[c] = NoOne
BY InboxStep DEF Sends

\* A sector that comes to track an aircraft is the one its connection speaks
\* for, and its client's oldest request is in its name.
LEMMA OwnsStep ==
    ASSUME TypeOK, SocketIndex, ClientTypes, Wired, [NetworkNext]_networkVars,
           NEW c \in Clients, NEW s \in Sockets, sock[c] = s,
           NEW i \in Sectors, Owns(i)', ~Owns(i)
    PROVE  UNCHANGED sockets /\ (sockets[s] = i =>
              /\ inbox[c] # <<>> /\ inbox'[c] = Tail(inbox[c])
              /\ OnAircraft(inbox[c][1]) /\ Sender(inbox[c][1]) = i)
<1>1. PICK a \in Aircraft : owner'[a] = i /\ owner[a] # i
  BY DEF Owns
<1>2. i # NoOne
  BY ConstantsAssumption
<1>3. PICK d \in Clients, t \in Sockets, r \in Request :
         /\ Serve(d) /\ sock[d] = t /\ inbox[d] # <<>> /\ inbox[d][1] = r
         /\ OnAircraft(r) /\ Sender(r) = i /\ sockets[t] = i
         /\ UNCHANGED <<sockets, controllers>>
  BY <1>1, <1>2, OwnerChanges
<1>4. CASE sockets[s] = i
  <2>1. t = s
    BY <1>2, <1>3, <1>4 DEF SocketIndex
  <2>2. d = c
    BY <1>3, <2>1, ConstantsAssumption DEF Wired
  <2>3. inbox'[c] = Tail(inbox[c])
    BY <1>3, <2>2 DEF Serve, ClientTypes
  <2>. QED  BY <1>3, <2>2, <2>3
<1>. QED  BY <1>3, <1>4

LEMMA PositionStep ==
    ASSUME NetworkInv, FreshInv, PositionInv, [NetworkNext]_networkVars
    PROVE  PositionInv'
<1> USE DEF NetworkInv
<1>. SUFFICES ASSUME NEW c \in Clients, NEW s \in Sockets, sock'[c] = s, sockets'[s] # NoOne
              PROVE  Position(outbox'[s], inbox'[c], me'[c], sockets'[s],
                              \E a \in Aircraft : owner'[a] = sockets'[s])
  BY DEF PositionInv, Owns, Position
<1>1. s # NoSocket
  BY ConstantsAssumption
<1>2. PICK b \in Seq(Request) : b = inbox[c]
  BY DEF ClientTypes
<1>3. PICK x, y, i : x = me[c] /\ y = me'[c] /\ i = sockets'[s]
  OBVIOUS
<1>4. PICK w, z : w = outbox'[s] /\ z = inbox'[c]
  OBVIOUS
<1>5. i \in Sectors /\ i # NoOne
  BY <1>3, SessionStep, TypeStep, ConstantsAssumption DEF TypeOK
<1>. SUFFICES Position(w, z, y, i, Owns(i)')
  BY <1>3, <1>4 DEF Owns
<1>6. \/ z = b
      \/ z = <<>>
      \/ b # <<>> /\ z = Tail(b)
      \/ \E r \in Request :
            /\ z = Append(b, r)
            /\ OnAircraft(r) => Sender(r) = y
            /\ r.op = "add" => y = NoOne
  BY <1>2, <1>3, <1>4, RequestsStep
<1>7. ASSUME sock[c] = s, sockets[s] = i, Position(w, b, y, i, Owns(i))
      PROVE  Position(w, z, y, i, Owns(i)')
  <2>1. PICK o, p : o = Owns(i) /\ p = Owns(i)'
    OBVIOUS
  <2>2. p => o \/ (b # <<>> /\ z = Tail(b) /\ OnAircraft(b[1]) /\ Sender(b[1]) = i)
    BY <1>2, <1>4, <1>5, <1>7, <2>1, OwnsStep DEF TablesAgree
  <2>3. Position(w, b, y, i, o)
    BY <1>7, <2>1
  <2>4. Position(w, z, y, i, p)
    BY <1>5, <1>6, <2>2, <2>3, PositionRequests
  <2>. QED  BY <2>1, <2>4
<1>8. ASSUME sock[c] = s, sockets[s] = i
      PROVE  Position(outbox[s], b, x, i, Owns(i))
  BY <1>2, <1>3, <1>5, <1>8 DEF PositionInv
<1>9. CASE Begins(c)
  BY <1>1, <1>3, <1>5, <1>9 DEF Begins
<1>10. CASE sock[c] # NoSocket /\ ServerGoesOn(c)
  <2>1. PICK X : Grown(s, X) /\ sock[c] = s /\ x = y
    BY <1>3, <1>10 DEF ServerGoesOn, Keeps
  <2>2. PICK q \in Seq(Message), r \in Seq(Message) :
           q = outbox[s] /\ w = q \o r /\ NamesFresh(r) /\ PositionTold(s, r)
    BY <1>4, <2>1 DEF Grown, Appends, TypeOK
  <2>3. CASE \A n \in 1 .. Len(r) : ~Names(r[n])
    <3>1. sockets[s] = i
      BY <1>3, <1>5, <2>2, <2>3 DEF PositionTold
    <3>2. PICK o : o = Owns(i)
      OBVIOUS
    <3>3. Position(q, b, y, i, o)
      BY <1>8, <2>1, <2>2, <3>1, <3>2
    <3>4. Position(w, b, y, i, o)
      BY <2>2, <2>3, <3>3, PositionAppend
    <3>. QED  BY <1>7, <2>1, <3>1, <3>2, <3>4
  <2>4. ASSUME NEW n \in 1 .. Len(r), Names(r[n])
        PROVE  Position(w, z, y, i, Owns(i)')
    <3>1. PICK U : U = UsedSectors
      OBVIOUS
    <3>2. Named(r[n]) = i /\ i \notin U
      BY <1>3, <1>5, <2>2, <2>4, <3>1 DEF PositionTold, NamesFresh, UsedSectors
    <3>3. /\ \A t \in Sockets : sockets[t] \in U \cup {NoOne}
          /\ \A a \in Aircraft : owner[a] \in U \cup {NoOne}
      BY <3>1, TablesUsed
    <3>4. ~Owns(i) /\ sockets[s] # i
      BY <1>5, <3>2, <3>3 DEF Owns
    <3>5. ~Owns(i)'
      BY <1>3, <1>5, <2>1, <3>4, OwnsStep DEF TablesAgree
    <3>6. y \in U \cup {NoOne} /\ SendersIn(b, U) /\ NamedIn(q, U)
      BY <1>2, <1>3, <2>1, <2>2, <3>1 DEF FreshInv
    <3>7. \A m \in 1 .. Len(r) : Names(r[m]) => \A k \in 1 .. Len(r) : Names(r[k]) => k = m
      BY <2>2 DEF PositionTold
    <3>8. Position(w, b, y, i, FALSE)
      BY <1>5, <2>2, <3>2, <3>6, <3>7, NewPosition
    <3>9. PICK p : p = Owns(i)'
      OBVIOUS
    <3>10. Position(w, z, y, i, p)
      BY <1>5, <1>6, <3>5, <3>8, <3>9, PositionRequests
    <3>. QED  BY <3>9, <3>10
  <2>. QED  BY <2>3, <2>4
<1>11. CASE sock[c] # NoSocket /\ ClientActs(c)
  <2>1. sock[c] = s /\ sockets[s] = i /\ w = outbox[s] /\ x = y
    BY <1>3, <1>4, <1>11 DEF ClientActs, sessionVars, Keeps
  <2>. QED  BY <1>7, <1>8, <2>1
<1>12. CASE Receive(c)
  <2>1. sock[c] = s
    BY <1>12, ReceiveMessage
  <2>2. PICK q \in Seq(Message) :
           /\ q = outbox[s] /\ q # <<>> /\ w = Tail(q) /\ sockets[s] = i
           /\ y = IF Names(q[1]) THEN Named(q[1]) ELSE x
    BY <1>3, <1>4, <1>12, <2>1, ReadsOldest
  <2>3. PICK o : o = Owns(i)
    OBVIOUS
  <2>4. Position(q, b, x, i, o)
    BY <1>8, <2>1, <2>2, <2>3
  <2>5. Position(w, b, y, i, o)
    BY <2>2, <2>4, PositionTail
  <2>. QED  BY <1>7, <2>1, <2>2, <2>3, <2>5
<1>. QED  BY <1>1, <1>9, <1>10, <1>11, <1>12, ClientSteps

\* A connection that gives up one position for another serves an "add".
LEMMA TakesByRequest ==
    ASSUME TypeOK, ClientTypes, [NetworkNext]_networkVars,
           NEW t \in Sockets, sockets'[t] \notin {sockets[t], NoOne}
    PROVE  \E c \in Clients :
              /\ sock[c] = t /\ inbox[c] # <<>> /\ inbox[c] \in Seq(Request)
              /\ inbox[c][1].op = "add"
<1>1. PICK c \in Clients : Serve(c)
  <2>1. ASSUME NEW s \in Sockets, Disconnect(s)
        PROVE  sockets'[t] \in {sockets[t], NoOne}
    BY <2>1 DEF Disconnect, Unstaff, TypeOK
  <2>2. ASSUME NEW c \in Clients, OpenConnection(c) \/ LoseConnection(c) \/ Command(c)
                 \/ Receive(c) \/ \E b \in Aircraft : TimerFires(c, b)
        PROVE  UNCHANGED sockets
    BY <2>2 DEF OpenConnection, Connect, LoseConnection, Command, TimerFires, PickPosition,
       Click, sessionVars, InitiateControlCommand, TerminateControlCommand, SlewCommand,
       HandoffCommand, Receive, Deliver
  <2>3. ASSUME \/ \E s \in Sockets : Discard(s)
               \/ \E b \in Aircraft : BlipSent(b)
               \/ UNCHANGED networkVars
        PROVE  UNCHANGED sockets
    BY <2>3 DEF Discard, Deliver, BlipSent, Blip, networkVars, sessionVars
  <2>. QED  BY <2>1, <2>2, <2>3 DEF NetworkNext, NoticeLoss
<1>2. PICK s \in Sockets, r \in Request : s = sock[c] /\ r = Head(inbox[c])
  BY <1>1, ServeRequest
<1>3. Serves(s, r) /\ inbox[c] \in Seq(Request) /\ inbox[c] # <<>>
  BY <1>1, <1>2, ServeRequest
<1>4. CASE r.op = "add" /\ AddController(s, r)
  <2>1. s = t
    BY <1>4 DEF AddController, AddKnown, AddUnknown, TypeOK
  <2>2. inbox[c][1] = r
    BY <1>2, <1>3
  <2>. QED  BY <1>2, <1>3, <1>4, <2>1, <2>2
<1>5. CASE r.op = "delete" /\ DeleteController(s, r)
  BY <1>5 DEF DeleteController, Unstaff, TypeOK
<1>6. CASE \/ r.op = "initiate" /\ InitiateControl(s, r)
           \/ r.op = "terminate" /\ TerminateControl(s, r)
           \/ r.op = "request" /\ RequestHandoff(s, r)
           \/ r.op = "accept" /\ AcceptHandoff(s, r)
           \/ r.op = "refuse" /\ RefuseHandoff(s, r)
  BY <1>6 DEF InitiateControl, TerminateControl, RequestHandoff, AcceptHandoff,
     RefuseHandoff, Refuse
<1>. QED  BY <1>3, <1>4, <1>5, <1>6 DEF Serves

LEMMA GhostStep ==
    ASSUME NetworkInv, PositionInv, GhostNeverOwns, [NetworkNext]_networkVars
    PROVE  GhostNeverOwns'
<1> USE DEF NetworkInv
<1>. SUFFICES ASSUME NEW a \in Aircraft, owner'[a] # NoOne
              PROVE  sockets'[controllers'[owner'[a]]] = owner'[a]
  BY DEF GhostNeverOwns
<1>1. PICK i : i = owner'[a]
  OBVIOUS
<1>2. i \in Sectors
  BY <1>1, SessionStep, TypeStep DEF TypeOK
<1>3. CASE owner[a] # i
  <2>1. PICK s \in Sockets : sockets[s] = i /\ UNCHANGED <<sockets, controllers>>
    BY <1>1, <1>3, OwnerChanges
  <2>2. controllers[i] = s
    BY <1>1, <2>1 DEF TablesAgree, SocketIndex
  <2>. QED  BY <1>1, <2>1, <2>2
<1>4. CASE owner[a] = i
  <2>1. PICK t : t = controllers[i]
    OBVIOUS
  <2>2. i \in Staffed /\ t \in Sockets /\ sockets[t] = i
    BY <1>1, <1>2, <1>4, <2>1 DEF TablesAgree, OwnerStaffed, Staffed, GhostNeverOwns, TypeOK
  <2>3. i[1] \in Positions /\ counts[i[1]] # i[2]
    BY <1>2, <2>2, ConstantsAssumption DEF TablesAgree, CountsAhead, Sectors, TypeOK
  <2>4. CASE TablesSame
    BY <1>1, <2>1, <2>2, <2>4 DEF TablesSame
  <2>5. ASSUME NEW u \in Sockets, NEW p \in Positions, Takes(u, p)
        PROVE  sockets'[t] = i /\ controllers'[i] = t
    <3>1. PICK j : j = <<p, counts[p]>>
      OBVIOUS
    <3>2. j # i
      BY <2>3, <3>1
    <3>3. controllers'[i] = t
      BY <1>2, <2>1, <2>5, <3>1, <3>2 DEF Takes, TypeOK
    <3>4. CASE sockets'[t] = i
      BY <3>3, <3>4
    <3>5. CASE sockets'[t] # i
      <4>1. sockets'[t] = j /\ j # NoOne
        <5>1. j \in Sectors
          BY <2>5, <3>1, ConstantsAssumption DEF Takes, Sectors, TypeOK
        <5>. QED  BY <2>2, <2>5, <3>1, <3>5, <5>1, ConstantsAssumption DEF Takes, TypeOK
      <4>2. PICK c \in Clients :
               /\ sock[c] = t /\ inbox[c] # <<>> /\ inbox[c] \in Seq(Request)
               /\ inbox[c][1].op = "add"
        BY <2>2, <3>2, <4>1, TakesByRequest
      <4>3. Position(outbox[t], inbox[c], me[c], i, Owns(i))
        BY <1>1, <2>2, <4>2 DEF PositionInv
      <4>4. Owns(i)
        BY <1>4 DEF Owns
      <4>5. 1 \in 1 .. Len(inbox[c])
        BY <4>2
      <4>. QED  BY <4>2, <4>3, <4>4, <4>5 DEF Position
    <3>. QED  BY <3>4, <3>5
  <2>6. ASSUME NEW u \in Sockets, GivesUp(u)
        PROVE  sockets'[t] = i /\ controllers'[i] = t
    <3>1. sockets[u] # i
      BY <1>1, <1>4, <2>6 DEF GivesUp, Unstaff, Released
    <3>. QED  BY <1>2, <2>1, <2>2, <2>6, <3>1 DEF GivesUp, Unstaff, TypeOK
  <2>7. ASSUME UNCHANGED <<sockets, controllers>>
        PROVE  sockets'[t] = i /\ controllers'[i] = t
    BY <2>1, <2>2, <2>7
  <2>8. sockets'[t] = i /\ controllers'[i] = t
    BY <2>4, <2>5, <2>6, <2>7, SessionStep, Effects DEF TablesSame, Passes
  <2>. QED  BY <1>1, <2>8
<1>. QED  BY <1>3, <1>4

(***************************************************************************)
(* No aircraft is tracked from a sector whose socket has forgotten it:     *)
(* although the server lets a connection take a second position, a client  *)
(* that tracks something has no such request under way.                    *)
(***************************************************************************)
THEOREM GhostNeverOwnsCorrect == NetworkSpec => []GhostNeverOwns
<1> DEFINE IInv == FreshInv /\ PositionInv /\ GhostNeverOwns
<1>1. NetworkInit => IInv
  <2>. SUFFICES ASSUME NetworkInit
                PROVE  IInv
    OBVIOUS
  <2>1. 1 .. Len(<<>>) = {}
    OBVIOUS
  <2>2. FreshInv
    BY <2>1 DEF NetworkInit, Init, FreshInv, SendersIn, NamedIn
  <2>3. PositionInv /\ GhostNeverOwns
    BY DEF NetworkInit, Init, PositionInv, GhostNeverOwns
  <2>. QED  BY <2>2, <2>3
<1>2. NetworkInv /\ IInv /\ [NetworkNext]_networkVars => IInv'
  BY FreshStep, PositionStep, GhostStep
<1>. QED  BY <1>1, <1>2, NetworkInvariant, PTL DEF NetworkSpec
=============================================================================
