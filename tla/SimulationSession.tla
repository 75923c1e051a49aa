-------------------------- MODULE SimulationSession --------------------------
(***************************************************************************)
(* The server side of a simulation session (server/SimulationSession.js):  *)
(* which sector identifiers are staffed, which socket speaks for which     *)
(* sector, who tracks each aircraft, and what the server has sent to each  *)
(* socket.  Every handler of the module is an action; a socket may send    *)
(* any request with any arguments, at any time.                            *)
(*                                                                         *)
(* Node runs a handler to its end before the next one, so a handler is one *)
(* step.  A sector identifier (positionSectorId) is the pair of a position *)
(* and the number of controllers that had taken the position before: the   *)
(* string the code forms from the pair is different for different pairs.   *)
(* A connection belongs to one of the two namespaces of the session, and   *)
(* the code sends each broadcast to both: the model keeps one set of       *)
(* sockets.  socket.io delivers what is sent to a socket in order.         *)
(***************************************************************************)
EXTENDS Naturals, Sequences, SequencesExt

CONSTANTS Sockets,      \* connections; an identifier is never used again
          Aircraft,     \* the aircraft of the loaded situation
          Positions,    \* TOWER, FEEDER, FINAL, DEPARTURE, CENTER
          BadPosition,  \* a position the server does not know
          NoOne,        \* no controller: null in the code, '' in a message
          NoSocket,     \* no entry in the table of controllers
          MaxCount,     \* bound: controllers that ever take one position
          MaxOutbox     \* bound: messages under way to one socket

Sectors == Positions \X (0 .. MaxCount - 1)

ASSUME ConstantsAssumption ==
    /\ IsFiniteSet(Aircraft)
    /\ MaxCount \in Nat
    /\ MaxOutbox \in Nat
    /\ BadPosition \notin Positions
    /\ NoOne \notin Sectors
    /\ NoSocket \notin Sockets

VARIABLES
    status,       \* each connection: not made yet, open, or closed for good
    sockets,      \* this._sockets: the sector a socket speaks for, or NoOne
    controllers,  \* this._controllers: the socket of each sector, or NoSocket
    counts,       \* this._controllerCounts
    owner,        \* aircraft.controller() of each aircraft, or NoOne
    outbox        \* the messages under way to each socket, oldest first

sessionVars == <<status, sockets, controllers, counts, owner, outbox>>

Open == {s \in Sockets : status[s] = "open"}

Staffed == {i \in Sectors : controllers[i] # NoSocket}
-----------------------------------------------------------------------------
(***************************************************************************)
(* The requests a client emits, each with the data it carries, and the     *)
(* messages of the server.                                                 *)
(***************************************************************************)
AddRequest == [op : {"add"}, position : Positions \cup {BadPosition}]

DeleteRequest == [op : {"delete"}, position : Positions \cup {BadPosition}]

TrackRequest ==
    [op : {"initiate", "terminate"}, aircraft : Aircraft, controller : Sectors]

HandoffRequest ==
    [op : {"request", "accept", "refuse"},
     aircraft : Aircraft, controller : Sectors, to : Sectors]

Request == AddRequest \cup DeleteRequest \cup TrackRequest \cup HandoffRequest

Message ==
    [type : {"ownershipClaimed", "blip"},
        aircraft : Aircraft, controller : Sectors \cup {NoOne}]
    \cup [type : {"handoffRequested", "handoffAccepted", "handoffRefused"},
        aircraft : Aircraft, controller : Sectors, to : Sectors]
    \cup [type : {"controllers"}, sectors : SUBSET Sectors]
    \cup [type : {"added"}, sector : Sectors]
    \cup [type : {"deleted"}, position : Positions \cup {BadPosition}]
    \cup [type : {"answer"}, request : TrackRequest \cup HandoffRequest,
          ok : BOOLEAN]

Claimed(a, i) == [type |-> "ownershipClaimed", aircraft |-> a, controller |-> i]

Handoff(event, r) ==
    [type |-> event, aircraft |-> r.aircraft,
     controller |-> r.controller, to |-> r.to]

Controllers(staffed) == [type |-> "controllers", sectors |-> staffed]

Answer(r, ok) == [type |-> "answer", request |-> r, ok |-> ok]

\* What is sent to a socket that is closed goes nowhere.
Emit(box, s, m) ==
    [t \in Sockets |-> IF t = s /\ t \in Open THEN Append(box[t], m) ELSE box[t]]

\* this._mio.emit and this._pio.emit: every socket of `to` gets the message.
Broadcast(box, to, m) ==
    [t \in Sockets |-> IF t \in to THEN Append(box[t], m) ELSE box[t]]
-----------------------------------------------------------------------------
Init ==
    /\ status = [s \in Sockets |-> "new"]
    /\ sockets = [s \in Sockets |-> NoOne]
    /\ controllers = [i \in Sectors |-> NoSocket]
    /\ counts = [p \in Positions |-> 0]
    /\ owner = [a \in Aircraft |-> NoOne]
    /\ outbox = [s \in Sockets |-> <<>>]

\* getControllerBySocket gives a controller, and its identifier is i.
Speaks(s, i) == sockets[s] = i /\ i \in Staffed

\* The bound MaxOutbox: nothing more is sent before some of it is delivered.
Room == \A s \in Open : Len(outbox[s]) < MaxOutbox

\* The request is turned down: cb(false), and nothing else.
Refuse(s, r) ==
    /\ outbox' = Emit(outbox, s, Answer(r, FALSE))
    /\ UNCHANGED <<status, sockets, controllers, counts, owner>>
-----------------------------------------------------------------------------
(***************************************************************************)
(* addController: nothing stops a socket that speaks for a sector from     *)
(* taking another one; the table entry of the first then stays behind.     *)
(***************************************************************************)
\* Mutant: the list of controllers is made before the entry is added.
AddSendsOldList(s, r) ==
    LET p == r.position
        i == <<p, counts[p]>>
    IN  /\ p \in Positions
        /\ counts[p] < MaxCount
        /\ counts' = [counts EXCEPT ![p] = @ + 1]
        /\ controllers' = [controllers EXCEPT ![i] = s]
        /\ sockets' = [sockets EXCEPT ![s] = i]
        /\ outbox' = Broadcast(
                        Emit(outbox, s, [type |-> "added", sector |-> i]),
                        Open, Controllers(Staffed))
        /\ UNCHANGED <<status, owner>>

AddKnown(s, r) ==
    LET p == r.position
        i == <<p, counts[p]>>
        staffed == Staffed \cup {i}
    IN  /\ p \in Positions
        /\ counts[p] < MaxCount
        /\ counts' = [counts EXCEPT ![p] = @ + 1]
        /\ controllers' = [controllers EXCEPT ![i] = s]
        /\ sockets' = [sockets EXCEPT ![s] = i]
        /\ outbox' = Broadcast(
                        Emit(outbox, s, [type |-> "added", sector |-> i]),
                        Open, Controllers(staffed))
        /\ UNCHANGED <<status, owner>>

AddUnknown(s, r) ==
    /\ r.position \notin Positions
    /\ outbox' = Broadcast(outbox, Open, Controllers(Staffed))
    /\ UNCHANGED <<status, sockets, controllers, counts, owner>>

AddController(s, r) ==
    /\ s \in Open
    /\ Room
    /\ AddKnown(s, r) \/ AddUnknown(s, r)

(***************************************************************************)
(* deleteController, called for a request and for a lost connection.  Each *)
(* aircraft of the controller is released and the release broadcast, one   *)
(* message per aircraft; `reply` is the callback, absent when the          *)
(* connection is gone, and `live` the sockets that are still connected.    *)
(***************************************************************************)
Released(s) == {a \in Aircraft : sockets[s] # NoOne /\ owner[a] = sockets[s]}

\* The aircraft of a set, in the fixed order of the simulation's array.
InOrder(S) == SetToSeq(S)

Releases(S) == [n \in 1 .. Len(InOrder(S)) |-> Claimed(InOrder(S)[n], NoOne)]

\* Mutant: the socket keeps its entry in this._sockets.
UnstaffKeepsSocket(s) ==
    /\ owner' = [a \in Aircraft |-> IF a \in Released(s) THEN NoOne ELSE owner[a]]
    /\ controllers' = [i \in Sectors |->
                          IF i = sockets[s] THEN NoSocket ELSE controllers[i]]
    /\ UNCHANGED <<counts, sockets>>

\* Mutant: the aircraft of the controller are not released.
UnstaffKeepsTracks(s) ==
    /\ sockets' = [sockets EXCEPT ![s] = NoOne]
    /\ controllers' = [i \in Sectors |->
                          IF i = sockets[s] THEN NoSocket ELSE controllers[i]]
    /\ UNCHANGED <<counts, owner>>

\* Mutant: the position's count goes down again, so an identifier comes back.
UnstaffRecyclesSector(s) ==
    /\ owner' = [a \in Aircraft |-> IF a \in Released(s) THEN NoOne ELSE owner[a]]
    /\ sockets' = [sockets EXCEPT ![s] = NoOne]
    /\ controllers' = [i \in Sectors |->
                          IF i = sockets[s] THEN NoSocket ELSE controllers[i]]
    /\ counts' = [p \in Positions |->
                     IF sockets[s] # NoOne /\ p = sockets[s][1]
                     THEN counts[p] - 1 ELSE counts[p]]

Unstaff(s) ==
    /\ owner' = [a \in Aircraft |-> IF a \in Released(s) THEN NoOne ELSE owner[a]]
    /\ sockets' = [sockets EXCEPT ![s] = NoOne]
    /\ controllers' = [i \in Sectors |->
                          IF i = sockets[s] THEN NoSocket ELSE controllers[i]]
    /\ UNCHANGED counts

\* Mutant: the releases are not broadcast.
NoReleaseNotices(s, live) == outbox

\* The messages of deleteController up to the callback.
ReleaseNotices(s, live) ==
    [t \in Sockets |->
        IF t \in live THEN outbox[t] \o Releases(Released(s)) ELSE outbox[t]]

\* Mutant: the list of controllers is made before the entry is deleted.
DeleteSendsOldList(s, r) ==
    /\ s \in Open
    /\ Room
    /\ Unstaff(s)
    /\ outbox' = Broadcast(
                    Emit(ReleaseNotices(s, Open), s,
                         [type |-> "deleted", position |-> r.position]),
                    Open, Controllers(Staffed))
    /\ UNCHANGED status

DeleteController(s, r) ==
    /\ s \in Open
    /\ Room
    /\ Unstaff(s)
    /\ outbox' = Broadcast(
                    Emit(ReleaseNotices(s, Open), s,
                         [type |-> "deleted", position |-> r.position]),
                    Open, Controllers(Staffed \ {sockets[s]}))
    /\ UNCHANGED status
-----------------------------------------------------------------------------
\* Mutant: the aircraft may have a controller already.
InitiateSteals(s, r) ==
    /\ s \in Open
    /\ Room
    /\ Speaks(s, r.controller)
    /\ owner' = [owner EXCEPT ![r.aircraft] = r.controller]
    /\ outbox' = Emit(Broadcast(outbox, Open, Claimed(r.aircraft, r.controller)),
                      s, Answer(r, TRUE))
    /\ UNCHANGED <<status, sockets, controllers, counts>>

InitiateControl(s, r) ==
    /\ s \in Open
    /\ Room
    /\ \/ /\ Speaks(s, r.controller)
          /\ owner[r.aircraft] = NoOne
          /\ owner' = [owner EXCEPT ![r.aircraft] = r.controller]
          /\ outbox' = Emit(Broadcast(outbox, Open,
                                      Claimed(r.aircraft, r.controller)),
                            s, Answer(r, TRUE))
          /\ UNCHANGED <<status, sockets, controllers, counts>>
       \/ /\ ~(Speaks(s, r.controller) /\ owner[r.aircraft] = NoOne)
          /\ Refuse(s, r)

TerminateControl(s, r) ==
    /\ s \in Open
    /\ Room
    /\ \/ /\ Speaks(s, r.controller)
          /\ owner[r.aircraft] = r.controller
          /\ owner' = [owner EXCEPT ![r.aircraft] = NoOne]
          /\ outbox' = Emit(Broadcast(outbox, Open, Claimed(r.aircraft, NoOne)),
                            s, Answer(r, TRUE))
          /\ UNCHANGED <<status, sockets, controllers, counts>>
       \/ /\ ~(Speaks(s, r.controller) /\ owner[r.aircraft] = r.controller)
          /\ Refuse(s, r)

\* requestHandoff: the server only forwards it, and keeps no record of it.
CanRequest(s, r) ==
    /\ Speaks(s, r.controller)
    /\ r.to \in Staffed
    /\ r.to # r.controller
    /\ owner[r.aircraft] = r.controller

RequestHandoff(s, r) ==
    /\ s \in Open
    /\ Room
    /\ \/ /\ CanRequest(s, r)
          /\ outbox' = Emit(Emit(outbox, controllers[r.to],
                                 Handoff("handoffRequested", r)),
                            s, Answer(r, TRUE))
          /\ UNCHANGED <<status, sockets, controllers, counts, owner>>
       \/ ~CanRequest(s, r) /\ Refuse(s, r)

\* The checks acceptHandoff and refuseHandoff share.
CanReply(s, r) ==
    /\ Speaks(s, r.to)
    /\ r.controller \in Staffed
    /\ owner[r.aircraft] = r.controller

\* Mutant: the socket is stored in the place of its controller.
AcceptStoresSocket(s, r) ==
    /\ s \in Open
    /\ Room
    /\ CanReply(s, r)
    /\ owner' = [owner EXCEPT ![r.aircraft] = s]
    /\ outbox' = Emit(outbox, s, Answer(r, TRUE))
    /\ UNCHANGED <<status, sockets, controllers, counts>>

\* Mutant: data.controller is not replaced by data.to before the broadcast.
AcceptBroadcastsOldOwner(s, r) ==
    /\ s \in Open
    /\ Room
    /\ CanReply(s, r)
    /\ owner' = [owner EXCEPT ![r.aircraft] = r.to]
    /\ outbox' = Emit(Broadcast(Emit(outbox, controllers[r.controller],
                                     Handoff("handoffAccepted", r)),
                                Open, Claimed(r.aircraft, r.controller)),
                      s, Answer(r, TRUE))
    /\ UNCHANGED <<status, sockets, controllers, counts>>

AcceptHandoff(s, r) ==
    /\ s \in Open
    /\ Room
    /\ \/ /\ CanReply(s, r)
          /\ owner' = [owner EXCEPT ![r.aircraft] = r.to]
          /\ outbox' = Emit(Broadcast(Emit(outbox, controllers[r.controller],
                                           Handoff("handoffAccepted", r)),
                                      Open, Claimed(r.aircraft, r.to)),
                            s, Answer(r, TRUE))
          /\ UNCHANGED <<status, sockets, controllers, counts>>
       \/ ~CanReply(s, r) /\ Refuse(s, r)

RefuseHandoff(s, r) ==
    /\ s \in Open
    /\ Room
    /\ \/ /\ CanReply(s, r)
          /\ outbox' = Emit(Emit(outbox, controllers[r.controller],
                                 Handoff("handoffRefused", r)),
                            s, Answer(r, TRUE))
          /\ UNCHANGED <<status, sockets, controllers, counts, owner>>
       \/ ~CanReply(s, r) /\ Refuse(s, r)
-----------------------------------------------------------------------------
\* A client opens a connection: the handlers are bound, nothing is sent.
Connect(s) ==
    /\ status[s] = "new"
    /\ status' = [status EXCEPT ![s] = "open"]
    /\ UNCHANGED <<sockets, controllers, counts, owner, outbox>>

\* A connection is lost: what was under way to it is lost too, and the
\* 'disconnect' listener deletes the controller without a callback.
Disconnect(s) ==
    /\ s \in Open
    /\ \A t \in Open \ {s} : Len(outbox[t]) < MaxOutbox
    /\ status' = [status EXCEPT ![s] = "closed"]
    /\ Unstaff(s)
    /\ outbox' = [Broadcast(ReleaseNotices(s, Open \ {s}), Open \ {s},
                            Controllers(Staffed \ {sockets[s]}))
                    EXCEPT ![s] = <<>>]

\* An aircraft's five-second interval: its radar return carries its owner.
Blip(a) ==
    /\ Room
    /\ outbox' = Broadcast(outbox, Open,
                     [type |-> "blip", aircraft |-> a, controller |-> owner[a]])
    /\ UNCHANGED <<status, sockets, controllers, counts, owner>>

\* The oldest message under way to a socket arrives.
Deliver(s) ==
    /\ s \in Open
    /\ outbox[s] # <<>>
    /\ outbox' = [outbox EXCEPT ![s] = Tail(@)]
    /\ UNCHANGED <<status, sockets, controllers, counts, owner>>

Handle(s) ==
    \/ \E r \in AddRequest : AddController(s, r)
    \/ \E r \in DeleteRequest : DeleteController(s, r)
    \/ \E r \in TrackRequest : r.op = "initiate" /\ InitiateControl(s, r)
    \/ \E r \in TrackRequest : r.op = "terminate" /\ TerminateControl(s, r)
    \/ \E r \in HandoffRequest : r.op = "request" /\ RequestHandoff(s, r)
    \/ \E r \in HandoffRequest : r.op = "accept" /\ AcceptHandoff(s, r)
    \/ \E r \in HandoffRequest : r.op = "refuse" /\ RefuseHandoff(s, r)

Next ==
    \/ \E s \in Sockets : Handle(s) \/ Connect(s) \/ Disconnect(s) \/ Deliver(s)
    \/ \E a \in Aircraft : Blip(a)

Spec == Init /\ [][Next]_sessionVars
-----------------------------------------------------------------------------
\* The types of the session's variables: the tables only ever hold sectors
\* that were handed out by a position, and the queues only messages.
TypeOK ==
    /\ status \in [Sockets -> {"new", "open", "closed"}]
    /\ sockets \in [Sockets -> Sectors \cup {NoOne}]
    /\ controllers \in [Sectors -> Sockets \cup {NoSocket}]
    /\ counts \in [Positions -> 0 .. MaxCount]
    /\ owner \in [Aircraft -> Sectors \cup {NoOne}]
    /\ outbox \in [Sockets -> Seq(Message)]

(***************************************************************************)
(* The two tables of the session agree: what a socket speaks for is in the *)
(* table of controllers under that socket, and the socket is connected.    *)
(* The converse fails by design of the code (see AddController).           *)
(***************************************************************************)
SocketIndex ==
    \A s \in Sockets : sockets[s] # NoOne => s \in Open /\ controllers[sockets[s]] = s

(***************************************************************************)
(* Nobody tracks an aircraft from a sector that is not staffed: whatever   *)
(* the order of position changes, lost connections and handoffs, closing a *)
(* sector leaves no aircraft behind it.                                    *)
(***************************************************************************)
OwnerStaffed == \A a \in Aircraft : owner[a] # NoOne => owner[a] \in Staffed

\* A message that tells its reader who tracks the aircraft a.
Tells(m, a) == m.type \in {"ownershipClaimed", "blip"} /\ m.aircraft = a

\* The last message of q that tells who tracks a, if there is one, says i.
LastSays(q, a, i) ==
    \A n \in 1 .. Len(q) :
        /\ Tells(q[n], a)
        /\ \A k \in n + 1 .. Len(q) : ~Tells(q[k], a)
        => q[n].controller = i

(***************************************************************************)
(* The last word sent to a connection about an aircraft is the truth: a    *)
(* client that reads all it was sent cannot end with a wrong owner, however *)
(* claims, releases, handoffs and radar returns were interleaved.          *)
(***************************************************************************)
LastWord ==
    \A s \in Sockets, a \in Aircraft : LastSays(outbox[s], a, owner[a])

(***************************************************************************)
(* Likewise for the list of controllers: the last list under way to a      *)
(* connection is the list of the staffed sectors.                          *)
(***************************************************************************)
LastList ==
    \A s \in Sockets : \A n \in 1 .. Len(outbox[s]) :
        /\ outbox[s][n].type = "controllers"
        /\ \A k \in n + 1 .. Len(outbox[s]) : outbox[s][k].type # "controllers"
        => outbox[s][n].sectors = Staffed

(***************************************************************************)
(* No change is silent: a step that changes who tracks an aircraft leaves  *)
(* a message about it under way to every connection, and a step that       *)
(* changes the staffed sectors leaves a list of controllers.               *)
(***************************************************************************)
Announced ==
    [][\A s \in Open \cap Open' :
        /\ \A a \in Aircraft : owner'[a] # owner[a] =>
              \E n \in 1 .. Len(outbox'[s]) : Tells(outbox'[s][n], a)
        /\ Staffed' # Staffed =>
              \E n \in 1 .. Len(outbox'[s]) : outbox'[s][n].type = "controllers"
      ]_sessionVars

\* The sectors that were staffed once and are not any more.
Retired == {i \in Sectors : i[2] < counts[i[1]] /\ i \notin Staffed}

Tracks == INSTANCE TrackOwnership
            WITH staffed <- Staffed, retired <- Retired, tracks <- owner

(***************************************************************************)
(* The session implements the abstract control of aircraft: every handler  *)
(* is one of its steps or changes none of its state.                       *)
(***************************************************************************)
ImplementsTrackOwnership == Tracks!Spec
=============================================================================
