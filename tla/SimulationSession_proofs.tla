----------------------- MODULE SimulationSession_proofs -----------------------
(***************************************************************************)
(* Proofs about the session server, for any sockets, aircraft, positions   *)
(* and bounds.  TypeCorrect and the two table invariants come first; the   *)
(* invariant on the messages under way (LastWord) rests on lemmas about    *)
(* what appending to, and taking from, a queue does to its last word.  The *)
(* theorem about announcements rests on what each handler appends.         *)
(***************************************************************************)
EXTENDS SimulationSession, FiniteSetTheorems, TLAPS

\* What the operators that form messages give is a message.
LEMMA MessageTypes ==
    /\ \A a \in Aircraft, i \in Sectors \cup {NoOne} : Claimed(a, i) \in Message
    /\ \A r \in HandoffRequest :
          \A e \in {"handoffRequested", "handoffAccepted", "handoffRefused"} :
             Handoff(e, r) \in Message
    /\ \A S \in SUBSET Sectors : Controllers(S) \in Message
    /\ \A r \in TrackRequest \cup HandoffRequest, ok \in BOOLEAN :
          Answer(r, ok) \in Message
<1>1. \A a \in Aircraft, i \in Sectors \cup {NoOne} : Claimed(a, i) \in Message
  BY DEF Claimed, Message
<1>2. \A r \in HandoffRequest :
         \A e \in {"handoffRequested", "handoffAccepted", "handoffRefused"} :
            Handoff(e, r) \in Message
  BY DEF Handoff, Message, HandoffRequest
<1>3. \A S \in SUBSET Sectors : Controllers(S) \in Message
  BY DEF Controllers, Message
<1>4. \A r \in TrackRequest \cup HandoffRequest, ok \in BOOLEAN :
         Answer(r, ok) \in Message
  BY DEF Answer, Message
<1>. QED  BY <1>1, <1>2, <1>3, <1>4

\* Sending one message keeps the queues queues of messages.
LEMMA SendType ==
    ASSUME NEW box \in [Sockets -> Seq(Message)], NEW m \in Message,
           NEW s, NEW to
    PROVE  /\ Emit(box, s, m) \in [Sockets -> Seq(Message)]
           /\ Broadcast(box, to, m) \in [Sockets -> Seq(Message)]
BY DEF Emit, Broadcast

\* The releases of a set of aircraft: a sequence that names no other aircraft,
\* and says of each that nobody tracks it.
LEMMA ReleasesShape ==
    ASSUME NEW S \in SUBSET Aircraft
    PROVE  /\ Releases(S) \in Seq(Message)
           /\ \A n \in 1 .. Len(Releases(S)) :
                 \E a \in S : Releases(S)[n] = Claimed(a, NoOne)
           /\ \A a \in S : \E n \in 1 .. Len(Releases(S)) :
                 Releases(S)[n] = Claimed(a, NoOne)
<1> DEFINE f == InOrder(S)
<1>1. IsFiniteSet(S) /\ Cardinality(S) \in Nat
  BY FS_Subset, FS_CardinalityType, ConstantsAssumption
<1>2. PICK g \in Bijection(1 .. Cardinality(S), S) : TRUE
  BY <1>1, FS_CardinalityType DEF ExistsBijection
<1>3. g \in [1 .. Cardinality(S) -> S] /\ IsInjective(g)
  BY <1>2 DEF Bijection, Injection
<1>4. f \in [1 .. Cardinality(S) -> S] /\ IsInjective(f)
  BY <1>3 DEF InOrder, SetToSeq
<1>5. f \in Injection(1 .. Cardinality(S), S)
  BY <1>4 DEF Injection
<1>6. Cardinality(1 .. Cardinality(S)) = Cardinality(S)
  BY <1>1, FS_Interval
<1>7. f \in Surjection(1 .. Cardinality(S), S)
  BY <1>1, <1>5, <1>6, FS_Injection
<1>8. /\ Len(f) = Cardinality(S)
      /\ Releases(S) \in [1 .. Cardinality(S) -> Message]
      /\ \A n \in 1 .. Cardinality(S) : Releases(S)[n] = Claimed(f[n], NoOne)
  <2>1. f \in Seq(S) /\ Len(f) = Cardinality(S)
    BY <1>1, <1>4
  <2>2. \A n \in 1 .. Cardinality(S) : Claimed(f[n], NoOne) \in Message
    BY <1>4, MessageTypes
  <2>. QED  BY <2>1, <2>2 DEF Releases
<1>9. Releases(S) \in Seq(Message) /\ Len(Releases(S)) = Cardinality(S)
  BY <1>1, <1>8
<1>10. \A n \in 1 .. Len(Releases(S)) : \E a \in S : Releases(S)[n] = Claimed(a, NoOne)
  BY <1>4, <1>8, <1>9
<1>11. \A a \in S : \E n \in 1 .. Len(Releases(S)) : Releases(S)[n] = Claimed(a, NoOne)
  BY <1>7, <1>8, <1>9 DEF Surjection
<1>. QED  BY <1>9, <1>10, <1>11
-----------------------------------------------------------------------------
\* Closing the sector of a socket keeps the types of the tables and the queues.
LEMMA UnstaffType ==
    ASSUME TypeOK, NEW s \in Sockets, NEW live, Unstaff(s)
    PROVE  /\ sockets' \in [Sockets -> Sectors \cup {NoOne}]
           /\ controllers' \in [Sectors -> Sockets \cup {NoSocket}]
           /\ counts' \in [Positions -> 0 .. MaxCount]
           /\ owner' \in [Aircraft -> Sectors \cup {NoOne}]
           /\ ReleaseNotices(s, live) \in [Sockets -> Seq(Message)]
<1>1. Releases(Released(s)) \in Seq(Message)
  BY ReleasesShape DEF Released
<1>2. ReleaseNotices(s, live) \in [Sockets -> Seq(Message)]
  BY <1>1 DEF TypeOK, ReleaseNotices
<1>. QED  BY <1>2 DEF Unstaff, TypeOK

\* Every handler keeps the types.
LEMMA TypeStep ==
    ASSUME TypeOK, [Next]_sessionVars
    PROVE  TypeOK'
<1>1. ASSUME NEW s \in Sockets, NEW r \in AddRequest, AddController(s, r)
      PROVE  TypeOK'
  <2>1. CASE AddKnown(s, r)
    <3> DEFINE i == <<r.position, counts[r.position]>>
               m == [type |-> "added", sector |-> i]
    <3>1. /\ r.position \in Positions
          /\ counts[r.position] \in Nat
          /\ counts[r.position] < MaxCount
      BY <2>1 DEF AddKnown, TypeOK
    <3>2. i \in Sectors /\ counts' \in [Positions -> 0 .. MaxCount]
      BY <2>1, <3>1, ConstantsAssumption DEF AddKnown, Sectors, TypeOK
    <3>3. m \in Message /\ Controllers(Staffed \cup {i}) \in Message
      BY <3>2, MessageTypes DEF Message, Staffed
    <3>4. outbox' \in [Sockets -> Seq(Message)]
      BY <2>1, <3>3, SendType DEF AddKnown, TypeOK
    <3>. QED  BY <2>1, <3>2, <3>4 DEF AddKnown, TypeOK
  <2>2. CASE AddUnknown(s, r)
    BY <2>2, SendType, MessageTypes DEF AddUnknown, TypeOK, Staffed
  <2>. QED  BY <1>1, <2>1, <2>2 DEF AddController
<1>2. ASSUME NEW s \in Sockets, NEW r \in DeleteRequest, DeleteController(s, r)
      PROVE  TypeOK'
  <2> DEFINE m == [type |-> "deleted", position |-> r.position]
  <2>1. Unstaff(s)
    BY <1>2 DEF DeleteController
  <2>2. /\ ReleaseNotices(s, Open) \in [Sockets -> Seq(Message)]
        /\ m \in Message
        /\ Controllers(Staffed \ {sockets[s]}) \in Message
    BY <2>1, UnstaffType, MessageTypes DEF Message, DeleteRequest, Staffed
  <2>3. outbox' \in [Sockets -> Seq(Message)]
    BY <1>2, <2>2, SendType DEF DeleteController
  <2>. QED  BY <1>2, <2>1, <2>3, UnstaffType DEF DeleteController, TypeOK
<1>3. ASSUME NEW s \in Sockets, NEW r \in TrackRequest \cup HandoffRequest,
             Refuse(s, r)
      PROVE  TypeOK'
  BY <1>3, SendType, MessageTypes DEF Refuse, TypeOK
<1>4. ASSUME NEW s \in Sockets, NEW r \in TrackRequest,
             InitiateControl(s, r) \/ TerminateControl(s, r)
      PROVE  TypeOK'
  <2>1. r.aircraft \in Aircraft /\ r.controller \in Sectors
    BY DEF TrackRequest
  <2>2. Answer(r, TRUE) \in Message
    BY MessageTypes
  <2>3. \A i \in Sectors \cup {NoOne} :
           /\ [owner EXCEPT ![r.aircraft] = i] \in [Aircraft -> Sectors \cup {NoOne}]
           /\ Emit(Broadcast(outbox, Open, Claimed(r.aircraft, i)), s, Answer(r, TRUE))
                 \in [Sockets -> Seq(Message)]
    <3>1. TAKE i \in Sectors \cup {NoOne}
    <3>2. Claimed(r.aircraft, i) \in Message
      BY <2>1, MessageTypes
    <3>3. Broadcast(outbox, Open, Claimed(r.aircraft, i)) \in [Sockets -> Seq(Message)]
      BY <3>2, SendType DEF TypeOK
    <3>4. Emit(Broadcast(outbox, Open, Claimed(r.aircraft, i)), s, Answer(r, TRUE))
             \in [Sockets -> Seq(Message)]
      BY <2>2, <3>3, SendType
    <3>. QED  BY <2>1, <3>4 DEF TypeOK
  <2>4. CASE Refuse(s, r)
    BY <1>3, <2>4
  <2>5. CASE ~Refuse(s, r)
    <3>1. PICK i \in Sectors \cup {NoOne} :
             /\ owner' = [owner EXCEPT ![r.aircraft] = i]
             /\ outbox' = Emit(Broadcast(outbox, Open, Claimed(r.aircraft, i)),
                               s, Answer(r, TRUE))
             /\ UNCHANGED <<status, sockets, controllers, counts>>
      BY <1>4, <2>1, <2>5 DEF InitiateControl, TerminateControl
    <3>. QED  BY <2>3, <3>1 DEF TypeOK
  <2>. QED  BY <2>4, <2>5
<1>5. ASSUME NEW s \in Sockets, NEW r \in HandoffRequest,
             RequestHandoff(s, r) \/ AcceptHandoff(s, r) \/ RefuseHandoff(s, r)
      PROVE  TypeOK'
  <2>1. r.aircraft \in Aircraft /\ r.controller \in Sectors /\ r.to \in Sectors
    BY DEF HandoffRequest
  <2>2. /\ Claimed(r.aircraft, r.to) \in Message
        /\ Answer(r, TRUE) \in Message
    BY <2>1, MessageTypes
  <2>3. \A t, e : e \in {"handoffRequested", "handoffAccepted", "handoffRefused"} =>
           /\ Emit(outbox, t, Handoff(e, r)) \in [Sockets -> Seq(Message)]
           /\ Emit(Emit(outbox, t, Handoff(e, r)), s, Answer(r, TRUE))
                 \in [Sockets -> Seq(Message)]
    <3>1. SUFFICES
            ASSUME NEW t,
                   NEW e \in {"handoffRequested", "handoffAccepted", "handoffRefused"}
            PROVE  /\ Emit(outbox, t, Handoff(e, r)) \in [Sockets -> Seq(Message)]
                   /\ Emit(Emit(outbox, t, Handoff(e, r)), s, Answer(r, TRUE))
                         \in [Sockets -> Seq(Message)]
      OBVIOUS
    <3>2. Handoff(e, r) \in Message
      BY MessageTypes
    <3>3. Emit(outbox, t, Handoff(e, r)) \in [Sockets -> Seq(Message)]
      BY <3>2, SendType DEF TypeOK
    <3>. QED  BY <2>2, <3>3, SendType
  <2>4. CASE RequestHandoff(s, r)
    <3>1. CASE Refuse(s, r)
      BY <1>3, <3>1
    <3>2. CASE ~Refuse(s, r)
      BY <2>3, <2>4, <3>2 DEF RequestHandoff, TypeOK
    <3>. QED  BY <3>1, <3>2
  <2>5. CASE AcceptHandoff(s, r)
    <3> DEFINE told == Emit(outbox, controllers[r.controller], Handoff("handoffAccepted", r))
               all == Broadcast(told, Open, Claimed(r.aircraft, r.to))
    <3>1. all \in [Sockets -> Seq(Message)]
      BY <2>2, <2>3, SendType
    <3>2. Emit(all, s, Answer(r, TRUE)) \in [Sockets -> Seq(Message)]
      BY <2>2, <3>1, SendType
    <3> HIDE DEF all
    <3>3. CASE Refuse(s, r)
      BY <1>3, <3>3
    <3>4. CASE ~Refuse(s, r)
      <4>1. /\ owner' = [owner EXCEPT ![r.aircraft] = r.to]
            /\ outbox' = Emit(all, s, Answer(r, TRUE))
            /\ UNCHANGED <<status, sockets, controllers, counts>>
        BY <2>5, <3>4 DEF AcceptHandoff, all, told
      <4>. QED  BY <2>1, <3>2, <4>1 DEF TypeOK
    <3>. QED  BY <3>3, <3>4
  <2>6. CASE RefuseHandoff(s, r)
    <3>1. CASE Refuse(s, r)
      BY <1>3, <3>1
    <3>2. CASE ~Refuse(s, r)
      BY <2>3, <2>6, <3>2 DEF RefuseHandoff, TypeOK
    <3>. QED  BY <3>1, <3>2
  <2>. QED  BY <1>5, <2>4, <2>5, <2>6
<1>6. ASSUME NEW s \in Sockets, Connect(s)
      PROVE  TypeOK'
  BY <1>6 DEF Connect, TypeOK
<1>7. ASSUME NEW s \in Sockets, Disconnect(s)
      PROVE  TypeOK'
  <2>1. Unstaff(s)
    BY <1>7 DEF Disconnect
  <2>2. /\ ReleaseNotices(s, Open \ {s}) \in [Sockets -> Seq(Message)]
        /\ Controllers(Staffed \ {sockets[s]}) \in Message
    BY <2>1, UnstaffType, MessageTypes DEF Staffed
  <2> DEFINE sent == Broadcast(ReleaseNotices(s, Open \ {s}), Open \ {s},
                               Controllers(Staffed \ {sockets[s]}))
  <2>3. sent \in [Sockets -> Seq(Message)]
    BY <2>2, SendType
  <2>4. outbox' = [sent EXCEPT ![s] = <<>>]
    BY <1>7 DEF Disconnect
  <2> HIDE DEF sent
  <2>5. outbox' \in [Sockets -> Seq(Message)]
    BY <2>3, <2>4, <<>> \in Seq(Message)
  <2>. QED  BY <1>7, <2>1, <2>5, UnstaffType DEF Disconnect, TypeOK
<1>8. ASSUME NEW s \in Sockets, Deliver(s)
      PROVE  TypeOK'
  BY <1>8 DEF Deliver, TypeOK
<1>9. ASSUME NEW a \in Aircraft, Blip(a)
      PROVE  TypeOK'
  <2>1. [type |-> "blip", aircraft |-> a, controller |-> owner[a]] \in Message
    BY DEF TypeOK, Message
  <2>. QED  BY <1>9, <2>1, SendType DEF Blip, TypeOK
<1>10. CASE UNCHANGED sessionVars
  BY <1>10 DEF sessionVars, TypeOK
<1>. QED
  BY <1>1, <1>2, <1>4, <1>5, <1>6, <1>7, <1>8, <1>9, <1>10 DEF Next, Handle

\* The type invariant holds in every state the session can reach.
THEOREM TypeCorrect == Spec => []TypeOK
<1>1. Init => TypeOK
  BY ConstantsAssumption DEF Init, TypeOK
<1>2. TypeOK /\ [Next]_sessionVars => TypeOK'
  BY TypeStep
<1>. QED  BY <1>1, <1>2, PTL DEF Spec
-----------------------------------------------------------------------------
(***************************************************************************)
(* What a step can do to the tables: one of four things.  The proofs about *)
(* the tables, and the refinement, go through these and not the handlers.  *)
(***************************************************************************)
TablesSame == UNCHANGED <<sockets, controllers, counts, owner>>

StillOpen == \A s \in Sockets : status[s] = "open" => status'[s] = "open"

\* A socket takes a position, with the next identifier of the position.
Takes(s, p) ==
    /\ status[s] = "open"
    /\ StillOpen
    /\ counts[p] < MaxCount
    /\ counts' = [counts EXCEPT ![p] = @ + 1]
    /\ controllers' = [controllers EXCEPT ![<<p, counts[p]>>] = s]
    /\ sockets' = [sockets EXCEPT ![s] = <<p, counts[p]>>]
    /\ owner' = owner

\* A socket gives up its position, and its connection or not.
GivesUp(s) ==
    /\ Unstaff(s)
    /\ \A t \in Sockets \ {s} : status[t] = "open" => status'[t] = "open"

\* The aircraft a passes to i, a staffed sector or nobody.
Passes(a, i) ==
    /\ StillOpen
    /\ i # NoOne => i \in Staffed
    /\ i = NoOne => owner[a] # NoOne
    /\ owner' = [owner EXCEPT ![a] = i]
    /\ UNCHANGED <<sockets, controllers, counts>>

LEMMA Effects ==
    ASSUME TypeOK, [Next]_sessionVars
    PROVE  \/ TablesSame /\ StillOpen
           \/ \E s \in Sockets, p \in Positions : Takes(s, p)
           \/ \E s \in Sockets : GivesUp(s)
           \/ \E a \in Aircraft, i \in Sectors \cup {NoOne} : Passes(a, i)
<1> USE DEF StillOpen, TablesSame
<1>1. ASSUME NEW s \in Sockets, NEW r \in AddRequest, AddController(s, r)
      PROVE  \/ TablesSame /\ StillOpen
             \/ \E p \in Positions : Takes(s, p)
  BY <1>1 DEF AddController, AddKnown, AddUnknown, Takes, Open
<1>2. ASSUME NEW s \in Sockets, NEW r \in DeleteRequest, DeleteController(s, r)
      PROVE  GivesUp(s)
  BY <1>2 DEF DeleteController, GivesUp
<1>3. ASSUME NEW s \in Sockets, NEW r \in TrackRequest,
             InitiateControl(s, r) \/ TerminateControl(s, r)
      PROVE  \/ TablesSame /\ StillOpen
             \/ \E a \in Aircraft, i \in Sectors \cup {NoOne} : Passes(a, i)
  <2>1. r.aircraft \in Aircraft /\ r.controller \in Sectors /\ r.controller # NoOne
    BY ConstantsAssumption DEF TrackRequest
  <2>2. CASE InitiateControl(s, r)
    BY <2>1, <2>2 DEF InitiateControl, Passes, Refuse, Speaks
  <2>3. CASE TerminateControl(s, r)
    BY <2>1, <2>3 DEF TerminateControl, Passes, Refuse
  <2>. QED  BY <1>3, <2>2, <2>3
<1>4. ASSUME NEW s \in Sockets, NEW r \in HandoffRequest,
             RequestHandoff(s, r) \/ AcceptHandoff(s, r) \/ RefuseHandoff(s, r)
      PROVE  \/ TablesSame /\ StillOpen
             \/ \E a \in Aircraft, i \in Sectors \cup {NoOne} : Passes(a, i)
  <2>1. /\ r.aircraft \in Aircraft
        /\ r.to \in Sectors /\ r.to # NoOne
    BY ConstantsAssumption DEF HandoffRequest
  <2>2. CASE AcceptHandoff(s, r)
    BY <2>1, <2>2 DEF AcceptHandoff, CanReply, Passes, Refuse, Speaks
  <2>3. CASE RequestHandoff(s, r) \/ RefuseHandoff(s, r)
    BY <2>3 DEF RequestHandoff, RefuseHandoff, Refuse
  <2>. QED  BY <1>4, <2>2, <2>3
<1>5. ASSUME NEW s \in Sockets, Connect(s)
      PROVE  TablesSame /\ StillOpen
  BY <1>5 DEF Connect, TypeOK
<1>6. ASSUME NEW s \in Sockets, Disconnect(s)
      PROVE  GivesUp(s)
  BY <1>6 DEF Disconnect, GivesUp, TypeOK
<1>7. ASSUME \/ \E s \in Sockets : Deliver(s)
             \/ \E a \in Aircraft : Blip(a)
             \/ UNCHANGED sessionVars
      PROVE  TablesSame /\ StillOpen
  BY <1>7 DEF Deliver, Blip, sessionVars
<1>. QED
  BY <1>1, <1>2, <1>3, <1>4, <1>5, <1>6, <1>7 DEF Next, Handle

\* The identifier of every staffed sector was counted when it was handed out.
CountsAhead == \A i \in Staffed : i[2] < counts[i[1]]

\* The inductive invariant on the tables.
TablesAgree == SocketIndex /\ CountsAhead /\ OwnerStaffed

LEMMA TablesInit == Init => TablesAgree
BY DEF Init, TablesAgree, SocketIndex, CountsAhead, OwnerStaffed, Staffed

LEMMA TablesStep ==
    ASSUME TypeOK, TablesAgree, [Next]_sessionVars
    PROVE  TablesAgree'
<1> USE DEF TablesAgree
<1>1. CASE TablesSame /\ StillOpen
  BY <1>1 DEF TablesSame, StillOpen, SocketIndex, CountsAhead, OwnerStaffed, Staffed, Open
<1>2. ASSUME NEW s \in Sockets, NEW p \in Positions, Takes(s, p)
      PROVE  TablesAgree'
  <2> DEFINE i == <<p, counts[p]>>
  <2>1. counts[p] \in Nat /\ i \in Sectors /\ i # NoOne /\ s # NoSocket
    BY <1>2, ConstantsAssumption DEF Takes, TypeOK, Sectors
  <2>2. i \notin Staffed
    BY <2>1 DEF CountsAhead
  <2>3. Staffed' = Staffed \cup {i}
    BY <1>2, <2>1 DEF Takes, Staffed, TypeOK
  <2>4. SocketIndex'
    <3>. SUFFICES ASSUME NEW t \in Sockets, sockets'[t] # NoOne
                  PROVE  status'[t] = "open" /\ controllers'[sockets'[t]] = t
      BY DEF SocketIndex, Open
    <3>1. CASE t = s
      BY <1>2, <2>1, <3>1 DEF Takes, TypeOK, StillOpen
    <3>2. CASE t # s
      <4>1. /\ sockets'[t] = sockets[t]
            /\ sockets[t] \in Staffed
            /\ controllers[sockets[t]] = t
            /\ status'[t] = "open"
        BY <1>2, <3>2, ConstantsAssumption
           DEF Takes, TypeOK, StillOpen, SocketIndex, Open, Staffed
      <4>. QED  BY <1>2, <2>2, <4>1 DEF Takes, TypeOK, Staffed
    <3>. QED  BY <3>1, <3>2
  <2>5. CountsAhead'
    <3>. SUFFICES ASSUME NEW j \in Staffed \cup {i}
                  PROVE  j[2] < counts'[j[1]]
      BY <2>3 DEF CountsAhead
    <3>1. counts' = [counts EXCEPT ![p] = counts[p] + 1] /\ counts \in [Positions -> Nat]
      BY <1>2 DEF Takes, TypeOK
    <3>2. CASE j = i
      BY <2>1, <3>1, <3>2
    <3>3. CASE j \in Staffed
      <4>1. j[1] \in Positions /\ j[2] \in Nat /\ j[2] < counts[j[1]]
        BY <3>3 DEF CountsAhead, Staffed, Sectors
      <4>. QED  BY <3>1, <4>1
    <3>. QED  BY <3>2, <3>3
  <2>6. OwnerStaffed'
    BY <1>2, <2>3 DEF Takes, OwnerStaffed
  <2>. QED  BY <2>4, <2>5, <2>6
<1>3. ASSUME NEW s \in Sockets, GivesUp(s)
      PROVE  TablesAgree'
  <2>1. Staffed' = Staffed \ {sockets[s]}
    BY <1>3 DEF GivesUp, Unstaff, Staffed, TypeOK
  <2>2. SocketIndex'
    <3>. SUFFICES ASSUME NEW t \in Sockets, sockets'[t] # NoOne
                  PROVE  status'[t] = "open" /\ controllers'[sockets'[t]] = t
      BY DEF SocketIndex, Open
    <3>1. t # s /\ sockets'[t] = sockets[t] /\ sockets[t] \in Sectors
      BY <1>3 DEF GivesUp, Unstaff, TypeOK
    <3>2. status[t] = "open" /\ controllers[sockets[t]] = t
      BY <3>1 DEF SocketIndex, Open
    <3>3. sockets[t] # sockets[s]
      BY <3>1, <3>2 DEF SocketIndex
    <3>. QED  BY <1>3, <3>1, <3>2, <3>3 DEF GivesUp, Unstaff
  <2>3. CountsAhead'
    BY <1>3, <2>1 DEF GivesUp, Unstaff, CountsAhead
  <2>4. OwnerStaffed'
    <3>. SUFFICES ASSUME NEW a \in Aircraft, owner'[a] # NoOne
                  PROVE  owner[a] \in Staffed \ {sockets[s]} /\ owner'[a] = owner[a]
      BY <2>1 DEF OwnerStaffed
    <3>1. a \notin Released(s) /\ owner'[a] = owner[a]
      BY <1>3 DEF GivesUp, Unstaff
    <3>2. owner[a] # sockets[s]
      BY <3>1 DEF Released
    <3>. QED  BY <3>1, <3>2 DEF OwnerStaffed
  <2>. QED  BY <2>2, <2>3, <2>4
<1>4. ASSUME NEW a \in Aircraft, NEW i \in Sectors \cup {NoOne}, Passes(a, i)
      PROVE  TablesAgree'
  <2>1. Staffed' = Staffed
    BY <1>4 DEF Passes, Staffed
  <2>2. SocketIndex' /\ CountsAhead'
    BY <1>4, <2>1 DEF Passes, StillOpen, SocketIndex, CountsAhead, Open
  <2>3. OwnerStaffed'
    BY <1>4, <2>1 DEF Passes, OwnerStaffed, TypeOK
  <2>. QED  BY <2>2, <2>3
<1>. QED  BY <1>1, <1>2, <1>3, <1>4, Effects

(***************************************************************************)
(* What a socket speaks for is in the table of controllers under that      *)
(* socket, and the socket is connected.                                    *)
(***************************************************************************)
THEOREM SocketIndexCorrect == Spec => []SocketIndex
<1>1. TypeOK /\ TablesAgree /\ [Next]_sessionVars => TablesAgree'
  BY TablesStep
<1>2. TablesAgree => SocketIndex
  BY DEF TablesAgree
<1>. QED  BY <1>1, <1>2, TablesInit, TypeCorrect, PTL DEF Spec

(***************************************************************************)
(* No aircraft is tracked from a sector without a controller, in every     *)
(* state the session can reach.                                            *)
(***************************************************************************)
THEOREM OwnerStaffedCorrect == Spec => []OwnerStaffed
<1>1. TypeOK /\ TablesAgree /\ [Next]_sessionVars => TablesAgree'
  BY TablesStep
<1>2. TablesAgree => OwnerStaffed
  BY DEF TablesAgree
<1>. QED  BY <1>1, <1>2, TablesInit, TypeCorrect, PTL DEF Spec
-----------------------------------------------------------------------------
\* A step of the session is a step of the abstract control of aircraft.
LEMMA RefinementStep ==
    ASSUME TypeOK, TablesAgree, [Next]_sessionVars
    PROVE  [Tracks!Next]_(Tracks!vars)
<1>1. CASE TablesSame /\ StillOpen
  BY <1>1 DEF TablesSame, Tracks!vars, Staffed, Retired
<1>2. ASSUME NEW s \in Sockets, NEW p \in Positions, Takes(s, p)
      PROVE  \E i \in Sectors : Tracks!Open(i)
  <2> DEFINE i == <<p, counts[p]>>
  <2>1. counts[p] \in Nat /\ i \in Sectors /\ s # NoSocket
    BY <1>2, ConstantsAssumption DEF Takes, TypeOK, Sectors
  <2>2. i \notin Staffed /\ i \notin Retired
    BY <2>1 DEF TablesAgree, CountsAhead, Retired
  <2>3. Staffed' = Staffed \cup {i}
    BY <1>2, <2>1 DEF Takes, Staffed, TypeOK
  <2>4. ASSUME NEW j \in Sectors, j \notin Staffed'
        PROVE  j[2] < counts'[j[1]] <=> j[2] < counts[j[1]]
    <3>1. j[1] \in Positions /\ j[2] \in Nat /\ j # i /\ j = <<j[1], j[2]>>
      BY <2>3, <2>4 DEF Sectors
    <3>2. counts' = [counts EXCEPT ![p] = counts[p] + 1] /\ counts \in [Positions -> Nat]
      BY <1>2 DEF Takes, TypeOK
    <3>3. CASE j[1] = p
      BY <2>1, <3>1, <3>2, <3>3
    <3>4. CASE j[1] # p
      BY <3>1, <3>2, <3>4
    <3>. QED  BY <3>3, <3>4
  <2>5. Retired' = Retired
    BY <2>2, <2>3, <2>4 DEF Retired
  <2>. QED  BY <1>2, <2>1, <2>2, <2>3, <2>5 DEF Takes, Tracks!Open
<1>3. ASSUME NEW s \in Sockets, GivesUp(s)
      PROVE  UNCHANGED Tracks!vars \/ \E i \in Sectors : Tracks!Close(i)
  <2> DEFINE i == sockets[s]
  <2>1. Staffed' = Staffed \ {i} /\ counts' = counts
    BY <1>3 DEF GivesUp, Unstaff, Staffed, TypeOK
  <2>2. CASE i = NoOne
    BY <1>3, <2>1, <2>2, ConstantsAssumption
       DEF GivesUp, Unstaff, Released, Tracks!vars, Staffed, Retired, TypeOK
  <2>3. CASE i # NoOne
    <3>1. i \in Staffed /\ i[2] < counts[i[1]]
      BY <2>3, ConstantsAssumption
         DEF TypeOK, TablesAgree, SocketIndex, CountsAhead, Staffed
    <3>2. Retired' = Retired \cup {i}
      BY <2>1, <3>1 DEF Retired, Staffed
    <3>3. owner' = [a \in Aircraft |-> IF owner[a] = i THEN NoOne ELSE owner[a]]
      BY <1>3, <2>3 DEF GivesUp, Unstaff, Released
    <3>4. i \in Sectors
      BY <3>1 DEF Staffed
    <3>. QED  BY <2>1, <3>1, <3>2, <3>3, <3>4 DEF Tracks!Close
  <2>. QED  BY <2>2, <2>3
<1>4. ASSUME NEW a \in Aircraft, NEW i \in Sectors \cup {NoOne}, Passes(a, i)
      PROVE  Tracks!Drop(a) \/ \E j \in Sectors : Tracks!Claim(a, j) \/ Tracks!Transfer(a, j)
  BY <1>4 DEF Passes, Staffed, Retired, Tracks!Drop, Tracks!Claim, Tracks!Transfer
<1>. QED  BY <1>1, <1>2, <1>3, <1>4, Effects DEF Tracks!Next

(***************************************************************************)
(* The session implements TrackOwnership: whatever its clients send and    *)
(* whenever their connections are lost, each handler opens or closes one   *)
(* sector, changes one track, or leaves the control of aircraft alone.     *)
(***************************************************************************)
THEOREM Refinement == Spec => ImplementsTrackOwnership
<1>1. Init => Tracks!Init
  BY DEF Init, Tracks!Init, Staffed, Retired, Sectors
<1>2. TypeOK /\ TablesAgree /\ [Next]_sessionVars => [Tracks!Next]_(Tracks!vars)
  BY RefinementStep
<1>3. TypeOK /\ TablesAgree /\ [Next]_sessionVars => TablesAgree'
  BY TablesStep
<1>. QED
  BY <1>1, <1>2, <1>3, TablesInit, TypeCorrect, PTL
     DEF Spec, ImplementsTrackOwnership, Tracks!Spec
-----------------------------------------------------------------------------
\* What is said last in a queue followed by another one.
LEMMA LastSaysConcat ==
    ASSUME NEW q \in Seq(Message), NEW r \in Seq(Message),
           NEW a, NEW i, NEW j,
           LastSays(q, a, i), LastSays(r, a, j),
           i = j \/ \E n \in 1 .. Len(r) : Tells(r[n], a)
    PROVE  LastSays(q \o r, a, j)
<1> DEFINE z == q \o r
<1>1. /\ Len(z) = Len(q) + Len(r)
      /\ Len(q) \in Nat /\ Len(r) \in Nat
      /\ \A n \in 1 .. Len(q) : z[n] = q[n]
      /\ \A n \in 1 .. Len(r) : z[Len(q) + n] = r[n]
  OBVIOUS
<1>. SUFFICES ASSUME NEW n \in 1 .. Len(z), Tells(z[n], a),
                     \A k \in n + 1 .. Len(z) : ~Tells(z[k], a)
              PROVE  z[n].controller = j
  BY DEF LastSays
<1>. HIDE DEF z
<1>2. CASE n \in 1 .. Len(q)
  <2>1. \A k \in 1 .. Len(r) : ~Tells(r[k], a)
    BY <1>1, <1>2
  <2>2. \A k \in n + 1 .. Len(q) : ~Tells(q[k], a)
    BY <1>1, <1>2
  <2>. QED  BY <1>1, <1>2, <2>1, <2>2 DEF LastSays
<1>3. CASE n \notin 1 .. Len(q)
  <2>1. PICK m \in 1 .. Len(r) : n = Len(q) + m
    <3>1. n - Len(q) \in 1 .. Len(r) /\ n = Len(q) + (n - Len(q))
      BY <1>1, <1>3
    <3>. QED  BY <3>1
  <2>2. \A k \in m + 1 .. Len(r) : ~Tells(r[k], a)
    <3>. TAKE k \in m + 1 .. Len(r)
    <3>1. Len(q) + k \in n + 1 .. Len(z) /\ z[Len(q) + k] = r[k]
      BY <1>1, <2>1
    <3>. QED  BY <3>1
  <2>. QED  BY <1>1, <2>1, <2>2 DEF LastSays
<1>. QED  BY <1>2, <1>3

\* Sending one message: it tells the truth about a, or nothing about a.
LEMMA LastSaysAppend ==
    ASSUME NEW q \in Seq(Message), NEW m \in Message,
           NEW a, NEW i, NEW j, LastSays(q, a, i),
           IF Tells(m, a) THEN m.controller = j ELSE i = j
    PROVE  LastSays(Append(q, m), a, j)
<1>1. <<m>> \in Seq(Message) /\ Append(q, m) = q \o <<m>>
  OBVIOUS
<1>2. LastSays(<<m>>, a, j)
  BY DEF LastSays
<1>3. i = j \/ \E n \in 1 .. Len(<<m>>) : Tells(<<m>>[n], a)
  OBVIOUS
<1>. QED  BY <1>1, <1>2, <1>3, LastSaysConcat

\* Delivering the oldest message does not change the last word.
LEMMA LastSaysTail ==
    ASSUME NEW q \in Seq(Message), q # <<>>, NEW a, NEW i, LastSays(q, a, i)
    PROVE  LastSays(Tail(q), a, i)
<1>1. /\ Len(Tail(q)) = Len(q) - 1
      /\ Len(q) \in Nat \ {0}
      /\ \A n \in 1 .. Len(q) - 1 : Tail(q)[n] = q[n + 1]
  OBVIOUS
<1>. SUFFICES ASSUME NEW n \in 1 .. Len(Tail(q)), Tells(Tail(q)[n], a),
                     \A k \in n + 1 .. Len(Tail(q)) : ~Tells(Tail(q)[k], a)
              PROVE  Tail(q)[n].controller = i
  BY DEF LastSays
<1>2. \A k \in n + 2 .. Len(q) : ~Tells(q[k], a)
  <2>. TAKE k \in n + 2 .. Len(q)
  <2>1. k - 1 \in n + 1 .. Len(Tail(q)) /\ Tail(q)[k - 1] = q[k]
    BY <1>1
  <2>. QED  BY <2>1
<1>3. n + 1 \in 1 .. Len(q) /\ Tells(q[n + 1], a) /\ Tail(q)[n] = q[n + 1]
  BY <1>1
<1>4. (n + 1) + 1 = n + 2
  BY <1>1
<1>. QED  BY <1>2, <1>3, <1>4 DEF LastSays
-----------------------------------------------------------------------------
(***************************************************************************)
(* The last word of every queue of box, among the open connections, is w.  *)
(***************************************************************************)
Truthful(box, w) ==
    \A t \in Open, a \in Aircraft : LastSays(box[t], a, w[a])

\* Nothing is under way to a connection that is not open.
Silent == \A s \in Sockets \ Open : outbox[s] = <<>>

\* A message that is not about the control of an aircraft changes no last word.
LEMMA TruthfulQuiet ==
    ASSUME NEW box \in [Sockets -> Seq(Message)], NEW w, Truthful(box, w),
           NEW m \in Message, \A a \in Aircraft : ~Tells(m, a), NEW s, NEW to
    PROVE  /\ Truthful(Emit(box, s, m), w)
           /\ Truthful(Broadcast(box, to, m), w)
<1>. SUFFICES ASSUME NEW t \in Open, NEW a \in Aircraft
              PROVE  /\ LastSays(Emit(box, s, m)[t], a, w[a])
                     /\ LastSays(Broadcast(box, to, m)[t], a, w[a])
  BY DEF Truthful
<1>1. t \in Sockets /\ box[t] \in Seq(Message) /\ LastSays(box[t], a, w[a])
  BY DEF Open, Truthful
<1>2. LastSays(Append(box[t], m), a, w[a])
  BY <1>1, LastSaysAppend
<1>. QED  BY <1>1, <1>2 DEF Emit, Broadcast

\* A message about one aircraft, sent to everyone, makes what it says the last word.
LEMMA TruthfulTold ==
    ASSUME NEW box \in [Sockets -> Seq(Message)], NEW w \in [Aircraft -> Sectors \cup {NoOne}],
           Truthful(box, w),
           NEW m \in Message, NEW b \in Aircraft, NEW i, m.controller = i,
           Tells(m, b)
    PROVE  Truthful(Broadcast(box, Open, m), [w EXCEPT ![b] = i])
<1> DEFINE v == [w EXCEPT ![b] = i]
<1>. SUFFICES ASSUME NEW t \in Open, NEW a \in Aircraft
              PROVE  LastSays(Broadcast(box, Open, m)[t], a, v[a])
  BY DEF Truthful
<1>1. t \in Sockets /\ box[t] \in Seq(Message) /\ LastSays(box[t], a, w[a])
  BY DEF Open, Truthful
<1>2. v[a] = IF a = b THEN i ELSE w[a]
  OBVIOUS
<1>3. Tells(m, a) <=> a = b
  BY DEF Tells
<1>. HIDE DEF v
<1>4. LastSays(Append(box[t], m), a, v[a])
  <2>1. CASE a = b
    BY <1>1, <1>2, <1>3, <2>1, LastSaysAppend
  <2>2. CASE a # b
    BY <1>1, <1>2, <1>3, <2>2, LastSaysAppend
  <2>. QED  BY <2>1, <2>2
<1>. QED  BY <1>1, <1>4 DEF Broadcast

\* The releases of a closing sector leave the truth to every live connection.
LEMMA TruthfulReleases ==
    ASSUME TypeOK, Truthful(outbox, owner), NEW s \in Sockets,
           NEW live \in SUBSET Open, NEW t \in live, NEW a \in Aircraft
    PROVE  LastSays(ReleaseNotices(s, live)[t], a,
                    IF a \in Released(s) THEN NoOne ELSE owner[a])
<1> DEFINE S == Released(s)
           r == Releases(S)
           j == IF a \in S THEN NoOne ELSE owner[a]
<1>1. /\ r \in Seq(Message)
      /\ \A n \in 1 .. Len(r) : \E b \in S : r[n] = Claimed(b, NoOne)
      /\ \A b \in S : \E n \in 1 .. Len(r) : r[n] = Claimed(b, NoOne)
  BY ReleasesShape DEF Released
<1>2. t \in Sockets /\ outbox[t] \in Seq(Message) /\ LastSays(outbox[t], a, owner[a])
  BY DEF Open, Truthful, TypeOK
<1>3. LastSays(r, a, j)
  <2>. SUFFICES ASSUME NEW n \in 1 .. Len(r), Tells(r[n], a)
                PROVE  r[n].controller = j
    BY DEF LastSays
  <2>1. PICK b \in S : r[n] = Claimed(b, NoOne)
    BY <1>1
  <2>2. Claimed(b, NoOne).aircraft = b /\ Claimed(b, NoOne).controller = NoOne
    BY DEF Claimed
  <2>3. a = b
    BY <2>1, <2>2 DEF Tells
  <2>. QED  BY <2>1, <2>2, <2>3
<1>4. owner[a] = j \/ \E n \in 1 .. Len(r) : Tells(r[n], a)
  <2>1. Tells(Claimed(a, NoOne), a)
    BY DEF Tells, Claimed
  <2>2. CASE a \in S
    <3>1. PICK n \in 1 .. Len(r) : r[n] = Claimed(a, NoOne)
      BY <1>1, <2>2
    <3>. QED  BY <2>1, <3>1
  <2>3. CASE a \notin S
    BY <2>3
  <2>. QED  BY <2>2, <2>3
<1>. HIDE DEF S, r, j
<1>5. LastSays(outbox[t] \o r, a, j)
  BY <1>1, <1>2, <1>3, <1>4, LastSaysConcat
<1>. QED  BY <1>2, <1>5 DEF ReleaseNotices, S, r, j

\* The messages that say nothing of who tracks an aircraft.
LEMMA QuietMessages ==
    ASSUME NEW a
    PROVE  /\ \A S : ~Tells(Controllers(S), a)
           /\ \A r, ok : ~Tells(Answer(r, ok), a)
           /\ \A r : \A e \in {"handoffRequested", "handoffAccepted", "handoffRefused"} :
                 ~Tells(Handoff(e, r), a)
           /\ \A i : ~Tells([type |-> "added", sector |-> i], a)
           /\ \A p : ~Tells([type |-> "deleted", position |-> p], a)
BY DEF Tells, Controllers, Answer, Handoff

\* The inductive invariant on the messages under way.
WordInv == Truthful(outbox, owner) /\ Silent

\* The messages of a closing sector, up to the list of controllers.
LEMMA ClosingWord ==
    ASSUME TypeOK, WordInv, NEW s \in Sockets, NEW live \in SUBSET Open,
           Unstaff(s), NEW t \in live, NEW a \in Aircraft
    PROVE  LastSays(ReleaseNotices(s, live)[t], a, owner'[a])
<1>1. owner'[a] = IF a \in Released(s) THEN NoOne ELSE owner[a]
  BY DEF Unstaff
<1>. QED  BY <1>1, TruthfulReleases DEF WordInv

LEMMA WordDelete ==
    ASSUME TypeOK, WordInv, NEW s \in Sockets, NEW r \in DeleteRequest,
           DeleteController(s, r)
    PROVE  WordInv'
<1> DEFINE notices == ReleaseNotices(s, Open)
           reply == [type |-> "deleted", position |-> r.position]
           list == Controllers(Staffed \ {sockets[s]})
<1>1. Unstaff(s) /\ Open' = Open /\ s \in Open
  BY DEF DeleteController, Open
<1>2. notices \in [Sockets -> Seq(Message)] /\ reply \in Message /\ list \in Message
  BY <1>1, UnstaffType, MessageTypes DEF Message, DeleteRequest, Staffed
<1>3. Truthful(notices, owner')
  BY <1>1, ClosingWord DEF Truthful
<1>4. Truthful(Emit(notices, s, reply), owner')
  BY <1>2, <1>3, TruthfulQuiet, QuietMessages
<1>5. Emit(notices, s, reply) \in [Sockets -> Seq(Message)]
  BY <1>2, SendType
<1>6. Truthful(Broadcast(Emit(notices, s, reply), Open, list), owner')
  BY <1>2, <1>4, <1>5, TruthfulQuiet, QuietMessages
<1>7. outbox' = Broadcast(Emit(notices, s, reply), Open, list)
  BY DEF DeleteController
<1>8. Truthful(outbox, owner)'
  BY <1>1, <1>6, <1>7 DEF Truthful
<1>9. Silent'
  BY <1>1, <1>7 DEF WordInv, Silent, Broadcast, Emit, ReleaseNotices, Open
<1>. QED  BY <1>8, <1>9 DEF WordInv

LEMMA WordDisconnect ==
    ASSUME TypeOK, WordInv, NEW s \in Sockets, Disconnect(s)
    PROVE  WordInv'
<1> DEFINE live == Open \ {s}
           notices == ReleaseNotices(s, live)
           list == Controllers(Staffed \ {sockets[s]})
           sent == Broadcast(notices, live, list)
<1>1. Unstaff(s) /\ Open' = live
  BY DEF Disconnect, Open, TypeOK
<1>2. notices \in [Sockets -> Seq(Message)] /\ list \in Message
  BY <1>1, UnstaffType, MessageTypes DEF Staffed
<1>3. outbox' = [sent EXCEPT ![s] = <<>>] /\ sent \in [Sockets -> Seq(Message)]
  BY <1>2, SendType DEF Disconnect
<1>4. ASSUME NEW t \in live, NEW a \in Aircraft
      PROVE  LastSays(outbox'[t], a, owner'[a])
  <2>1. LastSays(notices[t], a, owner'[a])
    BY <1>1, ClosingWord
  <2>2. t \in Sockets /\ notices[t] \in Seq(Message) /\ ~Tells(list, a)
    BY <1>2, QuietMessages DEF Open
  <2>3. outbox'[t] = Append(notices[t], list)
    BY <1>3, <2>2 DEF Broadcast
  <2>. HIDE DEF notices, list
  <2>. QED  BY <1>2, <2>1, <2>2, <2>3, LastSaysAppend
<1>5. Truthful(outbox, owner)'
  BY <1>1, <1>4 DEF Truthful
<1>6. Silent'
  <2>. SUFFICES ASSUME NEW t \in Sockets, t \notin live
                PROVE  outbox'[t] = <<>>
    BY <1>1 DEF Silent
  <2>1. CASE t = s
    BY <1>3, <2>1
  <2>2. CASE t # s
    BY <1>3, <2>2 DEF WordInv, Silent, Broadcast, ReleaseNotices
  <2>. QED  BY <2>1, <2>2
<1>. QED  BY <1>5, <1>6 DEF WordInv

\* Silence is kept by what is sent while no connection comes or goes.
LEMMA SilenceKept ==
    ASSUME NEW box \in [Sockets -> Seq(Message)],
           \A t \in Sockets \ Open : box[t] = <<>>, NEW s, NEW m
    PROVE  /\ \A t \in Sockets \ Open : Emit(box, s, m)[t] = <<>>
           /\ \A t \in Sockets \ Open : Broadcast(box, Open, m)[t] = <<>>
BY DEF Emit, Broadcast

\* The queues as a whole: typed, truthful about w and silent where closed.
Sound(box, w) ==
    /\ box \in [Sockets -> Seq(Message)]
    /\ Truthful(box, w)
    /\ \A t \in Sockets \ Open : box[t] = <<>>

LEMMA SoundQuiet ==
    ASSUME NEW box, NEW w, Sound(box, w), NEW m \in Message,
           \A a \in Aircraft : ~Tells(m, a), NEW s
    PROVE  Sound(Emit(box, s, m), w) /\ Sound(Broadcast(box, Open, m), w)
BY SendType, TruthfulQuiet, SilenceKept DEF Sound

LEMMA SoundTold ==
    ASSUME NEW box, NEW w \in [Aircraft -> Sectors \cup {NoOne}], Sound(box, w),
           NEW b \in Aircraft, NEW i \in Sectors \cup {NoOne}
    PROVE  Sound(Broadcast(box, Open, Claimed(b, i)), [w EXCEPT ![b] = i])
<1>1. Claimed(b, i) \in Message
  BY MessageTypes
<1>2. Claimed(b, i).controller = i /\ Tells(Claimed(b, i), b)
  BY DEF Claimed, Tells
<1>. QED  BY <1>1, <1>2, SendType, TruthfulTold, SilenceKept DEF Sound

LEMMA WordStep ==
    ASSUME TypeOK, WordInv, [Next]_sessionVars
    PROVE  WordInv'
<1>1. Sound(outbox, owner)
  BY DEF Sound, WordInv, Silent, TypeOK
<1>2. ASSUME status' = status, Sound(outbox', owner')
      PROVE  WordInv'
  <2>1. Open' = Open
    BY <1>2 DEF Open
  <2>. QED  BY <1>2, <2>1 DEF WordInv, Sound, Truthful, Silent
<1>3. ASSUME NEW s \in Sockets, NEW r \in AddRequest, AddController(s, r)
      PROVE  WordInv'
  <2>1. CASE AddKnown(s, r)
    <3> DEFINE i == <<r.position, counts[r.position]>>
               m == [type |-> "added", sector |-> i]
               l == Controllers(Staffed \cup {i})
    <3>1. i \in Sectors
      BY <2>1, ConstantsAssumption DEF AddKnown, Sectors, TypeOK
    <3>2. m \in Message /\ l \in Message
      BY <3>1, MessageTypes DEF Message, Staffed
    <3>3. Sound(Emit(outbox, s, m), owner)
      BY <1>1, <3>2, SoundQuiet, QuietMessages
    <3>4. Sound(Broadcast(Emit(outbox, s, m), Open, l), owner)
      BY <3>2, <3>3, SoundQuiet, QuietMessages
    <3>. QED  BY <1>2, <2>1, <3>4 DEF AddKnown
  <2>2. CASE AddUnknown(s, r)
    <3>1. Controllers(Staffed) \in Message
      BY MessageTypes DEF Staffed
    <3>2. Sound(Broadcast(outbox, Open, Controllers(Staffed)), owner)
      BY <1>1, <3>1, SoundQuiet, QuietMessages
    <3>. QED  BY <1>2, <2>2, <3>2 DEF AddUnknown
  <2>. QED  BY <1>3, <2>1, <2>2 DEF AddController
<1>4. ASSUME NEW s \in Sockets, NEW r \in TrackRequest \cup HandoffRequest,
             NEW ok \in BOOLEAN, NEW box, NEW w, Sound(box, w)
      PROVE  Sound(Emit(box, s, Answer(r, ok)), w)
  BY <1>4, SoundQuiet, QuietMessages, MessageTypes
<1>5. ASSUME NEW s \in Sockets, NEW r \in TrackRequest \cup HandoffRequest,
             Refuse(s, r)
      PROVE  WordInv'
  <2>1. Sound(Emit(outbox, s, Answer(r, FALSE)), owner)
    BY <1>1, <1>4
  <2>. QED  BY <1>2, <1>5, <2>1 DEF Refuse
<1>6. ASSUME NEW s \in Sockets, NEW r \in TrackRequest,
             InitiateControl(s, r) \/ TerminateControl(s, r)
      PROVE  WordInv'
  <2>1. r.aircraft \in Aircraft /\ r.controller \in Sectors
    BY DEF TrackRequest
  <2>2. \A i \in Sectors \cup {NoOne} :
           Sound(Emit(Broadcast(outbox, Open, Claimed(r.aircraft, i)), s, Answer(r, TRUE)),
                 [owner EXCEPT ![r.aircraft] = i])
    BY <1>1, <1>4, <2>1, SoundTold DEF TypeOK
  <2>3. CASE InitiateControl(s, r)
    BY <1>2, <1>5, <2>1, <2>2, <2>3 DEF InitiateControl
  <2>4. CASE TerminateControl(s, r)
    BY <1>2, <1>5, <2>2, <2>4 DEF TerminateControl
  <2>. QED  BY <1>6, <2>3, <2>4
<1>7. ASSUME NEW s \in Sockets, NEW r \in HandoffRequest,
             RequestHandoff(s, r) \/ AcceptHandoff(s, r) \/ RefuseHandoff(s, r)
      PROVE  WordInv'
  <2>1. r.aircraft \in Aircraft /\ r.to \in Sectors
    BY DEF HandoffRequest
  <2>2. ASSUME NEW t, NEW e \in {"handoffRequested", "handoffAccepted", "handoffRefused"}
        PROVE  Sound(Emit(outbox, t, Handoff(e, r)), owner)
    BY <1>1, SoundQuiet, QuietMessages, MessageTypes
  <2>3. CASE RequestHandoff(s, r)
    <3>1. Sound(Emit(Emit(outbox, controllers[r.to], Handoff("handoffRequested", r)),
                     s, Answer(r, TRUE)), owner)
      BY <1>4, <2>2
    <3>. QED  BY <1>2, <1>5, <2>3, <3>1 DEF RequestHandoff
  <2>4. CASE AcceptHandoff(s, r)
    <3> DEFINE told == Emit(outbox, controllers[r.controller], Handoff("handoffAccepted", r))
               all == Broadcast(told, Open, Claimed(r.aircraft, r.to))
    <3>1. Sound(all, [owner EXCEPT ![r.aircraft] = r.to])
      BY <2>1, <2>2, SoundTold DEF TypeOK
    <3>2. Sound(Emit(all, s, Answer(r, TRUE)), [owner EXCEPT ![r.aircraft] = r.to])
      BY <1>4, <3>1
    <3>. QED  BY <1>2, <1>5, <2>4, <3>2 DEF AcceptHandoff
  <2>5. CASE RefuseHandoff(s, r)
    <3>1. Sound(Emit(Emit(outbox, controllers[r.controller], Handoff("handoffRefused", r)),
                     s, Answer(r, TRUE)), owner)
      BY <1>4, <2>2
    <3>. QED  BY <1>2, <1>5, <2>5, <3>1 DEF RefuseHandoff
  <2>. QED  BY <1>7, <2>3, <2>4, <2>5
<1>8. ASSUME NEW s \in Sockets, Connect(s)
      PROVE  WordInv'
  <2>1. Open' = Open \cup {s} /\ outbox[s] = <<>> /\ UNCHANGED <<outbox, owner>>
    BY <1>8 DEF Connect, Open, TypeOK, WordInv, Silent
  <2>2. \A a \in Aircraft : LastSays(<<>>, a, owner[a])
    BY DEF LastSays
  <2>3. \A t \in Open', a \in Aircraft : LastSays(outbox[t], a, owner[a])
    BY <2>1, <2>2 DEF WordInv, Truthful
  <2>. QED  BY <2>1, <2>3 DEF WordInv, Truthful, Silent
<1>9. ASSUME NEW s \in Sockets, Deliver(s)
      PROVE  WordInv'
  <2>1. s \in Open /\ Open' = Open /\ outbox[s] \in Seq(Message) /\ outbox[s] # <<>>
    BY <1>9 DEF Deliver, Open, TypeOK
  <2>2. outbox' = [outbox EXCEPT ![s] = Tail(outbox[s])] /\ owner' = owner
    BY <1>9 DEF Deliver
  <2>3. \A a \in Aircraft : LastSays(Tail(outbox[s]), a, owner[a])
    BY <2>1, LastSaysTail DEF WordInv, Truthful
  <2>4. \A t \in Open, a \in Aircraft : LastSays(outbox'[t], a, owner[a])
    BY <2>2, <2>3 DEF WordInv, Truthful, TypeOK, Open
  <2>5. \A t \in Sockets \ Open : outbox'[t] = <<>>
    BY <2>1, <2>2 DEF WordInv, Silent, TypeOK
  <2>. QED  BY <2>1, <2>2, <2>4, <2>5 DEF WordInv, Truthful, Silent
<1>10. ASSUME NEW b \in Aircraft, Blip(b)
       PROVE  WordInv'
  <2> DEFINE m == [type |-> "blip", aircraft |-> b, controller |-> owner[b]]
  <2>1. m \in Message /\ m.controller = owner[b] /\ Tells(m, b)
    BY DEF TypeOK, Message, Tells
  <2>2. [owner EXCEPT ![b] = owner[b]] = owner
    BY DEF TypeOK
  <2>. HIDE DEF m
  <2>3. Truthful(Broadcast(outbox, Open, m), [owner EXCEPT ![b] = owner[b]])
    BY <1>1, <2>1, TruthfulTold DEF TypeOK, Sound
  <2>4. Sound(Broadcast(outbox, Open, m), owner)
    BY <1>1, <2>1, <2>2, <2>3, SendType, SilenceKept DEF Sound
  <2>. QED  BY <1>2, <1>10, <2>4 DEF Blip, m
<1>11. CASE UNCHANGED sessionVars
  BY <1>1, <1>2, <1>11 DEF sessionVars
<1>. QED
  BY <1>3, <1>6, <1>7, <1>8, <1>9, <1>10, <1>11, WordDelete, WordDisconnect DEF Next, Handle

(***************************************************************************)
(* In every state the session can reach, the last message under way to a   *)
(* connection about an aircraft names the controller the aircraft has.     *)
(***************************************************************************)
THEOREM LastWordCorrect == Spec => []LastWord
<1>1. Init => WordInv
  BY DEF Init, WordInv, Truthful, Silent, LastSays, Open
<1>2. TypeOK /\ WordInv /\ [Next]_sessionVars => WordInv'
  BY WordStep
<1>3. TypeOK /\ WordInv => LastWord
  <2>. SUFFICES ASSUME TypeOK, WordInv, NEW s \in Sockets, NEW a \in Aircraft
                PROVE  LastSays(outbox[s], a, owner[a])
    BY DEF LastWord
  <2>1. CASE s \in Open
    BY <2>1 DEF WordInv, Truthful
  <2>2. CASE s \notin Open
    BY <2>2 DEF WordInv, Silent, LastSays
  <2>. QED  BY <2>1, <2>2
<1>. QED  BY <1>1, <1>2, <1>3, TypeCorrect, PTL DEF Spec
-----------------------------------------------------------------------------
(***************************************************************************)
(* The lists of controllers under way.  An append either makes the list it *)
(* sends the last one, or leaves the last list where it is; a handler that *)
(* changes the staffed sectors ends with the list of the new ones.         *)
(***************************************************************************)
IsList(m) == m.type = "controllers"

\* The last list of controllers of q, if there is one, is S.
ListSays(q, S) ==
    \A n \in 1 .. Len(q) :
        IsList(q[n]) /\ (\A k \in n + 1 .. Len(q) : ~IsList(q[k])) => q[n].sectors = S

\* Queues of messages that end, for every open connection, with the list S.
Listed(box, S) ==
    /\ box \in [Sockets -> Seq(Message)]
    /\ \A t \in Open : ListSays(box[t], S)

LEMMA ListSaysAppend ==
    ASSUME NEW q \in Seq(Message), NEW m \in Message, NEW S,
           IF IsList(m) THEN m.sectors = S ELSE ListSays(q, S)
    PROVE  ListSays(Append(q, m), S)
<1> DEFINE p == Append(q, m)
<1>. SUFFICES ASSUME NEW n \in 1 .. Len(p), IsList(p[n]),
                     \A k \in n + 1 .. Len(p) : ~IsList(p[k])
              PROVE  p[n].sectors = S
  BY DEF ListSays
<1>1. /\ Len(p) = Len(q) + 1 /\ Len(q) \in Nat
      /\ p[Len(q) + 1] = m
      /\ \A k \in 1 .. Len(q) : p[k] = q[k]
  OBVIOUS
<1>. HIDE DEF p
<1>2. CASE n = Len(q) + 1
  BY <1>1, <1>2
<1>3. CASE n \in 1 .. Len(q)
  <2>1. ~IsList(m)
    BY <1>1, <1>3
  <2>2. \A k \in n + 1 .. Len(q) : ~IsList(q[k])
    BY <1>1, <1>3
  <2>. QED  BY <1>1, <1>3, <2>1, <2>2 DEF ListSays
<1>. QED  BY <1>1, <1>2, <1>3

LEMMA ListSaysTail ==
    ASSUME NEW q \in Seq(Message), q # <<>>, NEW S, ListSays(q, S)
    PROVE  ListSays(Tail(q), S)
<1> DEFINE p == Tail(q)
<1>. SUFFICES ASSUME NEW n \in 1 .. Len(p), IsList(p[n]),
                     \A k \in n + 1 .. Len(p) : ~IsList(p[k])
              PROVE  p[n].sectors = S
  BY DEF ListSays
<1>1. Len(p) = Len(q) - 1 /\ Len(q) \in Nat /\ \A k \in 1 .. Len(p) : p[k] = q[k + 1]
  OBVIOUS
<1>. HIDE DEF p
<1>2. \A k \in n + 2 .. Len(q) : ~IsList(q[k])
  <2>1. TAKE k \in n + 2 .. Len(q)
  <2>2. k - 1 \in n + 1 .. Len(p) /\ k - 1 \in 1 .. Len(p) /\ (k - 1) + 1 = k
    BY <1>1
  <2>. QED  BY <1>1, <2>2
<1>. QED  BY <1>1, <1>2 DEF ListSays

\* A message that is no list of controllers leaves the last list as it is.
LEMMA ListedQuiet ==
    ASSUME NEW box, NEW S, Listed(box, S), NEW m \in Message, ~IsList(m), NEW s
    PROVE  Listed(Emit(box, s, m), S) /\ Listed(Broadcast(box, Open, m), S)
<1>1. ASSUME NEW t \in Open
      PROVE  ListSays(Append(box[t], m), S)
  BY ListSaysAppend DEF Listed, Open
<1>. QED  BY <1>1, SendType DEF Listed, Emit, Broadcast, Open

\* A list sent to every open connection is the last list of each.
LEMMA ListedTold ==
    ASSUME NEW box \in [Sockets -> Seq(Message)], NEW S \in SUBSET Sectors,
           NEW live \in SUBSET Open, NEW t \in live
    PROVE  ListSays(Broadcast(box, live, Controllers(S))[t], S)
<1>1. Controllers(S) \in Message /\ Controllers(S).sectors = S /\ IsList(Controllers(S))
  BY MessageTypes DEF Controllers, IsList
<1>2. box[t] \in Seq(Message) /\ t \in Sockets
  BY DEF Open
<1>3. ListSays(Append(box[t], Controllers(S)), S)
  BY <1>1, <1>2, ListSaysAppend
<1>. QED  BY <1>2, <1>3 DEF Broadcast

\* The messages that are no lists of controllers.
LEMMA OtherMessages ==
    /\ \A a, i : ~IsList(Claimed(a, i))
    /\ \A r, ok : ~IsList(Answer(r, ok))
    /\ \A r : \A e \in {"handoffRequested", "handoffAccepted", "handoffRefused"} :
          ~IsList(Handoff(e, r))
BY DEF IsList, Claimed, Answer, Handoff

\* The inductive invariant on the lists under way.
ListInv == Listed(outbox, Staffed)

\* Closing a sector takes it out of the staffed ones.
LEMMA UnstaffStaffed ==
    ASSUME TypeOK, NEW s \in Sockets, Unstaff(s)
    PROVE  Staffed' = Staffed \ {sockets[s]}
BY ConstantsAssumption DEF Unstaff, Staffed, TypeOK

LEMMA ListStep ==
    ASSUME TypeOK, TypeOK', WordInv, ListInv, [Next]_sessionVars
    PROVE  ListInv'
<1>1. ASSUME status' = status, controllers' = controllers, Listed(outbox', Staffed)
      PROVE  ListInv'
  BY <1>1 DEF ListInv, Listed, Staffed, Open
<1>2. ASSUME NEW box \in [Sockets -> Seq(Message)], NEW S \in SUBSET Sectors,
             Open' = Open, Staffed' = S, outbox' = Broadcast(box, Open, Controllers(S))
      PROVE  ListInv'
  <2>1. \A t \in Open : ListSays(outbox'[t], S)
    BY <1>2, ListedTold
  <2>. QED  BY <1>2, <2>1 DEF ListInv, Listed, TypeOK
<1>3. ASSUME NEW s \in Sockets, NEW r \in AddRequest, AddController(s, r)
      PROVE  ListInv'
  <2>1. CASE AddKnown(s, r)
    <3> DEFINE i == <<r.position, counts[r.position]>>
               m == [type |-> "added", sector |-> i]
    <3>1. i \in Sectors /\ s # NoSocket
      BY <2>1, ConstantsAssumption DEF AddKnown, Sectors, TypeOK
    <3>2. controllers' = [controllers EXCEPT ![i] = s] /\ Open' = Open
      BY <2>1 DEF AddKnown, Open
    <3>3. outbox' = Broadcast(Emit(outbox, s, m), Open, Controllers(Staffed \cup {i}))
      BY <2>1 DEF AddKnown
    <3>4. Emit(outbox, s, m) \in [Sockets -> Seq(Message)]
      BY <3>1, SendType DEF Message, TypeOK
    <3>. HIDE DEF i, m
    <3>5. Staffed' = Staffed \cup {i} /\ Staffed \cup {i} \in SUBSET Sectors
      BY <3>1, <3>2 DEF Staffed, TypeOK
    <3>. QED  BY <1>2, <3>2, <3>3, <3>4, <3>5
  <2>2. CASE AddUnknown(s, r)
    <3>1. /\ Open' = Open /\ Staffed' = Staffed /\ Staffed \in SUBSET Sectors
          /\ outbox' = Broadcast(outbox, Open, Controllers(Staffed))
      BY <2>2 DEF AddUnknown, Open, Staffed
    <3>. QED  BY <1>2, <3>1 DEF TypeOK
  <2>. QED  BY <1>3, <2>1, <2>2 DEF AddController
<1>4. ASSUME NEW s \in Sockets, NEW r \in DeleteRequest, DeleteController(s, r)
      PROVE  ListInv'
  <2> DEFINE m == [type |-> "deleted", position |-> r.position]
             sent == Emit(ReleaseNotices(s, Open), s, m)
             left == Staffed \ {sockets[s]}
  <2>1. Unstaff(s) /\ Open' = Open /\ outbox' = Broadcast(sent, Open, Controllers(left))
    BY <1>4 DEF DeleteController, Open
  <2>2. m \in Message /\ ReleaseNotices(s, Open) \in [Sockets -> Seq(Message)]
    BY <2>1, UnstaffType DEF Message, DeleteRequest
  <2>3. sent \in [Sockets -> Seq(Message)]
    BY <2>2, SendType
  <2>4. Staffed' = left /\ left \in SUBSET Sectors
    BY <2>1, UnstaffStaffed DEF Staffed
  <2>. HIDE DEF sent, left
  <2>. QED  BY <1>2, <2>1, <2>3, <2>4
<1>5. ASSUME NEW s \in Sockets, NEW r \in TrackRequest \cup HandoffRequest,
             NEW ok \in BOOLEAN, NEW box, Listed(box, Staffed)
      PROVE  Listed(Emit(box, s, Answer(r, ok)), Staffed)
  BY <1>5, ListedQuiet, OtherMessages, MessageTypes
<1>6. ASSUME NEW box, Listed(box, Staffed),
             NEW a \in Aircraft, NEW i \in Sectors \cup {NoOne}
      PROVE  Listed(Broadcast(box, Open, Claimed(a, i)), Staffed)
  BY <1>6, ListedQuiet, OtherMessages, MessageTypes
<1>7. ASSUME NEW r \in HandoffRequest, NEW t,
             NEW e \in {"handoffRequested", "handoffAccepted", "handoffRefused"}
      PROVE  Listed(Emit(outbox, t, Handoff(e, r)), Staffed)
  BY ListedQuiet, OtherMessages, MessageTypes DEF ListInv
<1>8. ASSUME NEW s \in Sockets, NEW r \in TrackRequest \cup HandoffRequest,
             Refuse(s, r)
      PROVE  ListInv'
  <2>1. Listed(Emit(outbox, s, Answer(r, FALSE)), Staffed)
    BY <1>5 DEF ListInv
  <2>. QED  BY <1>1, <1>8, <2>1 DEF Refuse
<1>9. ASSUME NEW s \in Sockets, NEW r \in TrackRequest,
             InitiateControl(s, r) \/ TerminateControl(s, r)
      PROVE  ListInv'
  <2>1. \A i \in Sectors \cup {NoOne} :
           Listed(Emit(Broadcast(outbox, Open, Claimed(r.aircraft, i)), s, Answer(r, TRUE)),
                  Staffed)
    BY <1>5, <1>6 DEF ListInv, TrackRequest
  <2>2. r.controller \in Sectors
    BY DEF TrackRequest
  <2>3. CASE InitiateControl(s, r)
    BY <1>1, <1>8, <2>1, <2>2, <2>3 DEF InitiateControl
  <2>4. CASE TerminateControl(s, r)
    BY <1>1, <1>8, <2>1, <2>4 DEF TerminateControl
  <2>. QED  BY <1>9, <2>3, <2>4
<1>10. ASSUME NEW s \in Sockets, NEW r \in HandoffRequest,
              RequestHandoff(s, r) \/ AcceptHandoff(s, r) \/ RefuseHandoff(s, r)
       PROVE  ListInv'
  <2>1. r.aircraft \in Aircraft /\ r.to \in Sectors
    BY DEF HandoffRequest
  <2>2. CASE RequestHandoff(s, r)
    <3>1. Listed(Emit(Emit(outbox, controllers[r.to], Handoff("handoffRequested", r)),
                      s, Answer(r, TRUE)), Staffed)
      BY <1>5, <1>7
    <3>. QED  BY <1>1, <1>8, <2>2, <3>1 DEF RequestHandoff
  <2>3. CASE AcceptHandoff(s, r)
    <3> DEFINE told == Emit(outbox, controllers[r.controller], Handoff("handoffAccepted", r))
               all == Broadcast(told, Open, Claimed(r.aircraft, r.to))
    <3>1. Listed(all, Staffed)
      BY <1>6, <1>7, <2>1
    <3>2. Listed(Emit(all, s, Answer(r, TRUE)), Staffed)
      BY <1>5, <3>1
    <3>. QED  BY <1>1, <1>8, <2>3, <3>2 DEF AcceptHandoff
  <2>4. CASE RefuseHandoff(s, r)
    <3>1. Listed(Emit(Emit(outbox, controllers[r.controller], Handoff("handoffRefused", r)),
                      s, Answer(r, TRUE)), Staffed)
      BY <1>5, <1>7
    <3>. QED  BY <1>1, <1>8, <2>4, <3>1 DEF RefuseHandoff
  <2>. QED  BY <1>10, <2>2, <2>3, <2>4
<1>11. ASSUME NEW s \in Sockets, Connect(s)
       PROVE  ListInv'
  <2>1. /\ Open' = Open \cup {s} /\ outbox' = outbox /\ outbox[s] = <<>>
        /\ Staffed' = Staffed
    BY <1>11 DEF Connect, Open, Staffed, TypeOK, WordInv, Silent
  <2>2. ListSays(<<>>, Staffed)
    BY DEF ListSays
  <2>. QED  BY <2>1, <2>2 DEF ListInv, Listed
<1>12. ASSUME NEW s \in Sockets, Disconnect(s)
       PROVE  ListInv'
  <2> DEFINE live == Open \ {s}
             left == Staffed \ {sockets[s]}
             notices == ReleaseNotices(s, live)
             sent == Broadcast(notices, live, Controllers(left))
  <2>1. Unstaff(s) /\ Open' = live /\ outbox' = [sent EXCEPT ![s] = <<>>]
    BY <1>12 DEF Disconnect, Open, TypeOK
  <2>2. Staffed' = left /\ left \in SUBSET Sectors
    BY <2>1, UnstaffStaffed DEF Staffed
  <2>3. notices \in [Sockets -> Seq(Message)]
    BY <2>1, UnstaffType
  <2>4. \A t \in live : ListSays(sent[t], left)
    BY <2>2, <2>3, ListedTold
  <2>5. \A t \in live : outbox'[t] = sent[t]
    BY <2>1 DEF Broadcast, Open
  <2>. HIDE DEF sent, left
  <2>. QED  BY <2>1, <2>2, <2>4, <2>5 DEF ListInv, Listed, TypeOK
<1>13. ASSUME NEW s \in Sockets, Deliver(s)
       PROVE  ListInv'
  <2>1. /\ s \in Open /\ outbox[s] \in Seq(Message) /\ outbox[s] # <<>>
        /\ outbox' = [outbox EXCEPT ![s] = Tail(outbox[s])]
    BY <1>13 DEF Deliver, Open, TypeOK
  <2>2. ListSays(Tail(outbox[s]), Staffed)
    BY <2>1, ListSaysTail DEF ListInv, Listed
  <2>3. Listed(outbox', Staffed)
    BY <2>1, <2>2 DEF ListInv, Listed, TypeOK, Open
  <2>. QED  BY <1>1, <1>13, <2>3 DEF Deliver
<1>14. ASSUME NEW a \in Aircraft, Blip(a)
       PROVE  ListInv'
  <2> DEFINE m == [type |-> "blip", aircraft |-> a, controller |-> owner[a]]
  <2>1. m \in Message /\ ~IsList(m)
    BY DEF TypeOK, Message, IsList
  <2>. HIDE DEF m
  <2>2. Listed(Broadcast(outbox, Open, m), Staffed)
    BY <2>1, ListedQuiet DEF ListInv
  <2>. QED  BY <1>1, <1>14, <2>2 DEF Blip, m
<1>15. CASE UNCHANGED sessionVars
  BY <1>1, <1>15 DEF sessionVars, ListInv
<1>. QED
  BY <1>3, <1>4, <1>9, <1>10, <1>11, <1>12, <1>13, <1>14, <1>15 DEF Next, Handle

(***************************************************************************)
(* In every state the session can reach, the last list of controllers      *)
(* under way to a connection is the list of the sectors that are staffed.  *)
(***************************************************************************)
THEOREM LastListCorrect == Spec => []LastList
<1>1. Init => ListInv
  <2>1. ASSUME Init
        PROVE  ListInv
    BY <2>1 DEF Init, ListInv, Listed, Open
  <2>. QED  BY <2>1
<1>2. TypeOK /\ TypeOK' /\ WordInv /\ ListInv /\ [Next]_sessionVars => ListInv'
  BY ListStep
<1>3. Init => WordInv
  BY DEF Init, WordInv, Truthful, Silent, LastSays, Open
<1>4. TypeOK /\ WordInv /\ [Next]_sessionVars => WordInv'
  BY WordStep
<1>5. TypeOK /\ WordInv /\ ListInv => LastList
  <2>. SUFFICES ASSUME TypeOK, WordInv, ListInv, NEW s \in Sockets
                PROVE  ListSays(outbox[s], Staffed)
    BY DEF LastList, ListSays, IsList
  <2>1. CASE s \in Open
    BY <2>1 DEF ListInv, Listed
  <2>2. CASE s \notin Open
    BY <2>2 DEF WordInv, Silent, ListSays
  <2>. QED  BY <2>1, <2>2
<1>. QED  BY <1>1, <1>2, <1>3, <1>4, <1>5, TypeCorrect, PTL DEF Spec
-----------------------------------------------------------------------------
(***************************************************************************)
(* What a step of the session appends to the queue of a connection.  The   *)
(* handlers are gone through once, in Grows; what rests on the messages    *)
(* under way (Announced here, and what the clients show in                 *)
(* ControlNetwork_proofs) is proved from what Grows says and not from the  *)
(* handlers.                                                               *)
(***************************************************************************)
IsAnswer(m) == m.type = "answer"

\* The answer to an acceptance that succeeded.
OkAccept(m) == IsAnswer(m) /\ m.ok /\ m.request.op = "accept"

\* A message that tells a client its own sector, or that it has none.
Names(m) == m.type \in {"added", "deleted"}

Named(m) == IF m.type = "added" THEN m.sector ELSE NoOne

HasSector(t) == \E i \in Sectors : controllers[i] = t

\* Every change of a track or of the staffed sectors is told.
TellsChanges(q) ==
    /\ \A a \in Aircraft : owner'[a] # owner[a] => \E n \in 1 .. Len(q) : Tells(q[n], a)
    /\ Staffed' # Staffed => \E n \in 1 .. Len(q) : IsList(q[n])

\* An acceptance is followed by the word who tracks the aircraft.
AcceptsTold(q) ==
    \A n \in 1 .. Len(q) :
        q[n].type = "handoffAccepted"
        => \E k \in n + 1 .. Len(q) : Tells(q[k], q[n].aircraft)

\* A handoff is requested by a staffed sector, of a connection that has one.
RequestsStaffed(t, q) ==
    \A n \in 1 .. Len(q) :
        q[n].type = "handoffRequested"
        => /\ q[n].controller \in Staffed
           /\ HasSector(t)
           /\ \A k \in 1 .. Len(q) : ~IsList(q[k])

\* The answers are to the requests X; one to an acceptance says what is the case.
AnswersTrue(t, q, X) ==
    \A n \in 1 .. Len(q) :
        /\ IsAnswer(q[n]) => q[n].request \in X
        /\ OkAccept(q[n]) =>
              /\ sockets[t] = q[n].request.to
              /\ owner'[q[n].request.aircraft] = q[n].request.to
              /\ \A k \in 1 .. Len(q) : ~Names(q[k])

\* A connection is told of its sector when it changes, and when only.
PositionTold(t, q) ==
    /\ \A n \in 1 .. Len(q) :
          Names(q[n]) =>
              /\ sockets'[t] = Named(q[n])
              /\ \A k \in 1 .. Len(q) : Names(q[k]) => k = n
    /\ sockets'[t] \notin {sockets[t], NoOne} => \E n \in 1 .. Len(q) : Names(q[n])
    /\ HasSector(t)' => HasSector(t) \/ \E n \in 1 .. Len(q) : IsList(q[n])

\* The position of the sector i has handed the identifier out.
Used(i) == i[2] < counts[i[1]]

\* A sector a connection is told of is one that was not handed out before.
NamesFresh(q) ==
    \A n \in 1 .. Len(q) :
        Names(q[n]) /\ Named(q[n]) # NoOne
        => ~Used(Named(q[n])) /\ Used(Named(q[n]))'

\* The step appends q to the queue of t, and X are the requests it answers.
Appends(t, q, X) ==
    /\ q \in Seq(Message)
    /\ outbox'[t] = outbox[t] \o q
    /\ TellsChanges(q)
    /\ AcceptsTold(q)
    /\ RequestsStaffed(t, q)
    /\ AnswersTrue(t, q, X)
    /\ PositionTold(t, q)
    /\ NamesFresh(q)

Grown(t, X) == \E q \in Seq(Message) : Appends(t, q, X)
-----------------------------------------------------------------------------
\* Sending one, two or three messages appends the sequence of them.
LEMMA AppendsAreConcats ==
    ASSUME NEW p \in Seq(Message), NEW m1 \in Message, NEW m2 \in Message,
           NEW m3 \in Message
    PROVE  /\ p = p \o <<>>
           /\ Append(p, m1) = p \o <<m1>>
           /\ Append(Append(p, m1), m2) = p \o <<m1, m2>>
           /\ Append(Append(Append(p, m1), m2), m3) = p \o <<m1, m2, m3>>
           /\ <<m1>> \in Seq(Message)
           /\ <<m1, m2>> \in Seq(Message)
           /\ <<m1, m2, m3>> \in Seq(Message)
<1>1. p = p \o <<>>
  OBVIOUS
<1>2. Append(p, m1) = p \o <<m1>>
  OBVIOUS
<1>3. Append(Append(p, m1), m2) = p \o <<m1, m2>>
  OBVIOUS
<1>4. Append(Append(Append(p, m1), m2), m3) = p \o <<m1, m2, m3>>
  OBVIOUS
<1>. QED  BY <1>1, <1>2, <1>3, <1>4

LEMMA ConcatAppend ==
    ASSUME NEW p \in Seq(Message), NEW r \in Seq(Message), NEW m \in Message
    PROVE  Append(p \o r, m) = p \o Append(r, m)
OBVIOUS

\* A step that appends nothing and changes no table.
LEMMA GrownByNothing ==
    ASSUME TypeOK, NEW t \in Sockets, NEW X,
           outbox'[t] = outbox[t], UNCHANGED <<sockets, controllers, owner>>
    PROVE  Grown(t, X)
<1> DEFINE q == <<>>
<1>1. q \in Seq(Message) /\ outbox'[t] = outbox[t] \o q /\ Len(q) = 0
  BY AppendsAreConcats DEF TypeOK
<1>2. Staffed' = Staffed /\ (HasSector(t)' <=> HasSector(t))
  BY DEF Staffed, HasSector
<1>. HIDE DEF q
<1>3. Appends(t, q, X)
  BY <1>1, <1>2
     DEF Appends, TellsChanges, AcceptsTold, RequestsStaffed, AnswersTrue, PositionTold,
         NamesFresh
<1>. QED  BY <1>1, <1>3 DEF Grown

\* A step that leaves the sectors alone, and accepts no handoff.
LEMMA GrownQuietly ==
    ASSUME TypeOK, NEW t \in Sockets, NEW X, NEW q \in Seq(Message),
           outbox'[t] = outbox[t] \o q,
           UNCHANGED <<sockets, controllers>>,
           \A a \in Aircraft : owner'[a] # owner[a] => \E n \in 1 .. Len(q) : Tells(q[n], a),
           \A n \in 1 .. Len(q) :
              \/ q[n].type \in {"ownershipClaimed", "blip", "handoffRefused"}
              \/ q[n].type = "handoffRequested" /\ q[n].controller \in Staffed /\ HasSector(t)
              \/ q[n].type = "answer" /\ q[n].request \in X /\ ~OkAccept(q[n])
    PROVE  Grown(t, X)
<1>1. Staffed' = Staffed /\ (HasSector(t)' <=> HasSector(t))
  BY DEF Staffed, HasSector
<1>2. \A n \in 1 .. Len(q) : ~IsList(q[n]) /\ ~Names(q[n]) /\ q[n].type # "handoffAccepted"
  BY DEF IsList, Names
<1>3. TellsChanges(q) /\ AcceptsTold(q) /\ RequestsStaffed(t, q)
  BY <1>1, <1>2 DEF TellsChanges, AcceptsTold, RequestsStaffed
<1>4. AnswersTrue(t, q, X) /\ PositionTold(t, q) /\ NamesFresh(q)
  BY <1>1, <1>2 DEF AnswersTrue, PositionTold, NamesFresh, IsAnswer, OkAccept
<1>. QED  BY <1>3, <1>4 DEF Grown, Appends

\* A step that ends with a list of controllers, after pre.
LEMMA GrownByList ==
    ASSUME TypeOK, NEW t \in Sockets, NEW X, NEW pre \in Seq(Message),
           NEW S \in SUBSET Sectors,
           outbox'[t] = Append(outbox[t] \o pre, Controllers(S)),
           \A n \in 1 .. Len(pre) :
              \/ pre[n].type = "ownershipClaimed"
              \/ Names(pre[n]) /\ n = Len(pre) /\ sockets'[t] = Named(pre[n]),
           \A a \in Aircraft :
              owner'[a] # owner[a] => \E n \in 1 .. Len(pre) : Tells(pre[n], a),
           sockets'[t] \notin {sockets[t], NoOne} => \E n \in 1 .. Len(pre) : Names(pre[n]),
           NamesFresh(pre)
    PROVE  Grown(t, X)
<1> DEFINE m == Controllers(S)
           q == Append(pre, m)
<1>1. m \in Message /\ IsList(m) /\ ~Names(m) /\ m.type = "controllers"
  BY MessageTypes DEF Controllers, IsList, Names
<1>. HIDE DEF m
<1>2. /\ q \in Seq(Message) /\ Len(q) = Len(pre) + 1 /\ Len(pre) \in Nat
      /\ q[Len(q)] = m
      /\ \A n \in 1 .. Len(pre) : q[n] = pre[n]
      /\ outbox'[t] = outbox[t] \o q
  <2>1. outbox[t] \in Seq(Message)
    BY DEF TypeOK
  <2>2. outbox'[t] = outbox[t] \o q
    BY <1>1, <2>1, ConcatAppend DEF m
  <2>. QED  BY <1>1, <2>2
<1>3. \A n \in 1 .. Len(q) : n \in 1 .. Len(pre) \/ q[n] = m
  BY <1>2
<1>. HIDE DEF q
<1>4. Len(q) \in 1 .. Len(q)
  BY <1>2
<1>5. \A n \in 1 .. Len(pre) : n \in 1 .. Len(q)
  BY <1>2
<1>6. \A n \in 1 .. Len(q) :
         \/ q[n].type = "controllers"
         \/ q[n].type = "ownershipClaimed"
         \/ Names(q[n]) /\ n = Len(pre) /\ sockets'[t] = Named(q[n])
  BY <1>1, <1>2, <1>3
<1>7. \A n \in 1 .. Len(q) : q[n].type \notin {"handoffAccepted", "handoffRequested", "answer"}
  BY <1>6 DEF Names
<1>8. \A n \in 1 .. Len(q) :
         Names(q[n]) => n = Len(pre) /\ sockets'[t] = Named(q[n])
  BY <1>6 DEF Names
<1>9. TellsChanges(q)
  BY <1>1, <1>2, <1>4, <1>5 DEF TellsChanges
<1>10. AcceptsTold(q) /\ RequestsStaffed(t, q) /\ AnswersTrue(t, q, X)
  BY <1>7 DEF AcceptsTold, RequestsStaffed, AnswersTrue, IsAnswer, OkAccept
<1>11. PositionTold(t, q)
  <2>1. sockets'[t] \notin {sockets[t], NoOne} => \E n \in 1 .. Len(q) : Names(q[n])
    BY <1>2, <1>5
  <2>2. \E n \in 1 .. Len(q) : IsList(q[n])
    BY <1>1, <1>2, <1>4
  <2>. QED  BY <1>8, <2>1, <2>2 DEF PositionTold
<1>12. NamesFresh(q)
  BY <1>1, <1>2, <1>3 DEF NamesFresh
<1>. QED  BY <1>2, <1>9, <1>10, <1>11, <1>12 DEF Grown, Appends

\* The step gives b to i, and q says so at c, after acceptances, before answers.
ClaimAt(t, q, X, b, i, c) ==
    /\ outbox'[t] = outbox[t] \o q
    /\ UNCHANGED <<sockets, controllers>>
    /\ owner' = [owner EXCEPT ![b] = i]
    /\ c \in 1 .. Len(q)
    /\ q[c] = Claimed(b, i)
    /\ \A n \in 1 .. c - 1 : q[n].type = "handoffAccepted" /\ q[n].aircraft = b
    /\ \A n \in c + 1 .. Len(q) :
          /\ q[n].type = "answer" /\ q[n].request \in X
          /\ q[n].request.op = "accept" =>
                /\ sockets[t] = q[n].request.to
                /\ b = q[n].request.aircraft
                /\ i = q[n].request.to

LEMMA GrownByClaim ==
    ASSUME TypeOK, NEW t \in Sockets, NEW X, NEW q \in Seq(Message),
           NEW b \in Aircraft, NEW i \in Sectors \cup {NoOne}, NEW c,
           ClaimAt(t, q, X, b, i, c)
    PROVE  Grown(t, X)
<1> USE DEF ClaimAt
<1>1. Staffed' = Staffed /\ (HasSector(t)' <=> HasSector(t))
  BY DEF Staffed, HasSector
<1>2. Tells(q[c], b) /\ q[c].type = "ownershipClaimed"
  BY DEF Tells, Claimed
<1>3. \A n \in 1 .. Len(q) : n \in 1 .. c - 1 \/ n = c \/ n \in c + 1 .. Len(q)
  OBVIOUS
<1>4. \A n \in 1 .. Len(q) : q[n].type \in {"handoffAccepted", "ownershipClaimed", "answer"}
  BY <1>2, <1>3
<1>5. \A n \in 1 .. Len(q) : ~IsList(q[n]) /\ ~Names(q[n]) /\ q[n].type # "handoffRequested"
  BY <1>4 DEF IsList, Names
<1>6. owner'[b] = i /\ \A a \in Aircraft : a # b => owner'[a] = owner[a]
  BY DEF TypeOK
<1>7. TellsChanges(q) /\ RequestsStaffed(t, q)
  BY <1>1, <1>2, <1>5, <1>6 DEF TellsChanges, RequestsStaffed
<1>8. AcceptsTold(q)
  <2>. SUFFICES ASSUME NEW n \in 1 .. Len(q), q[n].type = "handoffAccepted"
                PROVE  \E k \in n + 1 .. Len(q) : Tells(q[k], q[n].aircraft)
    BY DEF AcceptsTold
  <2>1. n \in 1 .. c - 1
    BY <1>2, <1>3
  <2>2. c \in n + 1 .. Len(q) /\ q[n].aircraft = b
    BY <2>1
  <2>. QED  BY <1>2, <2>2
<1>9. AnswersTrue(t, q, X)
  <2>1. \A n \in 1 .. Len(q) : IsAnswer(q[n]) => n \in c + 1 .. Len(q)
    BY <1>2, <1>3 DEF IsAnswer
  <2>. QED  BY <1>5, <1>6, <2>1 DEF AnswersTrue, OkAccept
<1>10. PositionTold(t, q)
  BY <1>1, <1>5 DEF PositionTold
<1>11. NamesFresh(q)
  BY <1>5 DEF NamesFresh
<1>. QED  BY <1>7, <1>8, <1>9, <1>10, <1>11 DEF Grown, Appends
-----------------------------------------------------------------------------
LEMMA AddGrows ==
    ASSUME TypeOK, NEW s \in Sockets, NEW r \in AddRequest, AddController(s, r),
           NEW t \in Open, NEW X
    PROVE  Grown(t, X)
<1>1. t \in Sockets /\ outbox[t] \in Seq(Message) /\ sockets[t] \in Sectors \cup {NoOne}
  BY DEF Open, TypeOK
<1>2. CASE AddKnown(s, r)
  <2>1. PICK i : i = <<r.position, counts[r.position]>>
    OBVIOUS
  <2> DEFINE m == [type |-> "added", sector |-> i]
             S == Staffed \cup {i}
  <2>2. i \in Sectors
    BY <1>2, <2>1, ConstantsAssumption DEF AddKnown, Sectors, TypeOK
  <2>3. m \in Message /\ Names(m) /\ Named(m) = i /\ S \in SUBSET Sectors
    BY <2>2 DEF Message, Names, Named, Staffed
  <2>4. /\ outbox' = Broadcast(Emit(outbox, s, m), Open, Controllers(S))
        /\ sockets' = [sockets EXCEPT ![s] = i]
        /\ owner' = owner
    BY <1>2, <2>1 DEF AddKnown
  <2>5. ~Used(i) /\ Used(i)'
    <3>1. counts[r.position] \in Nat /\ counts'[r.position] = counts[r.position] + 1
      BY <1>2, ConstantsAssumption DEF AddKnown, TypeOK
    <3>. QED  BY <2>1, <3>1 DEF Used
  <2>. HIDE DEF m, S
  <2>6. PICK pre : pre = IF t = s THEN <<m>> ELSE <<>>
    OBVIOUS
  <2>7. outbox'[t] = Append(outbox[t] \o pre, Controllers(S))
    BY <1>1, <2>3, <2>4, <2>6, AppendsAreConcats DEF Broadcast, Emit
  <2>8. pre \in Seq(Message)
    BY <2>3, <2>6
  <2>9. /\ \A n \in 1 .. Len(pre) : n = 1 /\ t = s /\ pre[n] = m /\ Len(pre) = 1
        /\ t = s => 1 \in 1 .. Len(pre) /\ pre[1] = m
    BY <2>6
  <2>10. sockets'[t] = IF t = s THEN i ELSE sockets[t]
    BY <1>1, <2>4 DEF TypeOK
  <2>11. \A n \in 1 .. Len(pre) : Names(pre[n]) /\ n = Len(pre) /\ sockets'[t] = Named(pre[n])
    BY <2>3, <2>9, <2>10
  <2>12. sockets'[t] \notin {sockets[t], NoOne} => \E n \in 1 .. Len(pre) : Names(pre[n])
    BY <2>3, <2>9, <2>10
  <2>13. \A n \in 1 .. Len(pre) : Named(pre[n]) = i
    BY <2>3, <2>9
  <2>14. NamesFresh(pre)
    BY <2>5, <2>13 DEF NamesFresh
  <2>. QED  BY <1>1, <2>3, <2>4, <2>7, <2>8, <2>11, <2>12, <2>14, GrownByList
<1>3. CASE AddUnknown(s, r)
  <2> DEFINE pre == <<>>
  <2>1. outbox'[t] = Append(outbox[t] \o pre, Controllers(Staffed))
    BY <1>1, <1>3, AppendsAreConcats DEF AddUnknown, Broadcast
  <2>2. pre \in Seq(Message) /\ Len(pre) = 0 /\ Staffed \in SUBSET Sectors
    BY DEF Staffed
  <2>3. sockets' = sockets /\ owner' = owner
    BY <1>3 DEF AddUnknown
  <2>. HIDE DEF pre
  <2>4. \A n \in 1 .. Len(pre) : FALSE
    BY <2>2
  <2>5. /\ \A a \in Aircraft : owner'[a] = owner[a]
        /\ sockets'[t] = sockets[t]
    BY <2>3
  <2>6. NamesFresh(pre)
    BY <2>4 DEF NamesFresh
  <2>. QED  BY <1>1, <2>1, <2>2, <2>4, <2>5, <2>6, GrownByList
<1>. QED  BY <1>2, <1>3 DEF AddController

\* The notices of a closing sector, with what follows them, before the list.
LEMMA UnstaffGrows ==
    ASSUME TypeOK, NEW s \in Sockets, Unstaff(s), NEW live \in SUBSET Open,
           NEW t \in live, NEW X, NEW S \in SUBSET Sectors, NEW m \in Message,
           Names(m), Named(m) = NoOne,
           outbox'[t] =
              IF t = s THEN Append(Append(ReleaseNotices(s, live)[t], m), Controllers(S))
              ELSE Append(ReleaseNotices(s, live)[t], Controllers(S))
    PROVE  Grown(t, X)
<1> DEFINE rel == Releases(Released(s))
           pre == IF t = s THEN Append(rel, m) ELSE rel
<1>1. t \in Sockets /\ outbox[t] \in Seq(Message) /\ sockets[t] \in Sectors \cup {NoOne}
  BY DEF Open, TypeOK
<1>2. /\ rel \in Seq(Message)
      /\ \A n \in 1 .. Len(rel) : \E a \in Released(s) : rel[n] = Claimed(a, NoOne)
      /\ \A a \in Released(s) : \E n \in 1 .. Len(rel) : rel[n] = Claimed(a, NoOne)
  BY ReleasesShape DEF Released
<1>3. ReleaseNotices(s, live)[t] = outbox[t] \o rel
  BY <1>1 DEF ReleaseNotices
<1>4. \A n \in 1 .. Len(rel) : rel[n].type = "ownershipClaimed"
  <2>1. \A a \in Aircraft : Claimed(a, NoOne).type = "ownershipClaimed"
    BY DEF Claimed
  <2>2. \A a \in Released(s) : a \in Aircraft
    BY DEF Released
  <2>. HIDE DEF rel
  <2>. QED  BY <1>2, <2>1, <2>2
<1>5. \A a \in Aircraft :
         owner'[a] # owner[a] => \E n \in 1 .. Len(rel) : Tells(rel[n], a)
  <2>. SUFFICES ASSUME NEW a \in Aircraft, owner'[a] # owner[a]
                PROVE  \E n \in 1 .. Len(rel) : Tells(rel[n], a)
    OBVIOUS
  <2>1. a \in Released(s)
    BY DEF Unstaff
  <2>2. Tells(Claimed(a, NoOne), a)
    BY DEF Tells, Claimed
  <2>. QED  BY <1>2, <2>1, <2>2
<1>6. sockets'[t] = IF t = s THEN NoOne ELSE sockets[t]
  BY <1>1 DEF Unstaff, TypeOK
<1>. HIDE DEF rel
<1>7. /\ pre \in Seq(Message)
      /\ Len(rel) \in Nat
      /\ Len(pre) = IF t = s THEN Len(rel) + 1 ELSE Len(rel)
      /\ \A n \in 1 .. Len(rel) : pre[n] = rel[n]
      /\ t = s => pre[Len(pre)] = m
  BY <1>2
<1>8. outbox'[t] = Append(outbox[t] \o pre, Controllers(S))
  BY <1>1, <1>2, <1>3, ConcatAppend
<1>. HIDE DEF pre
<1>9. \A n \in 1 .. Len(pre) : n \in 1 .. Len(rel) \/ (n = Len(pre) /\ t = s)
  BY <1>7
<1>10. \A n \in 1 .. Len(rel) : n \in 1 .. Len(pre)
  BY <1>7
<1>11. \A n \in 1 .. Len(pre) :
          \/ pre[n].type = "ownershipClaimed"
          \/ Names(pre[n]) /\ n = Len(pre) /\ sockets'[t] = Named(pre[n])
  BY <1>4, <1>6, <1>7, <1>9
<1>12. \A a \in Aircraft :
          owner'[a] # owner[a] => \E n \in 1 .. Len(pre) : Tells(pre[n], a)
  BY <1>5, <1>7, <1>10
<1>13. sockets'[t] \in {sockets[t], NoOne}
  BY <1>6
<1>14. NamesFresh(pre)
  BY <1>4, <1>7, <1>9 DEF NamesFresh, Names
<1>. QED  BY <1>1, <1>7, <1>8, <1>11, <1>12, <1>13, <1>14, GrownByList

LEMMA DeleteGrows ==
    ASSUME TypeOK, NEW s \in Sockets, NEW r \in DeleteRequest, DeleteController(s, r),
           NEW t \in Open, NEW X
    PROVE  Grown(t, X)
<1> DEFINE m == [type |-> "deleted", position |-> r.position]
           notices == ReleaseNotices(s, Open)
           S == Staffed \ {sockets[s]}
<1>1. /\ s \in Open /\ t \in Sockets /\ Unstaff(s)
      /\ outbox' = Broadcast(Emit(notices, s, m), Open, Controllers(S))
  BY DEF DeleteController, Open
<1>2. m \in Message /\ Names(m) /\ Named(m) = NoOne /\ S \in SUBSET Sectors
  BY DEF Message, DeleteRequest, Names, Named, Staffed
<1>. HIDE DEF m, S
<1>3. outbox'[t] = IF t = s THEN Append(Append(notices[t], m), Controllers(S))
                   ELSE Append(notices[t], Controllers(S))
  BY <1>1 DEF Broadcast, Emit
<1>. QED  BY <1>1, <1>2, <1>3, UnstaffGrows

LEMMA DisconnectGrows ==
    ASSUME TypeOK, NEW s \in Sockets, Disconnect(s), NEW t \in Open \ {s}, NEW X
    PROVE  Grown(t, X)
<1> DEFINE m == [type |-> "deleted", position |-> BadPosition]
           live == Open \ {s}
           S == Staffed \ {sockets[s]}
<1>1. /\ t \in Sockets /\ Unstaff(s)
      /\ outbox' = [Broadcast(ReleaseNotices(s, live), live, Controllers(S))
                       EXCEPT ![s] = <<>>]
  BY DEF Disconnect, Open
<1>2. m \in Message /\ Names(m) /\ Named(m) = NoOne /\ S \in SUBSET Sectors
  BY DEF Message, Names, Named, Staffed
<1>3. outbox'[t] = Append(ReleaseNotices(s, live)[t], Controllers(S))
  BY <1>1 DEF Broadcast
<1>. HIDE DEF m, S
<1>. QED  BY <1>1, <1>2, <1>3, UnstaffGrows
-----------------------------------------------------------------------------
LEMMA RefusalGrows ==
    ASSUME TypeOK, NEW s \in Sockets, NEW r \in TrackRequest \cup HandoffRequest,
           Refuse(s, r), NEW t \in Open, NEW X, t = s => r \in X
    PROVE  Grown(t, X)
<1> DEFINE m == Answer(r, FALSE)
           q == IF t = s THEN <<m>> ELSE <<>>
<1>1. t \in Sockets /\ outbox[t] \in Seq(Message) /\ UNCHANGED <<sockets, controllers, owner>>
  BY DEF Open, TypeOK, Refuse
<1>2. m \in Message /\ m.type = "answer" /\ m.request = r /\ ~OkAccept(m)
  BY MessageTypes DEF Answer, OkAccept
<1>3. outbox'[t] = IF t = s THEN Append(outbox[t], m) ELSE outbox[t]
  BY DEF Refuse, Emit, Open
<1>. HIDE DEF m
<1>4. q \in Seq(Message) /\ outbox'[t] = outbox[t] \o q
  <2>1. CASE t = s
    BY <1>1, <1>2, <1>3, <2>1, AppendsAreConcats
  <2>2. CASE t # s
    BY <1>1, <1>2, <1>3, <2>2, AppendsAreConcats
  <2>. QED  BY <2>1, <2>2
<1>5. \A n \in 1 .. Len(q) : q[n] = m /\ t = s
  OBVIOUS
<1>. HIDE DEF q
<1>. QED  BY <1>1, <1>2, <1>4, <1>5, GrownQuietly

LEMMA TrackGrows ==
    ASSUME TypeOK, NEW s \in Sockets, NEW r \in TrackRequest,
           InitiateControl(s, r) \/ TerminateControl(s, r),
           NEW t \in Open, NEW X, t = s => r \in X
    PROVE  Grown(t, X)
<1>1. CASE Refuse(s, r)
  BY <1>1, RefusalGrows
<1>2. CASE ~Refuse(s, r)
  <2> DEFINE b == r.aircraft
             m == Answer(r, TRUE)
  <2>1. b \in Aircraft /\ r.controller \in Sectors /\ r.op # "accept"
    BY DEF TrackRequest
  <2>2. PICK i \in Sectors \cup {NoOne} :
           /\ owner' = [owner EXCEPT ![b] = i]
           /\ outbox' = Emit(Broadcast(outbox, Open, Claimed(b, i)), s, m)
           /\ UNCHANGED <<sockets, controllers>>
    BY <1>2, <2>1 DEF InitiateControl, TerminateControl
  <2> DEFINE c == Claimed(b, i)
             q == IF t = s THEN <<c, m>> ELSE <<c>>
  <2>3. m \in Message /\ m.type = "answer" /\ m.request = r /\ c \in Message
    BY <2>1, MessageTypes DEF Answer
  <2>4. t \in Sockets /\ outbox[t] \in Seq(Message)
    BY DEF Open, TypeOK
  <2>5. outbox'[t] = IF t = s THEN Append(Append(outbox[t], c), m)
                     ELSE Append(outbox[t], c)
    BY <2>2, <2>4 DEF Emit, Broadcast
  <2>. HIDE DEF c, m, b
  <2>6. q \in Seq(Message) /\ outbox'[t] = outbox[t] \o q
    BY <2>3, <2>4, <2>5, AppendsAreConcats
  <2>7. /\ 1 \in 1 .. Len(q) /\ q[1] = c
        /\ \A n \in 2 .. Len(q) : q[n] = m /\ t = s
    OBVIOUS
  <2>. HIDE DEF q
  <2>8. ClaimAt(t, q, X, b, i, 1)
    BY <2>1, <2>2, <2>3, <2>6, <2>7 DEF ClaimAt, c
  <2>. QED  BY <2>1, <2>4, <2>6, <2>8, GrownByClaim
<1>. QED  BY <1>1, <1>2

\* A request or a refusal is forwarded to the connection u.
LEMMA ForwardGrows ==
    ASSUME TypeOK, NEW s \in Sockets, NEW r \in HandoffRequest, NEW u,
           NEW e \in {"handoffRequested", "handoffRefused"},
           outbox' = Emit(Emit(outbox, u, Handoff(e, r)), s, Answer(r, TRUE)),
           UNCHANGED <<sockets, controllers, owner>>,
           r.op # "accept",
           e = "handoffRequested" => r.controller \in Staffed,
           NEW t \in Open, t = u => HasSector(t), NEW X, t = s => r \in X
    PROVE  Grown(t, X)
<1> DEFINE h == Handoff(e, r)
           m == Answer(r, TRUE)
           q == IF t = u THEN IF t = s THEN <<h, m>> ELSE <<h>>
                ELSE IF t = s THEN <<m>> ELSE <<>>
<1>1. t \in Sockets /\ outbox[t] \in Seq(Message)
  BY DEF Open, TypeOK
<1>2. /\ m \in Message /\ m.type = "answer" /\ m.request = r /\ ~OkAccept(m)
      /\ h \in Message /\ h.type = e /\ h.controller = r.controller
  BY MessageTypes DEF Answer, OkAccept, Handoff
<1>3. outbox'[t] =
         IF t = s THEN Append(IF t = u THEN Append(outbox[t], h) ELSE outbox[t], m)
         ELSE IF t = u THEN Append(outbox[t], h) ELSE outbox[t]
  BY <1>1 DEF Emit
<1>. HIDE DEF m, h
<1>4. q \in Seq(Message) /\ outbox'[t] = outbox[t] \o q
  <2>1. CASE t = u /\ t = s
    BY <1>1, <1>2, <1>3, <2>1, AppendsAreConcats
  <2>2. CASE t = u /\ t # s
    BY <1>1, <1>2, <1>3, <2>2, AppendsAreConcats
  <2>3. CASE t # u /\ t = s
    BY <1>1, <1>2, <1>3, <2>3, AppendsAreConcats
  <2>4. CASE t # u /\ t # s
    <3>1. q = <<>> /\ outbox'[t] = outbox[t]
      BY <1>3, <2>4
    <3>2. outbox[t] = outbox[t] \o <<>> /\ <<>> \in Seq(Message)
      BY <1>1
    <3>. HIDE DEF q
    <3>. QED  BY <3>1, <3>2
  <2>. QED  BY <2>1, <2>2, <2>3, <2>4
<1>5. \A n \in 1 .. Len(q) : (q[n] = m /\ t = s) \/ (q[n] = h /\ t = u)
  OBVIOUS
<1>. HIDE DEF q
<1>6. \A n \in 1 .. Len(q) :
         \/ q[n].type \in {"ownershipClaimed", "blip", "handoffRefused"}
         \/ q[n].type = "handoffRequested" /\ q[n].controller \in Staffed /\ HasSector(t)
         \/ q[n].type = "answer" /\ q[n].request \in X /\ ~OkAccept(q[n])
  BY <1>2, <1>5
<1>. QED  BY <1>1, <1>4, <1>6, GrownQuietly

LEMMA AcceptGrows ==
    ASSUME TypeOK, NEW s \in Sockets, NEW r \in HandoffRequest, AcceptHandoff(s, r),
           NEW t \in Open, NEW X, t = s => r \in X
    PROVE  Grown(t, X)
<1>1. CASE Refuse(s, r)
  BY <1>1, RefusalGrows
<1>2. CASE ~Refuse(s, r)
  <2> DEFINE b == r.aircraft
             u == controllers[r.controller]
             h == Handoff("handoffAccepted", r)
             c == Claimed(b, r.to)
             m == Answer(r, TRUE)
             q == IF t = u THEN IF t = s THEN <<h, c, m>> ELSE <<h, c>>
                  ELSE IF t = s THEN <<c, m>> ELSE <<c>>
             p == IF t = u THEN 2 ELSE 1
  <2>1. b \in Aircraft /\ r.to \in Sectors
    BY DEF HandoffRequest
  <2>2. /\ owner' = [owner EXCEPT ![b] = r.to]
        /\ outbox' = Emit(Broadcast(Emit(outbox, u, h), Open, c), s, m)
        /\ UNCHANGED <<sockets, controllers>>
        /\ sockets[s] = r.to
    BY <1>2 DEF AcceptHandoff, CanReply, Speaks
  <2>3. /\ m \in Message /\ m.type = "answer" /\ m.request = r
        /\ h \in Message /\ h.type = "handoffAccepted" /\ h.aircraft = b
        /\ c \in Message
    BY <2>1, MessageTypes DEF Answer, Handoff
  <2>4. t \in Sockets /\ outbox[t] \in Seq(Message)
    BY DEF Open, TypeOK
  <2>5. outbox'[t] =
           IF t = s
           THEN Append(Append(IF t = u THEN Append(outbox[t], h) ELSE outbox[t], c), m)
           ELSE Append(IF t = u THEN Append(outbox[t], h) ELSE outbox[t], c)
    BY <2>2, <2>4 DEF Emit, Broadcast
  <2>. HIDE DEF c, m, h, u
  <2>6. q \in Seq(Message) /\ outbox'[t] = outbox[t] \o q
    BY <2>3, <2>4, <2>5, AppendsAreConcats
  <2>7. /\ p \in 1 .. Len(q) /\ q[p] = c
        /\ \A n \in 1 .. p - 1 : q[n] = h
        /\ \A n \in p + 1 .. Len(q) : q[n] = m /\ t = s
    <3>1. CASE t = u
      BY <3>1
    <3>2. CASE t # u
      BY <3>2
    <3>. QED  BY <3>1, <3>2
  <2>. HIDE DEF q, p, b
  <2>8. \A n \in 1 .. p - 1 : q[n].type = "handoffAccepted" /\ q[n].aircraft = b
    BY <2>3, <2>7
  <2>9. \A n \in p + 1 .. Len(q) :
           /\ q[n].type = "answer" /\ q[n].request \in X
           /\ sockets[t] = q[n].request.to
           /\ b = q[n].request.aircraft
           /\ r.to = q[n].request.to
    BY <2>2, <2>3, <2>7 DEF b
  <2>10. ClaimAt(t, q, X, b, r.to, p)
    BY <2>2, <2>6, <2>7, <2>8, <2>9 DEF ClaimAt, c
  <2>. QED  BY <2>1, <2>4, <2>6, <2>10, GrownByClaim
<1>. QED  BY <1>1, <1>2

LEMMA HandoffGrows ==
    ASSUME TypeOK, NEW s \in Sockets, NEW r \in HandoffRequest,
           \/ r.op = "request" /\ RequestHandoff(s, r)
           \/ r.op = "accept" /\ AcceptHandoff(s, r)
           \/ r.op = "refuse" /\ RefuseHandoff(s, r),
           NEW t \in Open, NEW X, t = s => r \in X
    PROVE  Grown(t, X)
<1>1. CASE Refuse(s, r)
  BY <1>1, RefusalGrows
<1>2. CASE ~Refuse(s, r) /\ r.op = "request" /\ RequestHandoff(s, r)
  <2>1. /\ outbox' = Emit(Emit(outbox, controllers[r.to], Handoff("handoffRequested", r)),
                          s, Answer(r, TRUE))
        /\ UNCHANGED <<sockets, controllers, owner>>
        /\ r.controller \in Staffed
    BY <1>2 DEF RequestHandoff, CanRequest, Speaks
  <2>2. t = controllers[r.to] => HasSector(t)
    BY DEF HasSector, HandoffRequest
  <2>. QED  BY <1>2, <2>1, <2>2, ForwardGrows
<1>3. CASE ~Refuse(s, r) /\ r.op = "refuse" /\ RefuseHandoff(s, r)
  <2>1. /\ outbox' = Emit(Emit(outbox, controllers[r.controller],
                               Handoff("handoffRefused", r)), s, Answer(r, TRUE))
        /\ UNCHANGED <<sockets, controllers, owner>>
    BY <1>3 DEF RefuseHandoff
  <2>2. t = controllers[r.controller] => HasSector(t)
    BY DEF HasSector, HandoffRequest
  <2>. QED  BY <1>3, <2>1, <2>2, ForwardGrows
<1>. QED  BY <1>1, <1>2, <1>3, AcceptGrows

LEMMA BlipGrows ==
    ASSUME TypeOK, NEW a \in Aircraft, Blip(a), NEW t \in Open, NEW X
    PROVE  Grown(t, X)
<1> DEFINE m == [type |-> "blip", aircraft |-> a, controller |-> owner[a]]
           q == <<m>>
<1>1. m \in Message /\ m.type = "blip"
  BY DEF Message, TypeOK
<1>2. /\ t \in Sockets /\ outbox[t] \in Seq(Message)
      /\ outbox'[t] = Append(outbox[t], m)
      /\ UNCHANGED <<sockets, controllers, owner>>
  BY DEF Open, TypeOK, Blip, Broadcast
<1>. HIDE DEF m
<1>3. /\ q \in Seq(Message) /\ outbox'[t] = outbox[t] \o q
      /\ \A n \in 1 .. Len(q) : q[n] = m
  BY <1>1, <1>2, AppendsAreConcats
<1>. HIDE DEF q
<1>. QED  BY <1>1, <1>2, <1>3, GrownQuietly
-----------------------------------------------------------------------------
\* The only steps that do not append to the queue of an open connection are
\* the delivery of its oldest message, and its end.
LEMMA Grows ==
    ASSUME TypeOK, [Next]_sessionVars, NEW t \in Open
    PROVE  \/ Deliver(t)
           \/ Disconnect(t)
           \/ \E X : Grown(t, X)
<1>1. t \in Sockets
  BY DEF Open
<1>2. ASSUME NEW s \in Sockets, Handle(s)
      PROVE  \E X : Grown(t, X)
  <2>1. ASSUME NEW r \in AddRequest, AddController(s, r)
        PROVE  \E X : Grown(t, X)
    BY <2>1, AddGrows
  <2>2. ASSUME NEW r \in DeleteRequest, DeleteController(s, r)
        PROVE  \E X : Grown(t, X)
    BY <2>2, DeleteGrows
  <2>3. ASSUME NEW r \in TrackRequest, InitiateControl(s, r) \/ TerminateControl(s, r)
        PROVE  \E X : Grown(t, X)
    <3>1. Grown(t, {r})
      BY <2>3, TrackGrows
    <3>. QED  BY <3>1
  <2>4. ASSUME NEW r \in HandoffRequest,
               \/ r.op = "request" /\ RequestHandoff(s, r)
               \/ r.op = "accept" /\ AcceptHandoff(s, r)
               \/ r.op = "refuse" /\ RefuseHandoff(s, r)
        PROVE  \E X : Grown(t, X)
    <3>1. Grown(t, {r})
      BY <2>4, HandoffGrows
    <3>. QED  BY <3>1
  <2>. QED  BY <1>2, <2>1, <2>2, <2>3, <2>4 DEF Handle
<1>3. ASSUME NEW s \in Sockets, Disconnect(s), s # t
      PROVE  \E X : Grown(t, X)
  BY <1>3, DisconnectGrows
<1>4. ASSUME NEW s \in Sockets, Connect(s) \/ (Deliver(s) /\ s # t)
      PROVE  \E X : Grown(t, X)
  <2>1. outbox'[t] = outbox[t] /\ UNCHANGED <<sockets, controllers, owner>>
    BY <1>1, <1>4 DEF Connect, Deliver, TypeOK
  <2>. QED  BY <1>1, <2>1, GrownByNothing
<1>5. ASSUME NEW a \in Aircraft, Blip(a)
      PROVE  \E X : Grown(t, X)
  BY <1>5, BlipGrows
<1>6. CASE UNCHANGED sessionVars
  BY <1>1, <1>6, GrownByNothing DEF sessionVars
<1>. QED  BY <1>2, <1>3, <1>4, <1>5, <1>6 DEF Next

\* What is in the queue that is appended is in the queue.
LEMMA InConcat ==
    ASSUME NEW p \in Seq(Message), NEW q \in Seq(Message), NEW n \in 1 .. Len(q)
    PROVE  /\ Len(p) + n \in 1 .. Len(p \o q)
           /\ (p \o q)[Len(p) + n] = q[n]
OBVIOUS

(***************************************************************************)
(* Every step that changes who tracks an aircraft, or which sectors are    *)
(* staffed, leaves a message about it under way to every connection that   *)
(* stays open.                                                             *)
(***************************************************************************)
THEOREM AnnouncedCorrect == Spec => Announced
<1> DEFINE Told ==
       \A s \in Open \cap Open' :
          /\ \A a \in Aircraft : owner'[a] # owner[a] =>
                \E n \in 1 .. Len(outbox'[s]) : Tells(outbox'[s][n], a)
          /\ Staffed' # Staffed =>
                \E n \in 1 .. Len(outbox'[s]) : outbox'[s][n].type = "controllers"
<1>1. TypeOK /\ [Next]_sessionVars => [Told]_sessionVars
  <2>. SUFFICES ASSUME TypeOK, [Next]_sessionVars, NEW s \in Open \cap Open'
                PROVE  /\ \A a \in Aircraft : owner'[a] # owner[a] =>
                             \E n \in 1 .. Len(outbox'[s]) : Tells(outbox'[s][n], a)
                       /\ Staffed' # Staffed =>
                             \E n \in 1 .. Len(outbox'[s]) :
                                outbox'[s][n].type = "controllers"
    OBVIOUS
  <2>1. s \in Sockets /\ outbox[s] \in Seq(Message)
    BY DEF Open, TypeOK
  <2>2. CASE Deliver(s)
    BY <2>2 DEF Deliver, Staffed
  <2>3. ~Disconnect(s)
    BY <2>1 DEF Disconnect, Open, TypeOK
  <2>4. ASSUME NEW X, NEW q \in Seq(Message), Appends(s, q, X)
        PROVE  /\ \A a \in Aircraft : owner'[a] # owner[a] =>
                     \E n \in 1 .. Len(outbox'[s]) : Tells(outbox'[s][n], a)
               /\ Staffed' # Staffed =>
                     \E n \in 1 .. Len(outbox'[s]) : outbox'[s][n].type = "controllers"
    <3>1. outbox'[s] = outbox[s] \o q /\ TellsChanges(q)
      BY <2>4 DEF Appends
    <3>2. \A n \in 1 .. Len(q) :
             \E k \in 1 .. Len(outbox'[s]) : outbox'[s][k] = q[n]
      <4>1. TAKE n \in 1 .. Len(q)
      <4>2. /\ Len(outbox[s]) + n \in 1 .. Len(outbox[s] \o q)
            /\ (outbox[s] \o q)[Len(outbox[s]) + n] = q[n]
        BY <2>1, InConcat
      <4>. QED  BY <3>1, <4>2
    <3>. QED  BY <3>1, <3>2 DEF TellsChanges, IsList
  <2>. QED  BY <2>2, <2>3, <2>4, Grows DEF Grown
<1>. QED  BY <1>1, TypeCorrect, PTL DEF Spec, Announced
=============================================================================
