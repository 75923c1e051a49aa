--------------------------- MODULE FsdUsers_proofs ---------------------------
(***************************************************************************)
(* What is proved of the users of a server, for every value of the         *)
(* constants.  The inductive invariant is the conjunction of the four      *)
(* properties: the pointers need the types and the uniqueness of the heap's*)
(* places, the limit needs the counter.                                    *)
(***************************************************************************)
EXTENDS FsdUsers, FiniteSetTheorems, TLAPS

User == [killed : BOOLEAN, timeout : BOOLEAN,
         client : Objects \cup {NoClient}, idle : Nat, pinged : Nat]

Served == {u \in online : ~user[u].killed}

UsersInv == UsersTypeOK /\ PrivateClients /\ UniqueCallsigns /\ WithinLimit

\* A step of the users that allocates no client: pointers stay, kills stay.
Quiet ==
    /\ user' \in [Users -> User]
    /\ \A u \in Users : user'[u].client = user[u].client
    /\ \A u \in Users : user[u].killed => user'[u].killed
    /\ heap' = heap

\* A login that is accepted.
Registered(u) ==
    \E o \in Objects \ Live, c \in Callsigns, n \in Nat :
        /\ ~InUse(c)
        /\ heap' = [heap EXCEPT ![o] = [callsign |-> c, here |-> TRUE, rating |-> n]]
        /\ user' = [user EXCEPT ![u] = [Active(u) EXCEPT !.client = o]]

(***************************************************************************)
(* A line that is heard only resets ages and kills (cluser::parse).        *)
(***************************************************************************)
LEMMA HeardQuiet ==
    ASSUME UsersTypeOK, NEW u \in Users, NEW gone, Heard(u, gone), heap' = heap
    PROVE  Quiet
<1> DEFINE W(v) == IF v = u THEN Active(u) ELSE user[v]
<1>1. \A v \in Users : W(v) \in User /\ W(v).client = user[v].client
                       /\ W(v).killed = user[v].killed
  BY DEF UsersTypeOK, Active, User
<1>2. user' = [v \in Users |-> IF v \in gone THEN [W(v) EXCEPT !.killed = TRUE] ELSE W(v)]
  BY DEF Heard
<1> HIDE DEF W
<1>3. \A v \in Users : /\ user'[v] \in User
                       /\ user'[v].client = W(v).client
                       /\ W(v).killed => user'[v].killed
  BY <1>1, <1>2 DEF User
<1>4. user' \in [Users -> User]
  BY <1>2, <1>3
<1> QED  BY <1>1, <1>3, <1>4 DEF Quiet

(***************************************************************************)
(* A login is refused, or it registers a callsign that nobody uses.        *)
(***************************************************************************)
LEMMA LogInOutcome ==
    ASSUME UsersTypeOK, NEW u \in Users, NEW l, IsLogin(l), NEW level \in Int,
           LogIn(u, l, level)
    PROVE  Quiet \/ Registered(u)
<1>1. CASE l.fit /\ ~InUse(l.callsign) /\ level > 0 /\ level >= l.req
  <2>1. level \in Nat
    BY <1>1
  <2>2. Register(u, l.callsign, level)
    BY <1>1 DEF LogIn
  <2> QED  BY <1>1, <2>1, <2>2 DEF Register, Registered, IsLogin
<1>2. CASE ~(l.fit /\ ~InUse(l.callsign) /\ level > 0 /\ level >= l.req)
  BY <1>2, HeardQuiet DEF LogIn
<1> QED  BY <1>1, <1>2

LEMMA LevelIsInt ==
    ASSUME NEW l, IsLogin(l)
    PROVE  CheckLogin(l) \in Int /\ ControllerLevel(l) \in Int
  BY DEF IsLogin, CheckLogin, ControllerLevel, Levels, NoCid, BadPassword

(***************************************************************************)
(* Every line of a user is quiet or an accepted login (cluser::doparse).   *)
(***************************************************************************)
LEMMA ObeyOutcome ==
    ASSUME UsersTypeOK, NEW u \in Users, NEW l \in Lines, Obey(u, l)
    PROVE  Quiet \/ Registered(u)
<1>1. CASE l.cmd = "AA"
  <2>1. IsLogin(l) /\ ExecAA(u, l)
    BY <1>1, UsersAssumption DEF Obey
  <2> QED  BY <2>1, LevelIsInt, LogInOutcome, HeardQuiet DEF ExecAA
<1>2. CASE l.cmd = "AP"
  <2>1. IsLogin(l) /\ ExecAP(u, l)
    BY <1>2, UsersAssumption DEF Obey
  <2> QED  BY <2>1, LevelIsInt, LogInOutcome DEF ExecAP
<1>3. CASE l.cmd \notin {"AA", "AP"}
  <2>1. heap' = heap /\ \E gone : Heard(u, gone)
    <3>1. ExecD(u, l) \/ ExecKill(u, l) \/ (Heard(u, {}) /\ UNCHANGED heap)
      BY <1>3 DEF Obey
    <3> QED  BY <3>1 DEF ExecD, ExecKill
  <2> QED  BY <2>1, HeardQuiet
<1> QED  BY <1>1, <1>2, <1>3-----------------------------------------------------------------------------
LEMMA TypeInit == Init => UsersTypeOK
<1> SUFFICES ASSUME Init PROVE UsersTypeOK
  OBVIOUS
<1>1. Fresh \in User
  BY DEF Fresh, User
<1>2. <<>> \in Seq(Lines)
  OBVIOUS
<1>3. /\ user \in [Users -> User]
      /\ wire \in [Users -> Seq(Lines)]
      /\ inbuf \in [Users -> Seq(Lines)]
      /\ heap \in [Objects -> Client \cup {Freed}]
  BY <1>1, <1>2 DEF Init
<1>4. limit \in Limits /\ 0 \in 0 .. Burst - 1
  BY UsersAssumption DEF Init
<1> QED  BY <1>3, <1>4 DEF Init, UsersTypeOK, User

(***************************************************************************)
(* A login that is accepted keeps the types.                               *)
(***************************************************************************)
LEMMA RegisteredTypes ==
    ASSUME UsersTypeOK, NEW u \in Users, Registered(u)
    PROVE  user' \in [Users -> User] /\ heap' \in [Objects -> Client \cup {Freed}]
<1>1. PICK o \in Objects \ Live, c \in Callsigns, n \in Nat :
         /\ heap' = [heap EXCEPT ![o] = [callsign |-> c, here |-> TRUE, rating |-> n]]
         /\ user' = [user EXCEPT ![u] = [Active(u) EXCEPT !.client = o]]
  BY DEF Registered
<1>2. [Active(u) EXCEPT !.client = o] \in User
  BY DEF Active, UsersTypeOK, User
<1>3. [callsign |-> c, here |-> TRUE, rating |-> n] \in Client
  BY DEF Client
<1> QED  BY <1>1, <1>2, <1>3 DEF UsersTypeOK, User

\* Only three actions look at more than the users: the turns and the checks.
LEMMA BeginTypes ==
    ASSUME UsersTypeOK, NEW u \in Users, Begin(u)
    PROVE  UsersTypeOK'
<1>1. user' \in [Users -> User]
  BY DEF User, UsersTypeOK, Begin
<1>2. /\ wire' \in [Users -> Seq(Lines)]
      /\ inbuf' \in [Users -> Seq(Lines)]
      /\ inbuf'[u] = inbuf[u] \o wire[u]
  <2>1. inbuf[u] \in Seq(Lines) /\ wire[u] \in Seq(Lines)
    BY DEF UsersTypeOK
  <2>2. <<>> \in Seq(Lines) /\ inbuf[u] \o wire[u] \in Seq(Lines)
    BY <2>1
  <2> QED  BY <2>2 DEF UsersTypeOK, Begin
<1>3. turn' \in online' \cup {Nobody} /\ (turn' # Nobody => inbuf'[turn'] # <<>>)
  BY <1>2 DEF UsersTypeOK, Begin
<1> QED  BY <1>1, <1>2, <1>3 DEF UsersTypeOK, Begin, User

LEMMA ParseTypes ==
    ASSUME UsersTypeOK, NEW u \in Users, Parse(u)
    PROVE  UsersTypeOK' /\ (Quiet \/ Registered(u))
<1>1. /\ turn = u /\ inbuf[u] # <<>> /\ inbuf[u] \in Seq(Lines)
      /\ u \in online
  BY UsersAssumption DEF UsersTypeOK, Parse
<1>2. Head(inbuf[u]) \in Lines /\ Tail(inbuf[u]) \in Seq(Lines)
  BY <1>1
<1>3. Quiet \/ Registered(u)
  BY <1>2, ObeyOutcome DEF Parse
<1>4. user' \in [Users -> User] /\ heap' \in [Objects -> Client \cup {Freed}]
  <2>1. CASE Quiet
    BY <2>1 DEF Quiet, UsersTypeOK
  <2>2. CASE Registered(u)
    BY <2>2, RegisteredTypes
  <2> QED  BY <1>3, <2>1, <2>2
<1>5. /\ inbuf' \in [Users -> Seq(Lines)]
      /\ turn' \in online' \cup {Nobody}
      /\ turn' # Nobody => inbuf'[turn'] # <<>>
  BY <1>1, <1>2 DEF UsersTypeOK, Parse
<1>6. obeyed' \in 0 .. Burst - 1
  BY UsersAssumption DEF UsersTypeOK, Parse
<1>7. UNCHANGED <<online, closed, wire, limit, current, due, stage, todo>>
  BY DEF Parse
<1> QED  BY <1>3, <1>4, <1>5, <1>6, <1>7 DEF UsersTypeOK, User

LEMMA DropLineTypes ==
    ASSUME UsersTypeOK, NEW u \in Users, DropLine(u)
    PROVE  UsersTypeOK'
<1>1. /\ inbuf[u] # <<>> /\ inbuf[u] \in Seq(Lines)
  BY UsersAssumption DEF UsersTypeOK, DropLine
<1>2. Tail(inbuf[u]) \in Seq(Lines)
  BY <1>1
<1> QED  BY <1>2, UsersAssumption DEF UsersTypeOK, DropLine

LEMMA AcceptTypes ==
    ASSUME UsersTypeOK, NEW u \in Users, Accept(u)
    PROVE  UsersTypeOK'
<1> DEFINE full == limit <= current
<1>1. full \in BOOLEAN
  OBVIOUS
<1>2. user' = [user EXCEPT ![u] = [Fresh EXCEPT !.killed = full]]
  BY DEF Accept
<1> HIDE DEF full
<1>3. [Fresh EXCEPT !.killed = full] \in User
  BY <1>1 DEF Fresh, User
<1>4. user' \in [Users -> User]
  BY <1>2, <1>3 DEF UsersTypeOK, User
<1> QED  BY <1>4 DEF UsersTypeOK, Accept, User

LEMMA RemoveTypes ==
    ASSUME UsersTypeOK, WithinLimit, NEW u \in Users, Remove(u)
    PROVE  UsersTypeOK'
<1>1. user' \in [Users -> User]
  BY DEF UsersTypeOK, Remove, User, Fresh
<1>2. heap' \in [Objects -> Client \cup {Freed}]
  BY DEF UsersTypeOK, Remove
<1>3. current' \in Nat
  <2>1. IsFiniteSet(online) /\ u \in online
    BY UsersAssumption, FS_Subset DEF UsersTypeOK, Remove
  <2>2. current > 0
    BY <2>1, FS_EmptySet, FS_CardinalityType DEF WithinLimit, UsersTypeOK
  <2> QED  BY <2>2 DEF Remove, UsersTypeOK
<1>4. wire' \in [Users -> Seq(Lines)] /\ inbuf' \in [Users -> Seq(Lines)]
  BY DEF UsersTypeOK, Remove
<1> QED  BY <1>1, <1>2, <1>3, <1>4, UsersAssumption DEF UsersTypeOK, Remove, User

LEMMA CheckedTypes ==
    ASSUME NEW w \in User
    PROVE  /\ Checked(w) \in User
           /\ Checked(w).client = w.client
           /\ w.killed => Checked(w).killed
  BY DEF Checked, User

\* The checks, time, kills by other servers and the write errors.
LEMMA QuietSteps ==
    ASSUME UsersTypeOK,
           \/ Poll
           \/ \E u \in Users : Begin(u) \/ Flood(u) \/ DropLine(u) \/ HangUp(u)
                                \/ WriteFails(u)
           \/ \E u \in Users, lines \in Writes : Send(u, lines)
           \/ EndPass
           \/ Tick
           \/ \E c \in Callsigns : RemoteKills(c)
           \/ UNCHANGED usersVars
    PROVE  Quiet /\ UNCHANGED <<online, limit, current>>
<1> USE DEF Quiet
<1>0. user \in [Users -> User]
  BY DEF UsersTypeOK, User
<1>1. CASE Poll
  BY <1>0, <1>1 DEF Poll
<1>2. ASSUME NEW u \in Users, Begin(u) \/ Flood(u) \/ WriteFails(u)
      PROVE  Quiet /\ UNCHANGED <<online, limit, current>>
  <2>1. PICK b \in BOOLEAN : user' = [user EXCEPT ![u].killed = b]
    BY <1>2 DEF Begin, Flood, WriteFails
  <2>2. ~user[u].killed /\ UNCHANGED <<heap, online, limit, current>>
    BY <1>2 DEF Begin, Flood, WriteFails
  <2> QED  BY <1>0, <2>1, <2>2 DEF User
<1>3. ASSUME NEW u \in Users, DropLine(u) \/ HangUp(u)
      PROVE  Quiet /\ UNCHANGED <<online, limit, current>>
  BY <1>0, <1>3 DEF DropLine, HangUp
<1>4. ASSUME NEW u \in Users, NEW lines \in Writes, Send(u, lines)
      PROVE  Quiet /\ UNCHANGED <<online, limit, current>>
  BY <1>0, <1>4 DEF Send
<1>5. CASE EndPass
  <2>1. \A u \in Users : /\ user'[u] \in User
                         /\ user'[u].client = user[u].client
                         /\ user[u].killed => user'[u].killed
    BY <1>0, <1>5, CheckedTypes DEF EndPass
  <2>2. user' \in [Users -> User]
    BY <1>0, <1>5, <2>1 DEF EndPass
  <2> QED  BY <1>5, <2>1, <2>2 DEF EndPass
<1>6. CASE Tick
  <2>1. \A n, k \in Nat : Older(n, k) \in Nat
    BY DEF Older
  <2>2. \A u \in Users : Older(user[u].idle, IdleTime) \in Nat
                         /\ Older(user[u].pinged, PingTime) \in Nat
    BY <1>0, <2>1, UsersAssumption DEF User
  <2>3. \A u \in Users : /\ user'[u] \in User
                         /\ user'[u].client = user[u].client
                         /\ user[u].killed => user'[u].killed
    BY <1>0, <1>6, <2>2 DEF Tick, User
  <2>4. user' \in [Users -> User]
    BY <1>0, <1>6, <2>3 DEF Tick
  <2> QED  BY <1>6, <2>3, <2>4 DEF Tick
<1>7. ASSUME NEW c \in Callsigns, RemoteKills(c)
      PROVE  Quiet /\ UNCHANGED <<online, limit, current>>
  BY <1>0, <1>7 DEF RemoteKills, User
<1>8. CASE UNCHANGED usersVars
  BY <1>0, <1>8 DEF usersVars
<1> QED  BY <1>1, <1>2, <1>3, <1>4, <1>5, <1>6, <1>7, <1>8
-----------------------------------------------------------------------------
(***************************************************************************)
(* The kinds of steps, as far as pointers, callsigns and the limit go.     *)
(***************************************************************************)
QuietStep == Quiet /\ UNCHANGED <<online, limit, current>>

LoginStep == \E u \in Users : Registered(u) /\ UNCHANGED <<online, limit, current>>
                             /\ user' \in [Users -> User]

LEMMA StepKinds ==
    ASSUME UsersTypeOK, [Next]_usersVars
    PROVE  \/ QuietStep
           \/ LoginStep
           \/ \E u \in Users : Accept(u) \/ Remove(u)
           \/ \E c \in Callsigns : RemoteJoins(c)
           \/ \E o \in Objects : RemoteLeaves(o)
<1>1. ASSUME NEW u \in Users, Parse(u)
      PROVE  QuietStep \/ LoginStep
  <2>1. UNCHANGED <<online, limit, current>>
    BY <1>1 DEF Parse
  <2> QED  BY <1>1, <2>1, ParseTypes DEF QuietStep, LoginStep, UsersTypeOK, User
<1> QED  BY <1>1, QuietSteps DEF Next, QuietStep

\* Every step keeps the types.
LEMMA TypeStep ==
    ASSUME UsersTypeOK, WithinLimit, [Next]_usersVars
    PROVE  UsersTypeOK'
<1>1. ASSUME NEW u \in Users, Flood(u) \/ WriteFails(u) \/ HangUp(u)
      PROVE  UsersTypeOK'
  <2>1. user' \in [Users -> User]
    BY <1>1, QuietSteps DEF Quiet
  <2> QED  BY <1>1, <2>1 DEF UsersTypeOK, Flood, WriteFails, HangUp, passVars, User
<1>2. ASSUME NEW c \in Callsigns, RemoteKills(c)
      PROVE  UsersTypeOK'
  <2>1. user' \in [Users -> User]
    BY <1>2, QuietSteps DEF Quiet
  <2> QED  BY <1>2, <2>1 DEF UsersTypeOK, RemoteKills, passVars, User
<1>3. ASSUME EndPass \/ Tick \/ Poll
      PROVE  UsersTypeOK'
  <2>1. user' \in [Users -> User]
    BY <1>3, QuietSteps DEF Quiet
  <2> QED  BY <1>3, <2>1 DEF UsersTypeOK, EndPass, Tick, Poll, passVars, User
<1>4. ASSUME NEW c \in Callsigns, RemoteJoins(c)
      PROVE  UsersTypeOK'
  <2>1. [callsign |-> c, here |-> FALSE, rating |-> 1] \in Client
    BY DEF Client
  <2>2. heap' \in [Objects -> Client \cup {Freed}]
    BY <1>4, <2>1 DEF RemoteJoins, UsersTypeOK
  <2> QED  BY <1>4, <2>2 DEF UsersTypeOK, RemoteJoins, passVars
<1>5. ASSUME NEW o \in Objects, RemoteLeaves(o)
      PROVE  UsersTypeOK'
  BY <1>5 DEF UsersTypeOK, RemoteLeaves, passVars
<1>6. ASSUME NEW u \in Users, NEW lines \in Writes, Send(u, lines)
      PROVE  UsersTypeOK'
  BY <1>6, UsersAssumption DEF UsersTypeOK, Send, passVars
<1>7. CASE UNCHANGED usersVars
  BY <1>7 DEF UsersTypeOK, usersVars, passVars
<1> QED
  BY <1>1, <1>2, <1>3, <1>4, <1>5, <1>6, <1>7, AcceptTypes, RemoveTypes, BeginTypes,
     ParseTypes, DropLineTypes DEF Next

\* A client that is registered is not what a free place holds.
LEMMA NotFreed == Freed \notin Client
  BY FreedAssumption DEF Client

LEMMA PrivateStep ==
    ASSUME UsersTypeOK, PrivateClients, [Next]_usersVars
    PROVE  PrivateClients'
<1>1. CASE QuietStep
  BY <1>1 DEF QuietStep, Quiet, PrivateClients, Live
<1>2. CASE LoginStep
  <2>1. PICK u \in Users : Registered(u)
    BY <1>2 DEF LoginStep
  <2>2. PICK o \in Objects \ Live, c \in Callsigns, n \in Nat :
           /\ heap' = [heap EXCEPT ![o] = [callsign |-> c, here |-> TRUE, rating |-> n]]
           /\ user' = [user EXCEPT ![u] = [Active(u) EXCEPT !.client = o]]
    BY <2>1 DEF Registered
  <2>3. [callsign |-> c, here |-> TRUE, rating |-> n] \in Client
    BY DEF Client
  <2>4. /\ \A p \in Objects \ {o} : heap'[p] = heap[p]
        /\ heap'[o].here /\ heap'[o] # Freed
    BY <2>2, <2>3, NotFreed DEF UsersTypeOK
  <2>5. /\ user'[u].client = o
        /\ \A v \in Users \ {u} : user'[v].client = user[v].client
    BY <2>2 DEF UsersTypeOK, Active
  <2>6. \A v \in Users : user[v].client # NoClient => user[v].client \in Live \ {o}
    BY <2>2 DEF PrivateClients
  <2> QED  BY <2>4, <2>5, <2>6 DEF PrivateClients, Live
<1>3. ASSUME NEW u \in Users, Accept(u)
      PROVE  PrivateClients'
  <2>1. /\ user'[u].client = NoClient
        /\ \A v \in Users \ {u} : user'[v].client = user[v].client
    BY <1>3 DEF Accept, UsersTypeOK, Fresh
  <2> QED  BY <1>3, <2>1 DEF Accept, PrivateClients, Live
<1>4. ASSUME NEW u \in Users, Remove(u)
      PROVE  PrivateClients'
  <2>1. /\ user'[u].client = NoClient
        /\ \A v \in Users \ {u} : user'[v].client = user[v].client
    BY <1>4 DEF Remove, UsersTypeOK, Fresh
  <2>2. \A v \in Users \ {u} :
           user[v].client # NoClient => user[v].client # user[u].client
    BY DEF PrivateClients
  <2>3. \A o \in Objects : o # user[u].client => heap'[o] = heap[o]
    BY <1>4 DEF Remove
  <2> QED  BY <2>1, <2>2, <2>3 DEF PrivateClients, Live
<1>5. ASSUME NEW c \in Callsigns, RemoteJoins(c)
      PROVE  PrivateClients'
  <2>1. PICK o \in Objects \ Live :
           heap' = [heap EXCEPT ![o] = [callsign |-> c, here |-> FALSE, rating |-> 1]]
    BY <1>5 DEF RemoteJoins
  <2>2. \A p \in Live : heap'[p] = heap[p]
    BY <2>1 DEF Live, UsersTypeOK
  <2> QED  BY <1>5, <2>2 DEF RemoteJoins, PrivateClients, Live
<1>6. ASSUME NEW o \in Objects, RemoteLeaves(o)
      PROVE  PrivateClients'
  <2>1. \A p \in Objects : heap[p].here => heap'[p] = heap[p]
    BY <1>6 DEF RemoteLeaves, UsersTypeOK
  <2> QED  BY <1>6, <2>1 DEF RemoteLeaves, PrivateClients, Live
<1> QED  BY <1>1, <1>2, <1>3, <1>4, <1>5, <1>6, StepKinds

(***************************************************************************)
(* A client is added only with a callsign that none has.                   *)
(***************************************************************************)
LEMMA AddedUnique ==
    ASSUME UsersTypeOK, UniqueCallsigns, NEW o \in Objects \ Live, NEW k \in Client,
           ~InUse(k.callsign), heap' = [heap EXCEPT ![o] = k]
    PROVE  UniqueCallsigns'
<1>1. Live' \subseteq Live \cup {o}
  BY DEF Live, UsersTypeOK
<1>2. heap'[o] = k /\ \A p \in Live : heap'[p] = heap[p]
  BY DEF Live, UsersTypeOK
<1>3. \A p \in Live : heap[p].callsign # k.callsign
  BY DEF InUse
<1> QED  BY <1>1, <1>2, <1>3 DEF UniqueCallsigns

LEMMA UniqueStep ==
    ASSUME UsersTypeOK, UniqueCallsigns, [Next]_usersVars
    PROVE  UniqueCallsigns'
<1>1. CASE heap' = heap
  BY <1>1 DEF UniqueCallsigns, Live
<1>2. CASE LoginStep
  <2>1. PICK o \in Objects \ Live, c \in Callsigns, n \in Nat :
           /\ ~InUse(c)
           /\ heap' = [heap EXCEPT ![o] = [callsign |-> c, here |-> TRUE, rating |-> n]]
    BY <1>2 DEF LoginStep, Registered
  <2> DEFINE k == [callsign |-> c, here |-> TRUE, rating |-> n]
  <2>2. k \in Client /\ k.callsign = c
    BY DEF Client
  <2> HIDE DEF k
  <2>3. heap' = [heap EXCEPT ![o] = k]
    BY <2>1 DEF k
  <2> QED  BY <2>1, <2>2, <2>3, AddedUnique
<1>3. ASSUME NEW c \in Callsigns, RemoteJoins(c)
      PROVE  UniqueCallsigns'
  <2> DEFINE k == [callsign |-> c, here |-> FALSE, rating |-> 1]
  <2>1. PICK o \in Objects \ Live : heap' = [heap EXCEPT ![o] = k]
    BY <1>3 DEF RemoteJoins
  <2>2. k \in Client /\ k.callsign = c /\ ~InUse(c)
    BY <1>3 DEF Client, RemoteJoins
  <2> HIDE DEF k
  <2> QED  BY <2>1, <2>2, AddedUnique
<1>4. ASSUME \A o \in Objects : heap'[o] \in {heap[o], Freed}
      PROVE  UniqueCallsigns'
  BY <1>4 DEF UniqueCallsigns, Live
<1>5. ASSUME NEW u \in Users, Remove(u)
      PROVE  UniqueCallsigns'
  BY <1>4, <1>5 DEF Remove
<1>6. ASSUME NEW o \in Objects, RemoteLeaves(o)
      PROVE  UniqueCallsigns'
  BY <1>4, <1>6 DEF RemoteLeaves, UsersTypeOK
<1> QED
  BY <1>1, <1>2, <1>3, <1>5, <1>6, StepKinds DEF QuietStep, Quiet, Accept

(***************************************************************************)
(* The users that are served only become more when one is accepted, and    *)
(* the counter says then that there is room.                               *)
(***************************************************************************)
LEMMA FewerServed ==
    ASSUME UsersTypeOK, WithinLimit, online' \subseteq Users,
           Served' \subseteq Served, limit' = limit
    PROVE  Cardinality(Served') <= limit'
<1>1. IsFiniteSet(Served) /\ Cardinality(Served) <= limit
  BY UsersAssumption, FS_Subset DEF UsersTypeOK, Served, WithinLimit
<1>2. Cardinality(Served') <= Cardinality(Served) /\ Cardinality(Served') \in Nat
      /\ Cardinality(Served) \in Nat
  BY <1>1, FS_Subset, FS_CardinalityType
<1>3. limit \in Nat
  BY UsersAssumption DEF UsersTypeOK
<1> QED  BY <1>1, <1>2, <1>3

LEMMA LimitStep ==
    ASSUME UsersTypeOK, WithinLimit, [Next]_usersVars
    PROVE  WithinLimit'
<1>0. IsFiniteSet(online) /\ Cardinality(online) \in Nat /\ limit \in Nat
  BY UsersAssumption, FS_Subset, FS_CardinalityType DEF UsersTypeOK
<1>1. CASE QuietStep
  <2>1. Served' \subseteq Served
    BY <1>1 DEF QuietStep, Quiet, Served, UsersTypeOK
  <2>2. online' \subseteq Users /\ limit' = limit
    BY <1>1 DEF QuietStep, UsersTypeOK
  <2>3. Cardinality(Served') <= limit'
    BY <2>1, <2>2, FewerServed
  <2> QED  BY <1>1, <2>3 DEF QuietStep, WithinLimit, Served
<1>2. CASE LoginStep
  <2>1. Served' \subseteq Served
    BY <1>2 DEF LoginStep, Registered, Active, Served, UsersTypeOK
  <2>2. online' \subseteq Users /\ limit' = limit
    BY <1>2 DEF LoginStep, UsersTypeOK
  <2>3. Cardinality(Served') <= limit'
    BY <2>1, <2>2, FewerServed
  <2> QED  BY <1>2, <2>3 DEF LoginStep, WithinLimit, Served
<1>3. ASSUME NEW u \in Users, Accept(u)
      PROVE  WithinLimit'
  <2>1. /\ online' = online \cup {u} /\ u \notin online
        /\ current' = current + 1 /\ limit' = limit
    BY <1>3 DEF Accept
  <2>2. Cardinality(online') = Cardinality(online) + 1 /\ IsFiniteSet(online')
    BY <1>0, <2>1, FS_AddElement
  <2>3. CASE limit <= current
    <3>1. user'[u].killed
      BY <1>3, <2>3 DEF Accept, UsersTypeOK, Fresh
    <3>2. \A v \in Users \ {u} : user'[v] = user[v]
      BY <1>3 DEF Accept, UsersTypeOK
    <3>3. Served' \subseteq Served /\ online' \subseteq Users
      BY <2>1, <3>1, <3>2 DEF Served, UsersTypeOK
    <3>4. Cardinality(Served') <= limit'
      BY <2>1, <3>3, FewerServed
    <3> QED  BY <2>1, <2>2, <3>4 DEF WithinLimit, Served
  <2>4. CASE ~(limit <= current)
    <3>1. Cardinality(Served') <= Cardinality(online') /\ Cardinality(Served') \in Nat
      <4>1. Served' \subseteq online'
        BY DEF Served
      <4> QED  BY <2>2, <4>1, FS_Subset, FS_CardinalityType
    <3>2. Cardinality(online') <= limit'
      BY <1>0, <2>1, <2>2, <2>4 DEF WithinLimit
    <3>3. Cardinality(Served') <= limit'
      BY <1>0, <2>1, <2>2, <3>1, <3>2
    <3> QED  BY <2>1, <2>2, <3>3 DEF WithinLimit, Served
  <2> QED  BY <2>3, <2>4
<1>4. ASSUME NEW u \in Users, Remove(u)
      PROVE  WithinLimit'
  <2>1. u \in online /\ online' = online \ {u} /\ current' = current - 1
        /\ limit' = limit
    BY <1>4 DEF Remove, UsersTypeOK
  <2>2. Cardinality(online') = Cardinality(online) - 1
    BY <1>0, <2>1, FS_RemoveElement
  <2>3. \A v \in Users \ {u} : user'[v] = user[v]
    BY <1>4 DEF Remove, UsersTypeOK
  <2>4. Served' \subseteq Served /\ online' \subseteq Users
    BY <2>1, <2>3 DEF Served, UsersTypeOK
  <2>5. Cardinality(Served') <= limit'
    BY <2>1, <2>4, FewerServed
  <2> QED  BY <2>1, <2>2, <2>5 DEF WithinLimit, Served
<1>5. CASE UNCHANGED <<online, user, limit, current>>
  BY <1>5 DEF WithinLimit
<1> QED
  BY <1>1, <1>2, <1>3, <1>4, <1>5, StepKinds DEF RemoteJoins, RemoteLeaves
-----------------------------------------------------------------------------
(***************************************************************************)
(* Before the first connection everything holds, and every step keeps it.  *)
(***************************************************************************)
LEMMA InvInit == Init => UsersInv
<1> SUFFICES ASSUME Init PROVE UsersInv
  OBVIOUS
<1>1. UsersTypeOK
  BY TypeInit
<1>2. PrivateClients
  BY DEF Init, PrivateClients, Fresh
<1>3. UniqueCallsigns
  BY DEF Init, UniqueCallsigns, Live
<1>4. WithinLimit
  <2>1. Cardinality(online) = 0 /\ {u \in online : ~user[u].killed} = {}
    BY FS_EmptySet DEF Init
  <2> QED  BY <2>1, FS_EmptySet, UsersAssumption DEF Init, WithinLimit
<1> QED  BY <1>1, <1>2, <1>3, <1>4 DEF UsersInv

LEMMA InvStep == UsersInv /\ [Next]_usersVars => UsersInv'
  BY TypeStep, PrivateStep, UniqueStep, LimitStep DEF UsersInv

LEMMA UsersInvariant == Spec => []UsersInv
  BY InvInit, InvStep, PTL DEF Spec

(***************************************************************************)
(* The tables of users, buffers and clients keep their types.              *)
(***************************************************************************)
THEOREM UsersTypeCorrect == Spec => []UsersTypeOK
  BY UsersInvariant, PTL DEF UsersInv

(***************************************************************************)
(* thisclient is null or points to a client of this server that no other   *)
(* connection points to, for any number of users, places and lines.        *)
(***************************************************************************)
THEOREM PrivateClientsCorrect == Spec => []PrivateClients
  BY UsersInvariant, PTL DEF UsersInv

(***************************************************************************)
(* getclient has one client to find: callsignok and execaddclient keep     *)
(* callsigns apart, whoever registers them.                                *)
(***************************************************************************)
THEOREM UniqueCallsignsCorrect == Spec => []UniqueCallsigns
  BY UsersInvariant, PTL DEF UsersInv

(***************************************************************************)
(* varcurrent counts the list, and at most maxclients users are served.    *)
(***************************************************************************)
THEOREM WithinLimitCorrect == Spec => []WithinLimit
  BY UsersInvariant, PTL DEF UsersInv
=============================================================================
