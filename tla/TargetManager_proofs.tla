------------------------- MODULE TargetManager_proofs -------------------------
(***************************************************************************)
(* Proofs about the targets of a display, for any aircraft and any number  *)
(* of targets.  The conflict entries need a strengthening: what a listed   *)
(* target has in its entries knows that target's callsign, in conflict or  *)
(* not, and an object that was not made yet has no alert and no entries.   *)
(***************************************************************************)
EXTENDS TargetManager, TLAPS

Shape ==
    /\ made \in [Callsigns -> Nat]
    /\ listed \cup controlled \cup coasting \cup radarTimer \cup purgeTimer \subseteq Made
    /\ alert \in [Objects -> Alerts]
    /\ conflicts = [o \in Objects |-> conflicts[o]]

OneEach == \A o, f \in listed : Callsign(o) = Callsign(f) => o = f

Fresh ==
    \A o \in Objects \ Made : alert[o] = "NONE" /\ DOMAIN conflicts[o] = {}

Named ==
    \A o \in Objects : \A c \in DOMAIN conflicts[o] :
        /\ c \in Callsigns
        /\ conflicts[o][c] \in Entries
        /\ Callsign(conflicts[o][c].target) = c

Known ==
    \A o \in listed : \A c \in DOMAIN conflicts[o] :
        Callsign(o) \in DOMAIN conflicts[conflicts[o][c].target]

Inv ==
    /\ Shape
    /\ OneEach
    /\ Fresh
    /\ Named
    /\ Known
    /\ Watched
    /\ SuppressionMutual
    /\ AlarmSounds

-----------------------------------------------------------------------------
LEMMA ObjectFacts ==
    /\ \A o \in Objects : Callsign(o) \in Callsigns
    /\ \A c \in Callsigns : \A n \in 1..MaxTargets[c] :
            <<c, n>> \in Objects /\ Callsign(<<c, n>>) = c
BY DEF Objects, Callsign

LEMMA InitInv == Init => Inv
BY DEF Init, Inv, Shape, OneEach, Fresh, Named, Known, Watched, SuppressionMutual,
       EachOther, AlarmSounds, Alerts, NoEntries, Made

\* A step that leaves the alerts and what was made alone keeps the parts about
\* the conflicts if it lists nothing new.
LEMMA AlertsUntouched ==
    ASSUME Inv, UNCHANGED <<made, alertVars>>, listed' \subseteq listed
    PROVE  /\ OneEach' /\ Fresh' /\ Named' /\ Known'
           /\ SuppressionMutual' /\ AlarmSounds'
           /\ (alert \in [Objects -> Alerts])'
           /\ (conflicts = [o \in Objects |-> conflicts[o]])'
BY DEF Inv, Shape, OneEach, Fresh, Named, Known, SuppressionMutual, EachOther,
       AlarmSounds, alertVars, Made

\* A blip, for a new object and for a listed one.
LEMMA BlipInv ==
    ASSUME Inv, NEW c \in Callsigns, NEW on \in BOOLEAN, Blip(c, on)
    PROVE  Inv'
<1>. USE DEF Inv
<1>1. CASE Of(c) = {}
  <2>. DEFINE new == <<c, made[c] + 1>>
  <2>1. /\ made[c] < MaxTargets[c]
        /\ made' = [made EXCEPT ![c] = @ + 1]
        /\ listed' = listed \cup {new}
        /\ controlled' = Controlled({new}, on)
        /\ coasting' = coasting \ {new}
        /\ radarTimer' = radarTimer \cup {new}
        /\ UNCHANGED <<purgeTimer, alertVars>>
    BY <1>1 DEF Blip, UpdateFromBlip
  <2>2. made[c] \in Nat /\ MaxTargets[c] \in Nat
    BY TargetsAssumption DEF Shape
  <2>3. new \in Objects /\ Callsign(new) = c /\ new[2] = made[c] + 1
    BY <2>1, <2>2, ObjectFacts
  <2>4. Made \subseteq Made' /\ new \in Made' /\ new \notin Made
    <3>1. made' \in [Callsigns -> Nat] /\ made'[c] = made[c] + 1
          /\ \A d \in Callsigns : made[d] \in Nat /\ made'[d] >= made[d]
      BY <2>1, <2>2 DEF Shape
    <3>. QED  BY <3>1, <2>2, <2>3, ObjectFacts DEF Made, Objects
  <2>5. alert[new] = "NONE" /\ DOMAIN conflicts[new] = {}
    BY <2>3, <2>4 DEF Fresh
  <2>6. Shape'
    BY <2>1, <2>2, <2>4 DEF Shape, Controlled, alertVars
  <2>7. OneEach'
    BY <2>1, <2>3, <1>1 DEF OneEach, Of
  <2>8. Fresh' /\ Named'
    BY <2>1, <2>4 DEF Fresh, Named, alertVars
  <2>9. Known' /\ AlarmSounds' /\ Watched'
    BY <2>1, <2>5 DEF Known, AlarmSounds, Watched, alertVars
  <2>10. SuppressionMutual'
    BY <2>1, <2>5 DEF SuppressionMutual, EachOther, alertVars
  <2>. QED  BY <2>6, <2>7, <2>8, <2>9, <2>10
<1>2. CASE Of(c) # {}
  <2>1. PICK o \in Of(c) : UpdateFromBlip(o, on)
    BY <1>2 DEF Blip
  <2>2. o \in listed /\ UNCHANGED <<made, listed, purgeTimer, alertVars>>
    BY <1>2 DEF Blip, Of
  <2>3. Shape' /\ Watched'
    BY <2>1, <2>2 DEF Shape, Watched, UpdateFromBlip, Controlled, Made, alertVars
  <2>. QED  BY <2>2, <2>3, AlertsUntouched
<1>. QED  BY <1>1, <1>2

\* The steps of the timers and of the control of aircraft.
LEMMA LifeInv ==
    ASSUME Inv, UNCHANGED <<made, alertVars>>, listed' \subseteq listed,
           (listed \cup controlled \cup coasting \cup radarTimer \cup purgeTimer
                \subseteq Made)',
           Watched'
    PROVE  Inv'
BY AlertsUntouched DEF Inv, Shape, alertVars

LEMMA RadarTimerInv ==
    ASSUME Inv, NEW o \in Objects, RadarTimer(o)
    PROVE  Inv'
<1>. USE DEF Inv, Shape, Watched, RadarTimer, PurgeTarget, feedVars, alertVars, Made
<1>1. CASE o \in controlled
  BY <1>1, LifeInv
<1>2. CASE o \notin controlled
  BY <1>2, LifeInv
<1>. QED  BY <1>1, <1>2

LEMMA PurgeTimerInv ==
    ASSUME Inv, NEW o \in Objects, PurgeTimer(o)
    PROVE  Inv'
BY LifeInv DEF Inv, Shape, Watched, PurgeTimer, PurgeTarget, feedVars, alertVars, Made

LEMMA ControlInv ==
    ASSUME Inv,
           \/ \E c \in Callsigns, on \in BOOLEAN : OwnershipClaimed(c, on)
           \/ \E S \in SUBSET listed : MassHandoff(S)
           \/ \E c \in Callsigns : Vanish(c)
    PROVE  Inv'
<1>. USE DEF Inv, Shape, Watched, feedVars, lifeVars, alertVars, Made
<1>1. ASSUME NEW c \in Callsigns, NEW on \in BOOLEAN, OwnershipClaimed(c, on)
      PROVE  Inv'
  BY <1>1, LifeInv DEF OwnershipClaimed, Controlled, Of
<1>2. ASSUME NEW S \in SUBSET listed, MassHandoff(S)
      PROVE  Inv'
  BY <1>2, LifeInv DEF MassHandoff
<1>3. ASSUME NEW c \in Callsigns, Vanish(c)
      PROVE  Inv'
  BY <1>3, LifeInv DEF Vanish
<1>. QED  BY <1>1, <1>2, <1>3

-----------------------------------------------------------------------------
(***************************************************************************)
(* A rendering.  Two listed targets are in conflict for both or for        *)
(* neither, and an old entry is kept on one side only if its object is not *)
(* the listed one any more.                                                *)
(***************************************************************************)
LEMMA FoesMutual ==
    ASSUME NEW near, NEW o \in listed, NEW f \in Foes(near, o)
    PROVE  f \in listed /\ f # o /\ o \in Foes(near, f)
<1>1. {o, f} = {f, o}
  OBVIOUS
<1>. QED  BY <1>1 DEF Foes

LEMMA EntriesFound ==
    ASSUME Inv, NEW near, NEW o \in listed
    PROVE  /\ DOMAIN Entered(near, o) = {Callsign(f) : f \in Foes(near, o)}
           /\ \A f \in Foes(near, o) : Entered(near, o)[Callsign(f)] = EntryOf(o, f)
<1>1. ASSUME NEW f \in Foes(near, o)
      PROVE  (CHOOSE g \in Foes(near, o) : Callsign(g) = Callsign(f)) = f
  BY <1>1 DEF Inv, OneEach, Foes
<1>. QED  BY <1>1 DEF Entered

LEMMA RenderInv ==
    ASSUME Inv, DetectConflicts
    PROVE  Inv'
<1>. USE DEF Inv
<1>1. PICK near \in SUBSET Pairs :
        /\ SetTargetsInConflict(near)
        /\ alarm' = \E o \in listed : alert'[o] = "CONFLICTING"
        /\ UNCHANGED <<feedVars, lifeVars>>
  BY DEF DetectConflicts
<1>2. listed \subseteq Objects /\ \A o \in listed : o \in Made
  BY DEF Shape, Made
<1>3. \A o \in Objects : o \notin listed => conflicts'[o] = conflicts[o]
  BY <1>1 DEF SetTargetsInConflict
<1>4. \A o \in listed :
        /\ DOMAIN conflicts'[o] = {Callsign(f) : f \in Foes(near, o)}
        /\ \A f \in Foes(near, o) : conflicts'[o][Callsign(f)] = EntryOf(o, f)
  BY <1>1, <1>2, EntriesFound DEF SetTargetsInConflict
<1>5. ASSUME NEW o \in listed, NEW f \in Foes(near, o)
      PROVE  /\ EntryOf(o, f) \in Entries
             /\ Callsign(EntryOf(o, f).target) = Callsign(f)
             /\ Callsign(f) \notin DOMAIN conflicts[o] =>
                    EntryOf(o, f) = [target |-> f, isSuppressed |-> FALSE]
             /\ Callsign(f) \in DOMAIN conflicts[o] =>
                    EntryOf(o, f) = conflicts[o][Callsign(f)]
  BY <1>2, FoesMutual DEF EntryOf, Named, Entries
<1>6. \A o \in Objects : alert'[o] \in Alerts /\ (o \notin listed => alert'[o] = alert[o])
  BY <1>1 DEF SetTargetsInConflict, Alerts, Shape
<1>7. Shape'
  BY <1>1, <1>6 DEF Shape, SetTargetsInConflict, feedVars, lifeVars, Made
<1>8. OneEach' /\ Watched' /\ AlarmSounds'
  BY <1>1 DEF OneEach, Watched, AlarmSounds, lifeVars
<1>9. Fresh'
  BY <1>1, <1>2, <1>3, <1>6 DEF Fresh, Made, feedVars
<1>10. Named'
  <2>. SUFFICES ASSUME NEW o \in Objects, NEW c \in DOMAIN conflicts'[o]
                PROVE  /\ c \in Callsigns
                       /\ conflicts'[o][c] \in Entries
                       /\ Callsign(conflicts'[o][c].target) = c
    BY DEF Named
  <2>1. CASE o \notin listed
    BY <2>1, <1>3 DEF Named
  <2>2. CASE o \in listed
    <3>1. PICK f \in Foes(near, o) : Callsign(f) = c
      BY <2>2, <1>4
    <3>. QED  BY <2>2, <3>1, <1>2, <1>4, <1>5, FoesMutual, ObjectFacts
  <2>. QED  BY <2>1, <2>2
<1>11. Known'
  <2>. SUFFICES ASSUME NEW o \in listed, NEW c \in DOMAIN conflicts'[o]
                PROVE  Callsign(o) \in DOMAIN conflicts'[conflicts'[o][c].target]
    BY <1>1 DEF Known, lifeVars
  <2>1. PICK f \in Foes(near, o) : Callsign(f) = c
    BY <1>4
  <2>2. f \in listed /\ o \in Foes(near, f) /\ conflicts'[o][c] = EntryOf(o, f)
    BY <2>1, <1>4, FoesMutual
  <2>3. Callsign(o) \in DOMAIN conflicts'[f]
    BY <2>2, <1>4
  <2>. DEFINE t == EntryOf(o, f).target
  <2>4. t \in Objects /\ Callsign(t) = Callsign(f)
    BY <1>5 DEF Entries
  <2>5. CASE t \in listed
    BY <2>2, <2>3, <2>4, <2>5 DEF OneEach
  <2>6. CASE t \notin listed
    <3>1. Callsign(f) \in DOMAIN conflicts[o] /\ t = conflicts[o][Callsign(f)].target
      BY <2>2, <2>6, <1>5
    <3>. QED  BY <2>2, <2>4, <2>6, <3>1, <1>3 DEF Known
  <2>. QED  BY <2>5, <2>6
<1>12. SuppressionMutual'
  <2>. SUFFICES ASSUME NEW o \in listed, NEW f \in listed, EachOther(o, f)'
                PROVE  conflicts'[o][Callsign(f)].isSuppressed
                         = conflicts'[f][Callsign(o)].isSuppressed
    BY <1>1 DEF SuppressionMutual, lifeVars
  <2>1. f \in Foes(near, o) /\ o \in Foes(near, f)
    <3>1. PICK g \in Foes(near, o) : Callsign(g) = Callsign(f)
      BY <1>4 DEF EachOther
    <3>. QED  BY <3>1, FoesMutual DEF OneEach
  <2>2. /\ conflicts'[o][Callsign(f)] = EntryOf(o, f)
        /\ conflicts'[f][Callsign(o)] = EntryOf(f, o)
    BY <2>1, <1>4
  <2>3. EntryOf(o, f).target = f /\ EntryOf(f, o).target = o
    BY <2>2 DEF EachOther
  <2>4. CASE Callsign(f) \in DOMAIN conflicts[o]
    <3>1. EntryOf(o, f) = conflicts[o][Callsign(f)]
      BY <2>1, <2>4, <1>5
    <3>2. Callsign(o) \in DOMAIN conflicts[f]
      BY <2>3, <2>4, <3>1 DEF Known
    <3>3. EntryOf(f, o) = conflicts[f][Callsign(o)]
      BY <2>1, <3>2, <1>5
    <3>. QED  BY <2>2, <2>3, <2>4, <3>1, <3>2, <3>3 DEF SuppressionMutual, EachOther
  <2>5. CASE Callsign(f) \notin DOMAIN conflicts[o]
    <3>1. EntryOf(o, f) = [target |-> f, isSuppressed |-> FALSE]
      BY <2>1, <2>5, <1>5
    <3>2. Callsign(o) \notin DOMAIN conflicts[f]
      <4>. SUFFICES ASSUME Callsign(o) \in DOMAIN conflicts[f]
                    PROVE  FALSE
        OBVIOUS
      <4>1. conflicts[f][Callsign(o)].target = o
        BY <2>1, <2>3, <1>5
      <4>. QED  BY <4>1, <2>5 DEF Known
    <3>3. EntryOf(f, o) = [target |-> o, isSuppressed |-> FALSE]
      BY <2>1, <3>2, <1>5
    <3>. QED  BY <2>2, <3>1, <3>3
  <2>. QED  BY <2>4, <2>5
<1>. QED  BY <1>7, <1>8, <1>9, <1>10, <1>11, <1>12

-----------------------------------------------------------------------------
(***************************************************************************)
(* A click.  Suppressing changes no object and no domain of an entry.      *)
(***************************************************************************)
LEMMA AcknowledgedFacts ==
    ASSUME Inv, NEW o \in listed, conflicts' = Acknowledged(o),
           UNCHANGED <<feedVars, lifeVars, alarm>>
    PROVE  /\ conflicts' = [f \in Objects |-> conflicts'[f]]
           /\ \A f \in Objects : DOMAIN conflicts'[f] = DOMAIN conflicts[f]
           /\ Named' /\ Known' /\ SuppressionMutual'
<1>. USE DEF Inv
<1>1. conflicts' = [f \in Objects |-> conflicts'[f]]
  BY DEF Acknowledged
<1>2. \A f \in Objects : DOMAIN conflicts'[f] = DOMAIN conflicts[f]
  BY DEF Acknowledged
<1>2a. ASSUME NEW f \in Objects, NEW c \in DOMAIN conflicts[f]
       PROVE  conflicts'[f][c] =
                IF f = o \/ (Faces(o, f) /\ c = Callsign(o))
                THEN [conflicts[f][c] EXCEPT !.isSuppressed = TRUE]
                ELSE conflicts[f][c]
  BY DEF Acknowledged
<1>3. ASSUME NEW f \in Objects, NEW c \in DOMAIN conflicts[f]
      PROVE  /\ conflicts'[f][c] \in Entries
             /\ conflicts'[f][c].target = conflicts[f][c].target
             /\ f = o \/ (Faces(o, f) /\ c = Callsign(o)) => conflicts'[f][c].isSuppressed = TRUE
             /\ ~(f = o \/ (Faces(o, f) /\ c = Callsign(o)))
                    => conflicts'[f][c].isSuppressed = conflicts[f][c].isSuppressed
  <2>1. conflicts[f][c] \in Entries
    BY DEF Named
  <2>2. CASE f = o \/ (Faces(o, f) /\ c = Callsign(o))
    <3>1. conflicts'[f][c] = [conflicts[f][c] EXCEPT !.isSuppressed = TRUE]
      BY <1>2a, <2>2
    <3>. QED  BY <2>1, <2>2, <3>1 DEF Entries
  <2>3. CASE ~(f = o \/ (Faces(o, f) /\ c = Callsign(o)))
    <3>1. conflicts'[f][c] = conflicts[f][c]
      BY <1>2a, <2>3
    <3>. QED  BY <2>1, <2>3, <3>1
  <2>. QED  BY <2>2, <2>3
<1>4. listed \subseteq Objects /\ listed' = listed /\ made' = made
  BY DEF Shape, Made, lifeVars, feedVars
<1>5. Named' /\ Known'
  <2>1. Named'
    BY <1>2, <1>3 DEF Named
  <2>2. ASSUME NEW x \in listed, NEW c \in DOMAIN conflicts'[x]
        PROVE  Callsign(x) \in DOMAIN conflicts'[conflicts'[x][c].target]
    <3>1. c \in DOMAIN conflicts[x] /\ conflicts'[x][c].target = conflicts[x][c].target
      BY <1>2, <1>3, <1>4
    <3>2. conflicts[x][c].target \in Objects
      BY <3>1, <1>4 DEF Named, Entries
    <3>. QED  BY <3>1, <3>2, <1>2 DEF Known
  <2>. QED  BY <2>1, <2>2, <1>4 DEF Known
<1>6. SuppressionMutual'
  <2>. SUFFICES ASSUME NEW x \in listed, NEW y \in listed, EachOther(x, y)'
                PROVE  conflicts'[x][Callsign(y)].isSuppressed
                         = conflicts'[y][Callsign(x)].isSuppressed
    BY <1>4 DEF SuppressionMutual
  <2>1. EachOther(x, y)
    BY <1>2, <1>3, <1>4 DEF EachOther
  <2>2. CASE x = o \/ y = o
    <3>1. Faces(x, y) /\ Faces(y, x)
      BY <2>1 DEF EachOther, Faces
    <3>2. /\ conflicts'[x][Callsign(y)].isSuppressed = TRUE
          /\ conflicts'[y][Callsign(x)].isSuppressed = TRUE
      <4>1. Callsign(y) \in DOMAIN conflicts[x] /\ Callsign(x) \in DOMAIN conflicts[y]
        BY <2>1 DEF EachOther
      <4>. QED  BY <2>2, <3>1, <4>1, <1>3, <1>4
    <3>. QED  BY <3>2
  <2>3. CASE x # o /\ y # o
    <3>1. Callsign(x) # Callsign(o) /\ Callsign(y) # Callsign(o)
      BY <2>3 DEF OneEach
    <3>2. Callsign(y) \in DOMAIN conflicts[x] /\ Callsign(x) \in DOMAIN conflicts[y]
      BY <2>1 DEF EachOther
    <3>3. /\ conflicts'[x][Callsign(y)].isSuppressed = conflicts[x][Callsign(y)].isSuppressed
          /\ conflicts'[y][Callsign(x)].isSuppressed = conflicts[y][Callsign(x)].isSuppressed
      BY <2>3, <3>1, <3>2, <1>3, <1>4
    <3>. QED  BY <2>1, <3>3 DEF SuppressionMutual
  <2>. QED  BY <2>2, <2>3
<1>. QED  BY <1>1, <1>2, <1>5, <1>6, <1>4 DEF Fresh, Made

LEMMA ClickInv ==
    ASSUME Inv, NEW o \in Objects, Select(o) \/ ToggleConflictAlerts(o)
    PROVE  Inv'
<1>. USE DEF Inv
<1>1. /\ o \in listed /\ UNCHANGED <<feedVars, lifeVars, alarm>>
      /\ conflicts' = Acknowledged(o) \/ conflicts' = conflicts
      /\ \E a \in Alerts \ {"CONFLICTING"} : alert' = [alert EXCEPT ![o] = a]
  BY DEF Select, ToggleConflictAlerts, Alerts
<1>2. /\ conflicts' = [f \in Objects |-> conflicts'[f]]
      /\ \A f \in Objects : DOMAIN conflicts'[f] = DOMAIN conflicts[f]
      /\ Named' /\ Known' /\ SuppressionMutual'
  <2>1. CASE conflicts' = Acknowledged(o)
    BY <1>1, <2>1, AcknowledgedFacts
  <2>2. CASE conflicts' = conflicts
    BY <1>1, <2>2 DEF Shape, Named, Known, SuppressionMutual, EachOther, lifeVars
  <2>. QED  BY <1>1, <2>1, <2>2
<1>3. Shape' /\ OneEach' /\ Watched'
  BY <1>1, <1>2 DEF Shape, OneEach, Watched, Alerts, Made, feedVars, lifeVars
<1>4. Fresh'
  BY <1>1, <1>2 DEF Fresh, Shape, Made, feedVars, lifeVars
<1>5. AlarmSounds'
  BY <1>1 DEF AlarmSounds, Shape, Made, lifeVars
<1>. QED  BY <1>2, <1>3, <1>4, <1>5

-----------------------------------------------------------------------------
LEMMA StepInv == Inv /\ [Next]_vars => Inv'
<1>. SUFFICES ASSUME Inv, [Next]_vars
              PROVE  Inv'
  OBVIOUS
<1>1. CASE UNCHANGED vars
  BY <1>1 DEF vars, feedVars, lifeVars, alertVars, Inv, Shape, OneEach, Fresh, Named, Known,
              Watched, SuppressionMutual, EachOther, AlarmSounds, Made
<1>2. ASSUME NEW c \in Callsigns, NEW on \in BOOLEAN, Blip(c, on)
      PROVE  Inv'
  BY <1>2, BlipInv
<1>3. ASSUME NEW o \in Objects, RadarTimer(o) \/ PurgeTimer(o)
      PROVE  Inv'
  BY <1>3, RadarTimerInv, PurgeTimerInv
<1>4. ASSUME NEW o \in Objects, Select(o) \/ ToggleConflictAlerts(o)
      PROVE  Inv'
  BY <1>4, ClickInv
<1>. QED  BY <1>1, <1>2, <1>3, <1>4, ControlInv, RenderInv DEF Next

LEMMA InvAlways == Spec => []Inv
BY InitInv, StepInv, PTL DEF Spec

\* What the display hears stays about the callsigns there are, and no more
\* objects are made than the bound allows.
Fed ==
    /\ flying \cup leavers \subseteq Callsigns
    /\ \A c \in Callsigns : made[c] \in 0..MaxTargets[c]
    /\ alarm \in BOOLEAN

LEMMA FedInit == Init => Fed
<1>. SUFFICES ASSUME Init PROVE Fed
  OBVIOUS
<1>1. flying \cup leavers \subseteq Callsigns
  BY TargetsAssumption DEF Init
<1>2. \A c \in Callsigns : made[c] = 0 /\ MaxTargets[c] \in Nat
  BY TargetsAssumption DEF Init
<1>3. alarm \in BOOLEAN
  BY DEF Init
<1>. QED  BY <1>1, <1>2, <1>3 DEF Fed

LEMMA FedStep == Inv /\ Fed /\ [Next]_vars => Fed'
<1>. SUFFICES ASSUME Inv, Fed, [Next]_vars
              PROVE  Fed'
  OBVIOUS
<1>1. ASSUME NEW c \in Callsigns, NEW on \in BOOLEAN, Blip(c, on)
      PROVE  Fed'
  <2>1. UNCHANGED <<flying, leavers, alarm>>
    BY <1>1 DEF Blip, alertVars
  <2>2. \/ UNCHANGED made
        \/ made[c] < MaxTargets[c] /\ made' = [made EXCEPT ![c] = @ + 1]
    BY <1>1 DEF Blip
  <2>3. \A d \in Callsigns : made'[d] \in 0..MaxTargets[d]
    <3>1. MaxTargets[c] \in Nat /\ made \in [Callsigns -> Nat]
      BY TargetsAssumption DEF Inv, Shape
    <3>. QED  BY <2>2, <3>1 DEF Fed
  <2>. QED  BY <2>1, <2>3 DEF Fed
<1>2. ASSUME NEW c \in Callsigns, Vanish(c)
      PROVE  Fed'
  BY <1>2 DEF Vanish, Fed, alertVars
<1>3. CASE UNCHANGED feedVars /\ (UNCHANGED alarm \/ alarm' \in BOOLEAN)
  BY <1>3 DEF feedVars, Fed
<1>4. ASSUME NEW o \in Objects, RadarTimer(o) \/ PurgeTimer(o) \/ Select(o) \/ ToggleConflictAlerts(o)
      PROVE  Fed'
  BY <1>3, <1>4 DEF RadarTimer, PurgeTimer, Select, ToggleConflictAlerts, alertVars
<1>5. ASSUME DetectConflicts
      PROVE  Fed'
  BY <1>3, <1>5 DEF DetectConflicts
<1>6. ASSUME \/ \E c \in Callsigns, on \in BOOLEAN : OwnershipClaimed(c, on)
             \/ \E S \in SUBSET listed : MassHandoff(S)
      PROVE  Fed'
  BY <1>3, <1>6 DEF OwnershipClaimed, MassHandoff, alertVars
<1>7. CASE UNCHANGED vars
  BY <1>3, <1>7 DEF vars, alertVars
<1>. QED  BY <1>1, <1>2, <1>4, <1>5, <1>6, <1>7 DEF Next

(***************************************************************************)
(* The types hold for any aircraft and any number of objects, with what is *)
(* more than a type in them: a blip finds the target of its callsign, so   *)
(* two targets of one aircraft are never on the display together, although *)
(* objects that were purged live on in timers and conflict entries.        *)
(***************************************************************************)
THEOREM TargetTypeCorrect == Spec => []TargetTypeOK
<1>1. Inv /\ Fed => TargetTypeOK
  BY DEF Inv, Shape, OneEach, Named, Fed, TargetTypeOK
<1>2. Spec => []Fed
  BY FedInit, FedStep, InvAlways, PTL DEF Spec
<1>. QED  BY <1>1, <1>2, InvAlways, PTL

(***************************************************************************)
(* Every listed target has a radar timer pending and every coasting one a  *)
(* purge: the display cannot keep a silent target for want of a timer.     *)
(***************************************************************************)
THEOREM WatchedCorrect == Spec => []Watched
<1>1. Inv => Watched
  BY DEF Inv
<1>. QED  BY <1>1, InvAlways, PTL

(***************************************************************************)
(* select never reads an entry that is not there.                          *)
(***************************************************************************)
THEOREM SelectSafeCorrect == Spec => []SelectSafe
<1>1. Inv => SelectSafe
  BY DEF Inv, Known, SelectSafe
<1>. QED  BY <1>1, InvAlways, PTL

(***************************************************************************)
(* An acknowledged alert is acknowledged on both targets of the pair, and  *)
(* the alarm sounds while one is not acknowledged.                         *)
(***************************************************************************)
THEOREM AlertsCorrect == Spec => [](SuppressionMutual /\ AlarmSounds)
<1>1. Inv => SuppressionMutual /\ AlarmSounds
  BY DEF Inv
<1>. QED  BY <1>1, InvAlways, PTL

(***************************************************************************)
(* A target leaves the display by its own purge or without a controller.   *)
(***************************************************************************)
THEOREM LeavesCorrect == Spec => LeavesForCause
<1>1. Inv /\ [Next]_vars => [\A o \in listed \ listed' : o \in purgeTimer \/ o \notin controlled]_vars
  <2>. SUFFICES ASSUME Inv, Next, NEW o \in listed \ listed'
                PROVE  o \in purgeTimer \/ o \notin controlled
    OBVIOUS
  <2>1. ASSUME NEW c \in Callsigns, NEW on \in BOOLEAN, Blip(c, on)
        PROVE  listed \subseteq listed'
    BY <2>1 DEF Blip
  <2>. QED  BY <2>1 DEF Next, OwnershipClaimed, MassHandoff, Vanish, RadarTimer, PurgeTimer,
                 PurgeTarget, DetectConflicts, Select, ToggleConflictAlerts, feedVars, lifeVars
<1>. QED  BY <1>1, InvAlways, PTL DEF Spec, LeavesForCause

=============================================================================
