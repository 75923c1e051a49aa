---------------------------- MODULE TargetManager ----------------------------
(***************************************************************************)
(* The targets of a client's display: how they are made from blips, coast, *)
(* are purged and made again under the same callsign (target.js, radar.js, *)
(* targetmanager.js), and the conflict alerts between them.                *)
(*                                                                         *)
(* A target is an object: it outlives its place in the list of the manager *)
(* through its timers and through the conflict entries of other targets.   *)
(* The n-th object made for callsign c is <<c, n>>.                        *)
(*                                                                         *)
(* The delays of the timers are left out: a timer that is pending may fire *)
(* at any moment, so every order is considered, and to arm a pending timer *)
(* again (each blip and heartbeat does) changes nothing here.  Where the   *)
(* targets are is left out too: each rendering finds some pairs of targets *)
(* below the separation minima.                                            *)
(***************************************************************************)
EXTENDS Naturals

CONSTANTS Callsigns,
          Skies,        \* the aircraft to start with, and those that will leave
          MaxTargets    \* bound: MaxTargets[c] is the number of objects made for c

ASSUME TargetsAssumption ==
    /\ MaxTargets \in [Callsigns -> Nat]
    /\ \A sky \in Skies : sky.leavers \subseteq sky.flying /\ sky.flying \subseteq Callsigns

VARIABLES
    flying,      \* the aircraft that have not left radar coverage
    leavers,     \* the aircraft that will leave it
    made,        \* made[c]: the objects made for c so far
    listed,      \* TargetManager._targets
    controlled,  \* the objects with a controller
    coasting,    \* the objects that coast
    radarTimer,  \* the objects with a pending _radarReturnTimeout
    purgeTimer,  \* the objects with a pending purgeTrack
    alert,       \* _conflictState of each object
    conflicts,   \* _conflicts of each object: callsign -> entry
    alarm        \* TargetManager._alarmSounding

feedVars == <<flying, leavers, made>>
lifeVars == <<listed, controlled, coasting, radarTimer, purgeTimer>>
alertVars == <<alert, conflicts, alarm>>
vars == <<feedVars, lifeVars, alertVars>>

Objects == UNION {{c} \X (1..MaxTargets[c]) : c \in Callsigns}

Callsign(o) == o[1]

Made == {o \in Objects : o[2] <= made[Callsign(o)]}

Alerts == {"NONE", "CONFLICTING", "SUPPRESSED", "INHIBITED"}

Entries == [target : Objects, isSuppressed : BOOLEAN]

NoEntries == [c \in {} |-> [target |-> <<c, 1>>, isSuppressed |-> FALSE]]

\* The targets of callsign c that getTargetByCallsign may find.
Of(c) == {o \in listed : Callsign(o) = c}

Init ==
    /\ \E sky \in Skies : flying = sky.flying /\ leavers = sky.leavers
    /\ made = [c \in Callsigns |-> 0]
    /\ listed = {}
    /\ controlled = {}
    /\ coasting = {}
    /\ radarTimer = {}
    /\ purgeTimer = {}
    /\ alert = [o \in Objects |-> "NONE"]
    /\ conflicts = [o \in Objects |-> NoEntries]
    /\ alarm = FALSE

-----------------------------------------------------------------------------
(***************************************************************************)
(* What the display hears.                                                 *)
(***************************************************************************)
\* An aircraft leaves radar coverage for good; shorter gaps are those in
\* which a timer fires and a blip follows.
Vanish(c) ==
    /\ c \in flying \cap leavers
    /\ flying' = flying \ {c}
    /\ UNCHANGED <<leavers, made, lifeVars, alertVars>>

\* setController(controller or null) on the objects S, as `on` says.
Controlled(S, on) == IF on THEN controlled \cup S ELSE controlled \ S

\* ownershipClaimed: the control of c started or ended.
OwnershipClaimed(c, on) ==
    /\ controlled' = Controlled(Of(c), on)
    /\ UNCHANGED <<feedVars, listed, coasting, radarTimer, purgeTimer, alertVars>>

\* updateFromBlip; the blip says whether the aircraft has a controller.
UpdateFromBlip(o, on) ==
    /\ controlled' = Controlled({o}, on)
    /\ coasting' = coasting \ {o}
    /\ radarTimer' = radarTimer \cup {o}

\* Mutant: a target that coasts is not found, and the blip makes another.
BlipSkipsCoasting(c, on) ==
    /\ c \in flying
    /\ IF Of(c) \ coasting = {}
       THEN /\ made[c] < MaxTargets[c]
            /\ made' = [made EXCEPT ![c] = @ + 1]
            /\ listed' = listed \cup {<<c, made[c] + 1>>}
            /\ UpdateFromBlip(<<c, made[c] + 1>>, on)
       ELSE /\ \E o \in Of(c) : UpdateFromBlip(o, on)
            /\ UNCHANGED <<made, listed>>
    /\ UNCHANGED <<flying, leavers, purgeTimer, alertVars>>

\* Radar.sync: the blip updates the listed target, or a new one.
Blip(c, on) ==
    /\ c \in flying
    /\ IF Of(c) = {}
       THEN /\ made[c] < MaxTargets[c]
            /\ made' = [made EXCEPT ![c] = @ + 1]
            /\ listed' = listed \cup {<<c, made[c] + 1>>}
            /\ UpdateFromBlip(<<c, made[c] + 1>>, on)
       ELSE /\ \E o \in Of(c) : UpdateFromBlip(o, on)
            /\ UNCHANGED <<made, listed>>
    /\ UNCHANGED <<flying, leavers, purgeTimer, alertVars>>

\* The client gives up its position: massHandoff to null.
MassHandoff(S) ==
    /\ S \subseteq listed \cap controlled
    /\ controlled' = controlled \ S
    /\ UNCHANGED <<feedVars, listed, coasting, radarTimer, purgeTimer, alertVars>>

-----------------------------------------------------------------------------
(***************************************************************************)
(* Targets that are not heard of.                                          *)
(***************************************************************************)
\* Mutant: the target is found by its callsign.
PurgeByCallsign(o) == listed' = {t \in listed : Callsign(t) # Callsign(o)}

\* purgeTarget: the object itself is taken out, if it is in the list.
PurgeTarget(o) == listed' = listed \ {o}

\* Mutant: a target coasts without a purge to come.
RadarTimerOnlyCoasts(o) ==
    /\ o \in radarTimer
    /\ IF o \in controlled
       THEN /\ coasting' = coasting \cup {o}
            /\ UNCHANGED <<listed, radarTimer, purgeTimer>>
       ELSE /\ PurgeTarget(o)
            /\ radarTimer' = radarTimer \ {o}
            /\ UNCHANGED <<coasting, purgeTimer>>
    /\ UNCHANGED <<feedVars, controlled, alertVars>>

\* noRadarReturn, for a listed object or one that is not listed any more.
\* An object with a controller coasts, starts a purge when it did not coast
\* before, and looks again in five seconds.
RadarTimer(o) ==
    /\ o \in radarTimer
    /\ IF o \in controlled
       THEN /\ coasting' = coasting \cup {o}
            /\ purgeTimer' = IF o \in coasting THEN purgeTimer ELSE purgeTimer \cup {o}
            /\ UNCHANGED <<listed, radarTimer>>
       ELSE /\ PurgeTarget(o)
            /\ radarTimer' = radarTimer \ {o}
            /\ UNCHANGED <<coasting, purgeTimer>>
    /\ UNCHANGED <<feedVars, controlled, alertVars>>

\* Mutant: the callback asks isAwaitingPurge, which nobody sets.
PurgeTimerAsks(o) ==
    /\ o \in purgeTimer
    /\ purgeTimer' = purgeTimer \ {o}
    /\ UNCHANGED <<feedVars, listed, controlled, coasting, radarTimer, alertVars>>

\* The callback of purgeTrack, which no radar return cancels.  The handle is
\* kept nowhere and a second pending purge of one object finds it gone.
PurgeTimer(o) ==
    /\ o \in purgeTimer
    /\ purgeTimer' = purgeTimer \ {o}
    /\ PurgeTarget(o)
    /\ UNCHANGED <<feedVars, controlled, coasting, radarTimer, alertVars>>

-----------------------------------------------------------------------------
(***************************************************************************)
(* Conflict alerts.                                                        *)
(***************************************************************************)
\* Mutant: only the target itself is asked whether its alerts are inhibited.
FoesOfAll(near, o) ==
    {f \in listed \ {o} : {o, f} \in near /\ alert[o] # "INHIBITED"}

\* The listed targets found in conflict with o; `near` is the set of pairs
\* that isInConflict finds.
Foes(near, o) ==
    {f \in listed \ {o} : /\ {o, f} \in near
                          /\ alert[o] # "INHIBITED"
                          /\ alert[f] # "INHIBITED"}

\* An entry is kept by callsign, with the object it was made for.
EntryOf(o, f) ==
    IF Callsign(f) \in DOMAIN conflicts[o] THEN conflicts[o][Callsign(f)]
    ELSE [target |-> f, isSuppressed |-> FALSE]

Entered(near, o) ==
    [c \in {Callsign(f) : f \in Foes(near, o)} |->
        EntryOf(o, CHOOSE f \in Foes(near, o) : Callsign(f) = c)]

\* setTargetsInConflict of every listed target.
SetTargetsInConflict(near) ==
    /\ conflicts' =
         [o \in Objects |-> IF o \in listed THEN Entered(near, o) ELSE conflicts[o]]
    /\ alert' =
         [o \in Objects |->
            IF o \notin listed \/ alert[o] = "INHIBITED" THEN alert[o]
            ELSE IF Foes(near, o) = {} THEN "NONE"
            ELSE IF \E f \in Foes(near, o) : ~EntryOf(o, f).isSuppressed
                 THEN "CONFLICTING" ELSE "SUPPRESSED"]

Pairs == {p \in SUBSET listed : \E o, f \in listed : o # f /\ p = {o, f}}

\* detectConflicts, at each rendering.
DetectConflicts ==
    \E near \in SUBSET Pairs :
        /\ SetTargetsInConflict(near)
        /\ alarm' = \E o \in listed : alert'[o] = "CONFLICTING"
        /\ UNCHANGED <<feedVars, lifeVars>>

\* Mutant: only the target itself remembers that it was acknowledged.
AcknowledgedAlone(o) ==
    [conflicts EXCEPT
        ![o] = [c \in DOMAIN @ |-> [@[c] EXCEPT !.isSuppressed = TRUE]]]

\* o has an entry for the object f.
Faces(o, f) == \E c \in DOMAIN conflicts[o] : conflicts[o][c].target = f

\* select, for a target in conflict: its entries, and its entry at every
\* object they name, are suppressed.
Acknowledged(o) ==
    [f \in Objects |->
        [c \in DOMAIN conflicts[f] |->
            IF f = o \/ (Faces(o, f) /\ c = Callsign(o))
            THEN [conflicts[f][c] EXCEPT !.isSuppressed = TRUE]
            ELSE conflicts[f][c]]]

\* A click on a listed target.
Select(o) ==
    /\ o \in listed
    /\ alert[o] = "CONFLICTING"
    /\ alert' = [alert EXCEPT ![o] = "SUPPRESSED"]
    /\ conflicts' = Acknowledged(o)
    /\ UNCHANGED <<feedVars, lifeVars, alarm>>

\* The command that toggles the alerts of a target: a click selects it first.
ToggleConflictAlerts(o) ==
    /\ o \in listed
    /\ alert' = [alert EXCEPT ![o] = IF @ = "INHIBITED" THEN "NONE" ELSE "INHIBITED"]
    /\ conflicts' = IF alert[o] = "CONFLICTING" THEN Acknowledged(o) ELSE conflicts
    /\ UNCHANGED <<feedVars, lifeVars, alarm>>

-----------------------------------------------------------------------------
Next ==
    \/ \E c \in Callsigns : Vanish(c)
    \/ \E c \in Callsigns, on \in BOOLEAN : Blip(c, on) \/ OwnershipClaimed(c, on)
    \/ \E S \in SUBSET listed : MassHandoff(S)
    \/ \E o \in Objects : RadarTimer(o) \/ PurgeTimer(o)
    \/ DetectConflicts
    \/ \E o \in Objects : Select(o) \/ ToggleConflictAlerts(o)

Spec == Init /\ [][Next]_vars

\* Browser timers fire.  While blips keep coming they may put the radar timer
\* off for good, so its fairness is that of an aircraft radar does not see.
FairSpec ==
    /\ Spec
    /\ \A o \in Objects :
        /\ WF_vars(Callsign(o) \notin flying /\ RadarTimer(o))
        /\ WF_vars(PurgeTimer(o))

-----------------------------------------------------------------------------
(***************************************************************************)
(* The values of the variables; one target at most is listed for a         *)
(* callsign, since a blip looks for one before it makes another.           *)
(***************************************************************************)
TargetTypeOK ==
    /\ flying \subseteq Callsigns
    /\ leavers \subseteq Callsigns
    /\ \A c \in Callsigns : made[c] \in 0..MaxTargets[c]
    /\ listed \cup controlled \cup coasting \cup radarTimer \cup purgeTimer \subseteq Made
    /\ alert \in [Objects -> Alerts]
    /\ \A o \in Objects : \A c \in DOMAIN conflicts[o] :
            c \in Callsigns /\ conflicts[o][c] \in Entries
    /\ alarm \in BOOLEAN
    /\ \A o, f \in listed : Callsign(o) = Callsign(f) => o = f

(***************************************************************************)
(* Every target on the display has a timer that will notice its silence,   *)
(* and one that coasts has a purge to come: the handlers clear and set     *)
(* timers in pairs, and a blip stops the coasting but not the purge.       *)
(***************************************************************************)
Watched ==
    /\ listed \subseteq radarTimer
    /\ listed \cap coasting \subseteq purgeTimer

(***************************************************************************)
(* select never fails: every object in the entries of a target in conflict *)
(* has an entry for that target, even when the object was purged since and *)
(* another one has its callsign (the entry is then still the old object's).*)
(***************************************************************************)
SelectSafe ==
    \A o \in listed : alert[o] = "CONFLICTING" =>
        \A c \in DOMAIN conflicts[o] :
            Callsign(o) \in DOMAIN conflicts[conflicts[o][c].target]

\* Two listed targets whose entries name each other.
EachOther(o, f) ==
    /\ Callsign(f) \in DOMAIN conflicts[o] /\ conflicts[o][Callsign(f)].target = f
    /\ Callsign(o) \in DOMAIN conflicts[f] /\ conflicts[f][Callsign(o)].target = o

(***************************************************************************)
(* An alert acknowledged on one target of a pair is acknowledged on the    *)
(* other, through purges, inhibited alerts and conflicts with third ones.  *)
(***************************************************************************)
SuppressionMutual ==
    \A o, f \in listed : EachOther(o, f) =>
        conflicts[o][Callsign(f)].isSuppressed = conflicts[f][Callsign(o)].isSuppressed

(***************************************************************************)
(* The alarm sounds as long as a target on the display has a conflict that *)
(* nobody acknowledged (detectConflicts, manageAlarm).                     *)
(***************************************************************************)
AlarmSounds == (\E o \in listed : alert[o] = "CONFLICTING") => alarm

(***************************************************************************)
(* A target only leaves the display by its own purge, or without a         *)
(* controller: the timers of an object purged before do not touch the      *)
(* target made since for the same callsign.                                *)
(***************************************************************************)
LeavesForCause ==
    [][\A o \in listed \ listed' : o \in purgeTimer \/ o \notin controlled]_vars

(***************************************************************************)
(* The target of an aircraft that radar does not see any more leaves the   *)
(* display, however often the control of the aircraft changes meanwhile.   *)
(***************************************************************************)
SilentLeaves ==
    \A c \in Callsigns : c \notin flying ~> Of(c) = {}

=============================================================================
