--------------------------- MODULE TrackOwnership ---------------------------
(***************************************************************************)
(* What the simulation server promises about the control of aircraft,      *)
(* without sockets, messages or sessions: an aircraft is tracked by at     *)
(* most one sector, only a sector that is staffed tracks anything, a track *)
(* moves from one sector to another in one step, and a sector identifier,  *)
(* once given up, is never staffed again (so a message that still names it *)
(* can never be taken for a message of another controller).                *)
(***************************************************************************)
CONSTANTS Aircraft,   \* the aircraft of the simulation
          Sectors,    \* every sector identifier that can be handed out
          NoOne       \* nobody tracks the aircraft

VARIABLES staffed,    \* the sectors that have a controller
          retired,    \* the sectors that had one
          tracks      \* the sector that tracks each aircraft, or NoOne

vars == <<staffed, retired, tracks>>

Init ==
    /\ staffed = {}
    /\ retired = {}
    /\ tracks = [a \in Aircraft |-> NoOne]

\* A sector is opened, with an identifier nobody ever had.
Open(i) ==
    /\ i \notin staffed \cup retired
    /\ staffed' = staffed \cup {i}
    /\ UNCHANGED <<retired, tracks>>

\* A sector closes: it drops every aircraft it tracks, in the same step.
Close(i) ==
    /\ i \in staffed
    /\ staffed' = staffed \ {i}
    /\ retired' = retired \cup {i}
    /\ tracks' = [a \in Aircraft |-> IF tracks[a] = i THEN NoOne ELSE tracks[a]]

\* Start a track: only on an aircraft nobody tracks.
Claim(a, i) ==
    /\ tracks[a] = NoOne
    /\ i \in staffed
    /\ tracks' = [tracks EXCEPT ![a] = i]
    /\ UNCHANGED <<staffed, retired>>

\* Drop a track.
Drop(a) ==
    /\ tracks[a] # NoOne
    /\ tracks' = [tracks EXCEPT ![a] = NoOne]
    /\ UNCHANGED <<staffed, retired>>

\* A track passes from the sector that holds it to another staffed sector.
Transfer(a, i) ==
    /\ tracks[a] # NoOne
    /\ i \in staffed
    /\ tracks' = [tracks EXCEPT ![a] = i]
    /\ UNCHANGED <<staffed, retired>>

Next ==
    \/ \E i \in Sectors : Open(i) \/ Close(i)
    \/ \E a \in Aircraft : Drop(a)
    \/ \E a \in Aircraft, i \in Sectors : Claim(a, i) \/ Transfer(a, i)

Spec == Init /\ [][Next]_vars
-----------------------------------------------------------------------------
(***************************************************************************)
(* An aircraft is tracked by a staffed sector or by nobody: closing a      *)
(* sector (deleteController) releases all it tracks, and every way to get  *)
(* a track asks for a controller.                                          *)
(***************************************************************************)
OnlyStaffedTrack == \A a \in Aircraft : tracks[a] \in staffed \cup {NoOne}

(***************************************************************************)
(* A sector that was given up is not staffed again: the counts that number *)
(* the controllers of a position (addController) never go down.            *)
(***************************************************************************)
NeverReopened == staffed \cap retired = {}
=============================================================================
