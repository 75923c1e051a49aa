------------------------ MODULE TrackOwnership_proofs ------------------------
(***************************************************************************)
(* Proofs about the abstract control of aircraft, for any aircraft and any *)
(* sectors.  The two invariants together are inductive: a track that passes*)
(* needs its new sector staffed, and a sector that opens was never closed. *)
(***************************************************************************)
EXTENDS TrackOwnership, TLAPS

TypeInv ==
    /\ staffed \subseteq Sectors
    /\ retired \subseteq Sectors
    /\ tracks \in [Aircraft -> Sectors \cup {NoOne}]

Inv == TypeInv /\ OnlyStaffedTrack /\ NeverReopened

(***************************************************************************)
(* Only staffed sectors track aircraft and no closed sector is staffed     *)
(* again; whatever implements this specification inherits both.            *)
(***************************************************************************)
THEOREM OwnershipSafe == Spec => [](OnlyStaffedTrack /\ NeverReopened)
<1>1. Init => Inv
  BY DEF Init, Inv, TypeInv, OnlyStaffedTrack, NeverReopened
<1>2. Inv /\ [Next]_vars => Inv'
  <2>. SUFFICES ASSUME Inv, [Next]_vars
                PROVE  Inv'
    OBVIOUS
  <2>. USE DEF Inv, TypeInv, OnlyStaffedTrack, NeverReopened
  <2>1. ASSUME NEW i \in Sectors, Open(i)
        PROVE  Inv'
    BY <2>1 DEF Open
  <2>2. ASSUME NEW i \in Sectors, Close(i)
        PROVE  Inv'
    BY <2>2 DEF Close
  <2>3. ASSUME NEW a \in Aircraft, Drop(a)
        PROVE  Inv'
    BY <2>3 DEF Drop
  <2>4. ASSUME NEW a \in Aircraft, NEW i \in Sectors, Claim(a, i) \/ Transfer(a, i)
        PROVE  Inv'
    BY <2>4 DEF Claim, Transfer
  <2>5. CASE UNCHANGED vars
    BY <2>5 DEF vars
  <2>. QED  BY <2>1, <2>2, <2>3, <2>4, <2>5 DEF Next
<1>3. Inv => OnlyStaffedTrack /\ NeverReopened
  BY DEF Inv
<1>. QED  BY <1>1, <1>2, <1>3, PTL DEF Spec
=============================================================================
