------------------------------- MODULE Target -------------------------------
(***************************************************************************)
(* A target of a client's display (target.js), reduced to what the control *)
(* of aircraft is about: who tracks it, the state of a handoff, and the    *)
(* timer that ends that state.  Each operator is a method: it takes the    *)
(* target before the call and gives the target after it.  The methods read *)
(* the client's own controller from the global scope: it is the argument   *)
(* `me`.  How the data block is drawn is left out.                         *)
(*                                                                         *)
(* `timers` is the set of callbacks of setTimeout that are still to come;  *)
(* the code keeps the handle of the last one only.                         *)
(***************************************************************************)
CONSTANTS Sectors,   \* identifiers of controllers
          NoOne      \* null

ControlStates == {"NORMAL", "OWNED", "INBOUND_HANDOFF", "HANDOFF", "POST_HANDOFF"}

Targets ==
    [state : ControlStates,
     controller : Sectors \cup {NoOne},
     other : Sectors \cup {NoOne},
     timers : SUBSET {"HANDOFF", "INBOUND_HANDOFF", "POST_HANDOFF"}]

NewTarget ==
    [state |-> "NORMAL", controller |-> NoOne, other |-> NoOne, timers |-> {}]

IsOwned(t, me) == t.controller # NoOne /\ t.controller = me

IsUndergoingHandoff(t) == t.state = "HANDOFF"

IsUndergoingInboundHandoff(t) == t.state = "INBOUND_HANDOFF"

SetController(t, i) == [t EXCEPT !.controller = i]

\* Mutant: no timer is started.
RequestSentForGood(t, to) ==
    [t EXCEPT !.state = "HANDOFF", !.other = to, !.timers = {}]

\* handoff: this client's request was forwarded to the sector `to`.
RequestSent(t, to) ==
    [t EXCEPT !.state = "HANDOFF", !.other = to, !.timers = {"HANDOFF"}]

InboundHandoff(t, from) ==
    [t EXCEPT !.state = "INBOUND_HANDOFF", !.other = from,
              !.timers = {"INBOUND_HANDOFF"}]

\* Mutant: the timer of the request keeps running.
AcceptKeepsTimer(t, me) ==
    [t EXCEPT !.state = "OWNED", !.other = NoOne, !.controller = me]

\* acceptHandoff: this client's acceptance succeeded.
AcceptSucceeded(t, me) ==
    [t EXCEPT !.state = "OWNED", !.other = NoOne, !.timers = {}, !.controller = me]

\* refuseHandoff: this client's refusal succeeded.
RefusalSucceeded(t) ==
    [t EXCEPT !.state = "NORMAL", !.other = NoOne, !.timers = {}]

HandoffAccepted(t, by) ==
    [t EXCEPT !.state = "POST_HANDOFF", !.controller = by, !.other = NoOne,
              !.timers = {"POST_HANDOFF"}]

HandoffRefused(t) ==
    [t EXCEPT !.state = "OWNED", !.other = NoOne, !.timers = {}]

ClearPostHandoff(t, me) ==
    [t EXCEPT !.state = IF IsOwned(t, me) THEN "OWNED" ELSE "NORMAL",
              !.other = NoOne, !.timers = {}]

\* The callback of each timer; the callback of HANDOFF says OWNED whether the
\* aircraft is still this client's or not.
Timeout(t, timer) ==
    CASE timer = "HANDOFF" ->
            [t EXCEPT !.state = "OWNED", !.other = NoOne, !.timers = @ \ {timer}]
      [] timer = "INBOUND_HANDOFF" ->
            [t EXCEPT !.state = "NORMAL", !.other = NoOne, !.timers = @ \ {timer}]
      [] timer = "POST_HANDOFF" ->
            [t EXCEPT !.state = "NORMAL", !.timers = @ \ {timer}]

\* A click on the target, whatever the command.
Select(t, me) ==
    IF t.state = "POST_HANDOFF" THEN ClearPostHandoff(t, me) ELSE t

\* Mutant: a return only corrects a controller that is shown already.
UpdateShownOnly(t, reported, found) ==
    IF t.controller # NoOne /\ t.controller # reported
    THEN SetController(t, found) ELSE t

\* Mutant: a return only fills in a controller that is missing.
UpdateMissingOnly(t, reported, found) ==
    IF t.controller = NoOne THEN SetController(t, found) ELSE t

\* A radar return: `reported` is the identifier it carries and `found` what
\* the client's list of controllers has for it.
Update(t, reported, found) ==
    IF t.controller = NoOne \/ t.controller # reported
    THEN SetController(t, found) ELSE t
=============================================================================
