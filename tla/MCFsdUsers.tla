----------------------------- MODULE MCFsdUsers -----------------------------
(***************************************************************************)
(* The lines of the users for TLC: pilots and controllers that log in,     *)
(* with what they ask for and what their certificate allows, a login that  *)
(* is refused, a supervisor, and the commands that end connections.        *)
(***************************************************************************)
EXTENDS FsdUsers

CONSTANTS c1, c2

LogsIn(cmd, c, req, cert) ==
    [cmd |-> cmd, callsign |-> c, req |-> req, cert |-> cert, fit |-> TRUE]

\* c1 flies, again and again; c2 controls as a supervisor.
FlightOf(c) == LogsIn("AP", c, 1, 1)

Supervisor == LogsIn("AA", c2, KillRating, KillRating)

Leaves(c) == [cmd |-> "D", callsign |-> c]

Kills(c) == [cmd |-> "KILL", callsign |-> c]

Traffic == {FlightOf(c1), FlightOf(c2), Supervisor, Leaves(c1), Kills(c1)}

\* The last of the three lines is one too many for a turn.
Written ==
    {<<FlightOf(c1)>>, <<Supervisor, Kills(c1)>>,
     <<Leaves(c1), FlightOf(c2), Kills(c1)>>}
=============================================================================
