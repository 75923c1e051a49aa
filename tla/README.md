# Verification of the TRACON simulator

TLA+ modules, TLC configurations and TLAPS proofs about the code of this
repository. The code has two programs: a browser-based radar simulator with its
Node server (JavaScript), and `fsd-server`, a C++ server network that flight
simulators connect to.

## 1. Inventory

| Component | State | Operations | Talks to |
|---|---|---|---|
| Simulation session (`server/SimulationSession.js`) | `_controllers` (sector id to controller and socket), `_sockets` (socket to sector id), `_controllerCounts`, and through the aircraft who tracks each | `ATC.addController`, `deleteController`, `initiateControl`, `terminateControl`, `requestHandoff`, `acceptHandoff`, `refuseHandoff`, `disconnect` | clients, by socket.io messages and callbacks; the traffic simulator, by calls |
| Client scope (`scope.js`, `ConnectionDelegate.js`, `radar.js`) | own controller, list of controllers, targets | `setControllerPosition`, the listeners of the server's messages | the session, the targets |
| Target (`target.js`) | controller, other controller, control state, handoff timer; radar-return timer, coasting, conflict entries, drawing flags | handoff methods, `update`, `select`, timers | scope, target manager |
| Target manager (`targetmanager.js`) | targets, conflicts, alarm | `massHandoff`, `detectConflicts`, purge | targets |
| Commands (`command.js`, `keyboard.js`) | the typed command, the last command, a cleanup function | one function per command | scope, targets, the session |
| Traffic (`traffic/*.js`, `SimulationCommands.js`) | aircraft, autopilots, clock | reports every five seconds, assigned heading, altitude and speed | the session's namespaces |
| Sessions (`server/SessionManager.js`, `LiveSession*.js`) | tables of identifiers | create, expire | HTTP server |
| Runway dependency (`crda.js`, `CRDAManager.js`) | list and set of pairs of runways | add or remove, toggle | targets |
| Facilities (`FacilityManager.js`, `facilities/`) | airports loaded so far | asynchronous load | HTTP API |
| FSD network (`fsd-server/fsd`: `servinterface`, `servuser`, `server`, `client`, `fsd`) | servers with their packet counts and hops, clients, routes | flooding of packets, registration of clients, synchronisation, timeouts | peers, pilots, controllers |
| FSD certificates (`certificate`, `sysuser`, parts of `servuser` and `fsd`) | a list of certificates at each server, its file | `cert` commands, reading the file, CERT packets, feeds | all servers |
| FSD users (`process`, `interface`, `user`, `cluser`, `clinterface`) | connections, their buffers and kill flags, `thisclient`, the counter of users | accept, lines, logins, kills, pings, timeouts, removal | the list of clients, other servers |
| FSD weather (`mm`, `wprofile`) | METAR file, queue of requests | download, request | servers |

What is hard in it:

* **Who tracks an aircraft** is known in three places: the server's aircraft,
  each client's target, and the messages on the way. Handoffs go through two
  clients and a server that remembers no request; each client runs its own
  ten-second timers. Positions are taken and given up, and connections lost, at
  any moment in between. What must hold: one controller at most; never one that
  has left; displays never show a wrong one for good; a track moves only with
  both sides' consent.
* **Identifiers** are made from counts that never go down, so that a message
  that still names an old controller cannot be taken for a new one.
* **The life of a target**: radar returns, coasting and purge are timers that
  race with each other.
* **Conflict alerts**: suppression is kept in entries that two targets share.
* **The FSD network** floods packets in a graph with cycles, drops copies by
  count, and must agree on who is connected where although links fail.
* **Certificates** are copied to every server, by commands, files, packets and
  feeds that cross each other, and carry the time and origin of their last change.
* **FSD users** are taken out later than they are killed, and hold pointers to
  clients that other servers' packets also remove.

The hazards of the code, each at its line, are listed in `PROJECT.json`.

## 2. Modules

| Module | Models |
|---|---|
| `TrackOwnership` | what the server promises about the control of aircraft, without sockets, messages or sessions |
| `SimulationSession` | `SimulationSession.js`: one action per listener, the tables, and the queue of messages to each socket |
| `Target` | `target.js`: the methods about control and handoff, as operators on a target |
| `ControlNetwork` | the session with its clients: scopes, targets, commands, requests under way, lost connections and reconnection |
| `TargetManager` | the life of targets (radar returns, coasting, purge, replacement) and the conflict alerts between them |
| `FsdNetwork` | the servers of `fsd-server`: connections, flooding, the packet count filter, routes, the register of clients, timeouts and crashes |
| `FsdCertificates` | certificates: commands, files, trusted hosts, flooding, feeds, restarts |
| `FsdUsers` | the users of one server: the loop, logins, kills, timeouts, the limit on users |
| `TrackOwnership_proofs`, `SimulationSession_proofs`, `TargetManager_proofs`, `FsdNetwork_proofs`, `FsdCertificates_proofs`, `FsdUsers_proofs` | theorems about the module of that name |
| `ControlNetwork_proofs` | theorems about the clients and the session together |
| `FsdPeace_proofs` | theorems about flooding, routes and registers of `FsdNetwork` while its connections stand |
| `MC*` and `*.cfg` | instances for TLC |

### SimulationSession

Node runs a listener to its end before the next, so each is one step. `sockets`,
`controllers` and `counts` are the three tables of the class; `owner` is
`aircraft.controller()`, as an identifier (controllers are in one-to-one
correspondence with identifiers, because an identifier is handed out once).
An identifier is the pair of the position and the count at that moment:
`positionSectorId` gives different strings for different pairs. `outbox` is what
socket.io holds for each connection, in order; a message to a closed socket goes
nowhere. In `SimulationSession` by itself a client may send *any* request with
*any* arguments at any time, so what is shown there does not rest on the client.

The listeners answer unknown callsigns with `false`; the model has no such
request because the answer is that of any other refused request.

### Target and ControlNetwork

A client is its connection `sock`, its own sector `me`, its list `known`, its
`targets` and the requests it has under way (`inbox`). The commands that emit
requests are actions: IC, TC, a handoff to a sector, a bare click. Each begins
with `scope.select`, which ends the state after an accepted handoff. A command
that would read the identifier of a missing controller throws; `Command.run`
catches it and nothing is sent. Callbacks of requests are messages of the same
ordered connection (socket.io sends acknowledgements as packets).

`setControllerPosition` has no caller in the page at present (`main.js` 73 and 76
are commented out); it is the interface the page offers, called here at any
time, also while an earlier call waits for its answer.

A lost connection loses the requests under way and the messages not yet read;
the client keeps its state and gets a new connection; the server notices at any
later time. `picks` bounds the model; `heard` and `asked` are history variables
that no guard reads.

Left out of a target here: how its data block is drawn (expanded, quick look,
three-second peek), and coasting and purge, which are in `TargetManager`.

### TargetManager

A target is an object, `<<callsign, n>>`, because timers and conflict entries
keep an object when the list of the manager has let it go or has another one of
that callsign. `Blip` is `Radar.sync` with `updateFromBlip`; `RadarTimer` is
`noRadarReturn` and `PurgeTimer` the callback of `purgeTrack`, whose handle nobody
keeps, so a radar return does not cancel it. `DetectConflicts` is one rendering:
every listed target gets its entries anew, one after the other, for any set of
pairs below the minima, and the alarm is set. `Select` and `ToggleConflictAlerts`
write the entries of the other target, found through the entry, listed or not.

Delays are left out: a pending timer may fire at any moment, which covers every
order. Control is on or off here; who has it is `ControlNetwork`'s question.

### FsdNetwork

Each server process runs one loop (`fsd::run`, `tcpinterface::run`) and finishes
a packet, a timer or a closed connection before the next, so each is one step.
`table[s]` is the list `rootserver` of the server `s` with the four fields of
`class server` that routing uses; `clients[s]` is its list `rootclient`, by the
server of each callsign. The ends of a connection are separate: `links` holds
`<<s, n>>` while `s` has a `servuser` for `n`, so one end can be gone for some
time before the other knows. `wire[<<s, n>>]` is what `s` wrote and `n` has not
parsed, the buffers and TCP together.

`Receive` is `servuser::doparse`: `Discard`, the filter (`Rerouted`, `Seen`,
`Passed`), the command (`Exec...`), then `sendpacket` again (`Relay`). What a
server sends itself goes through `Own` and `Counted`, which are `sendpacket` and
`incpacketcount`, with the RESET at the end of the range. `RemoveUser` is the
destructor of `servuser` with its LINKDOWN and SYNC, whichever way the connection
was closed. `Feed` is `servuser::feed` to a new neighbour.

Who dials (`Connect`, `Reconnect`) asks only its own list whether the connection is
there already (`adduser`, interface.cpp:298-304). The other side takes every
connection unasked and removes its old user of that name only later
(`tcpinterface::run`, 230-241), so a server that has started again may be connected
while its neighbour still has the former end, its routes over that end and the
packet counts. `Reconnect` is this case: the old end goes on under the name of a
member of `Stubs`, which stands for the old `servuser` object (its pointer stays in
`path`), until `Close` removes it; what was in its buffers may still be read.
`Peers` are the servers and the stubs. A stub may have been dialled and not accepted
yet; such ends are accepted in any order, which is more than the order of the
queue of `accept`.

`started` says whose process has come to its main loop: before it, a process dials
and feeds (`makeconnections`) but accepts and reads nothing. `Start` is the end of
`makeconnections`, the RESET of fsd.cpp:422: the count goes back to 0, and
`execreset` makes whoever reads it take the packet with the count 0, the next one,
for one it has seen. `lastsync` is not initialised, so the first SYNC
(`Sync`) may come at any time after that.

The environment: connections are made and fail (what is under way is lost),
processes die and start again with nothing, users log in, leave and send
messages; `Budget` says how often. Timeouts are steps that may happen when
nothing has been heard for far longer than packets travel (`Silence`); that
`USERTIMEOUT` is below `SERVERTIMEOUT`, which `global.h` warns about, is in that
guard: connections that are dead have been closed by then.

Simplified: of a pair of servers it is always the same one that dials; a user logs in
once on its connection; no server is silent; packets that only carry data to users are
represented by MC; the servers and clients of a feed come in any fixed order
(only that a server's own NOTIFY comes after those of the others, which is the
order of the list, is kept). Left out: PING and PONG and weather; certificates
are in a module of their own.

### FsdCertificates

`certs[s]` is the list `rootcert` of `s`. `Add`, `Delete` and `Modify` are the
administrator's commands, `ReadCert` is `readcert` when the file has a new time,
`Crash` a process that dies and begins with its file. `Receive` is
`servuser::execcert`: `Heeded` is its early returns, `Authorized` the list of
trusted hosts, `Executed` the change; a packet that is heeded goes on even when
it is not carried out. An addition to what is known is
`configure(NULL, level, ...)`: the password stays. `Feed` is the CERT part of
`servuser::feed`, certificate by certificate, as additions.

The networks have no cycle, so the packet count filter of `FsdNetwork` has no copies
to drop. But it also drops packets that are no copies, after a restart, a RESET or a
new connection over an old end. `Ignore` takes any packet away unread, `Budget`
times, and so stands for more than the filter does; a packet that comes back to its
own server over an old end is always ignored, as in `doparse`. Connections are as in
`FsdNetwork`, with `Reconnect` and stubs.

`mgmtime` is `mktime(gmtime(&now))` (support.cpp:259-263): the clock of the server's
own host, shifted by the time zone of that host. Every server has therefore its own
time here, `clock + Offset[s]`, with any offsets. An offset is constant: `gmtime`
says that there is no daylight saving, so the shift is that of the zone's standard
time; that the clocks of hosts go equally fast and are not set while servers run is
assumed. Time is in whole seconds, as in the code: two changes in one second are
not told apart, and the properties that need it say so (`TimesTell`). `issued`,
`authors`, `deleted`, `backdated`, `dropped` and `lost` are history variables that no
guard reads.

### FsdUsers

One server, one thread. `Poll` starts a pass of `tcpinterface::run` when `select`
returns; each user then has a turn: `Remove` if it was killed, otherwise `Begin`
(reading) and one `Parse` for each line. At the end of the burst `DropLine` takes
one line more out of the buffer, as `absuser::run` does before it tests the count,
and `Flood` kills a user above the flood limit, whose feed is not
modelled: it may happen at any line. `EndPass` runs `dochecks` when the
second has changed: pings first, then timeouts. Packets of other servers
(`RemoteJoins`, `RemoteLeaves`, `RemoteKills`) come between two passes.

`heap` is the list of clients by the place each is allocated at, so that a pointer
`thisclient` can dangle and a place be reused. `ExecAA` refuses a second login and
`ExecAP` does not: its check is commented out. A line carries what `checklogin`
would answer for it. Environment: programs connect, write some lines at once, hang
up, and stop reading (`WriteFails`); the pass goes through its list in any order.

## 3. Runs

| Run | Question | Bounds |
|---|---|---|
| `session_control` | do the tables stay consistent, is every change announced, is the last word under way the truth, does the session implement `TrackOwnership` | 3 sockets, 2 aircraft, one position, queues of 1 when a handler starts |
| `network_handoff` | do displays, timers and consent survive pipelined commands and lost connections of two clients | 2 clients, 2 connections, 2 picks, 2 messages or requests under way in all |
| `network_liveness` | do displays converge and handoff states end | 2 clients, one message or request under way |
| `targets` | do clicks, purges and alarms survive every order of blips, timers, renderings and replacements | two aircraft, one of which may be made twice; or one that leaves |
| `fsd_flooding` | is flooding with overtaking copies exact while nothing fails | ring of 3 servers; one login, one logout, one SYNC or NOTIFY, one message; or two clients online, two SYNCs, one message |
| `fsd_failing` | does what goes the other way round, or the feed after a repair, make up for a lost connection; does every packet carry what its command reads | ring of 3: one failure, login, logout, message; chain of 3: one failure, one new connection, login, logout |
| `fsd_restart` | what of a server's former life harms its neighbour | 2 servers from the start of their processes, the client at the one that is dialled: two connections, the second over an old end or not, one crash of either, two logins, one logout, one SYNC or NOTIFY, one timeout |
| `fsd_certificates` | do the copies end up equal, and is nothing kept that is not authorised | chain of 3, one server listing only the middle as trusted (not itself), the middle's time a second ahead, one certificate, 2 passwords, 2 levels, 3 seconds; five budgets: three commands; a file; a failure and a repair; a crash, with the connection made again over the old end or not; a packet ignored |
| `fsd_users` | do pointers, callsigns and the limit survive every order of lines, kills, removals and other servers' packets; does who is silent go | 2 connections, 2 callsigns, 2 places, limits of 1 and 2, bursts of 3, timeouts of 2 |
| `fsd_reboot_in_ring`, `fsd_passwords`, `fsd_second_login` | three disagreements, see below | the same networks |

`MaxOutbox` bounds how many messages may wait for a connection when a handler
starts; a handler itself may add several. One position is enough because a
position only chooses the text of an identifier and its own count. Two clients
are a sender and a receiver of handoffs; three sockets add a bystander, or one
more connection of the same client. Three takes of a position allow a socket to
take two while another has one. Aircraft are independent of each other but for
the releases of a closing sector, for which `session_control` has two.

The abstract `TrackOwnership` has no run of its own: `session_control` checks that
the session implements it, and its promises are proved.

In `targets` a target can be purged, made again and meet the conflict entries and
timers of the object before it. In `fsd_certificates` three servers are the
fewest for a relay between two servers, and with one that does not trust the far
end; the five budgets together with two passwords and levels let two changes cross
and a feed meet a later change. An offset of one second in three is enough for a
later change to get an earlier time, an equal one or a later one. `Stubs` has one
name in `fsd_failing`, `fsd_restart` and `fsd_certificates`, where at most one
connection is made over an old one; in `fsd_flooding` no connection is made, and in
`fsd_reboot_in_ring` the disagreement needs none over an old end. Passwords and levels
are only compared, so they may be permuted. In `fsd_users` `MaxBusy` bounds how many users have lines or an
end under way at once (one; what is registered, killed or timed out is not
bounded by it); a burst of 3 is the 60 of `absuser::run` scaled down so that three
lines written at once are one too many.

What the properties say:

* `SocketIndex`, `OwnerStaffed`: the tables agree; nobody tracks from a closed
  sector. The converse of `SocketIndex` is false of this code: a socket that
  takes a second position leaves a *ghost* entry behind. `GhostNeverOwns` shows
  why this does no harm to tracks: a client adds only while it has no position,
  and what it emits afterwards is served afterwards.
* `Announced`, `LastWord`, `LastList`: a change leaves a message to everybody,
  and the last message is the truth.
* `NoWrongOwner`, `InboundKnowsSender`, `TimerMatchesState`,
  `ConsentedTransfer`, `DisplaysConverge`, `HandoffsEnd`: the same on the
  clients' side.

* `Watched`, `SelectSafe`, `SuppressionMutual`, `LeavesForCause`, `SilentLeaves`:
  no target is forgotten by its timers, no click fails, what is acknowledged on one
  side is so on the other, and an old object's timer never takes the new one.
* `RoutesAreLinks`, `ClientsHaveServers`: pointers between servers, connections
  and clients never dangle. `ClientsKnown`, `NoGhosts`: when the network is at
  rest every reachable server has the clients that are online and no others.
  `HeardOnce`, `HeardByAll`: messages arrive, once; the latter is `EveryoneHears`,
  about messages to everybody, and `AddresseeHears`, about those to one client.
  They are checked and, `AddresseeHears` excepted, proved while connections stand
  (section 4). `DiallersKnow` is what is left of `ClientsKnown` between two servers
  that start, dial and start again: the one that dials learns who is online at the
  other. `RoutesLead`: at rest routes lead where they
  should. `NetTypeOK` says of every packet under way that it has what its command
  reads: the wires carry arrays of strings, and nothing in the code checks them
  beyond their number.
* `Followed`, `LevelsAgree`: at rest the servers that list a certificate's
  origins as trusted agree on it; wholly, while one server gives the commands and
  nothing fails, otherwise on its level, time and origin. A server has to list *its
  own* name too if it changes certificates: `execcert` looks every origin up, and one
  that is not in its own list does not take its changes back from the neighbours
  after a restart (`Listing`; the proof of `LevelsAgree` did not go through before
  this was said, and TLC has the counterexample). `LevelsAgree` is about
  a certificate that nobody deletes, none of whose packets is ignored (`dropped`),
  and that no server replaces by one of an earlier time (`backdated`). The last
  happens: `execmodify` stamps a change with the time at its own host whatever it
  replaces (sysuser.cpp:567), so a change made at a host whose clock or zone is
  behind gets an earlier time, and all other servers refuse it for good
  (servuser.cpp:482). For this reason it is no property of the code either that a
  certificate is never replaced by an older one. docs/protocol.txt:158 calls the time
  of a CERT packet a "GMT creation time", which it is only where the zone is GMT.
  `Authentic`: nothing is kept that its origin did not make, or that came from
  an origin that is not trusted.
* `PrivateClients`, `UniqueCallsigns`, `WithinLimit`: `thisclient` never dangles
  or is shared; no two clients have one callsign; at most `maxclients` users are
  served. `NobodyLingers`: a user that says nothing, or was killed, goes.

Three servers in a ring are the smallest network with two ways between each pair,
so that copies overtake each other; a chain is the smallest that can be cut so
that one server learns of it only from another. `SettledInit` starts the runs
after the feeds and first SYNC packets, with counts that are
not at the start of their range. `MaxHops`, `MaxSpace` and `DropLimit` are scaled
down; no run reaches the last two but through a reset.

What the code does not keep (the runs that expect a violation):

* `fsd_reboot_in_ring`: a server that starts again counts from 0. A server that
  still has a route and a count from its former life drops its new packets, while
  another, which has closed its old end, takes them and passes them on:
  `OneKnowsAllKnow` is violated.
* `fsd_passwords`: the feed to a new neighbour is made of additions, and an
  addition to a certificate that is known keeps the old password but takes the new
  time, after which nothing corrects it.
* `fsd_second_login`: a second login of a pilot leaves its first client on the
  list, with no connection that would remove it.

New packets are dropped as old between two servers as well, which is why
`ClientsKnown` is not checked of servers that start. As long as the neighbour of a
server that has started again has the old end, it has the former count too, and
drops the NOTIFY of the feed and everything that is flooded, the ADDCLIENT of a login
included. And a neighbour that knows no former count reads the RESET of the start and
drops the packet after it, which may be the ADDCLIENT of a client that logs in at
once; this needs no crash. (With the client at the server that dials, TLC finds
`ClientsKnown` violated in ten states.) `fsd_restart` shows what remains true: the
dialling server has closed its own end before it dials, so it has no count of the
other's and takes the whole feed (`DiallersKnow`); no route and no client's server
dangles (`RoutesLead`, `ClientsHaveServers`).

Two more hazards of the packet counts are not shown by a run. At the end of
the range there is a RESET as at the start, and the packet after it is dropped. And
losing a route forgets the count, so that old copies pass again: for this reason `NoGhosts` holds only while no connection fails (an old ADDCLIENT may come
back), until the client timeout.

`ClientsKnown` also fails in three larger scenarios, for which there is no run:
a callsign that leaves one server while it logs in at another (the ADDCLIENT and
the RMCLIENT cross, and `execrmclient` asks only for the callsign); a feed that
meets a server that knows the client although the servers behind it have timed it
out (`execaddclient` then does not forward); and a new connection whose feed
overtakes older packets, which are dropped, before the connection fails again.

`DisplaysConverge` is about clients that have a position. A client that has none
may show tracked aircraft as untracked for as long as nobody takes or leaves a
position: it is sent no list when it connects.

Fairness: messages of a live connection arrive, the five-second interval of each
aircraft fires, and timers fire. The bound on queues can make an interval wait,
which the code never does; strong fairness makes up for it. Nothing is assumed
of controllers, of connections being made or lost, or of the server noticing.
In `targets` the purge timer fires, and the radar timer of an aircraft that radar
does not see any more; while blips come they may put it off for ever.
In `fsd_users` the loop goes on (`Loop`), because `select` waits a second at most,
and time goes on: `Tick` is only possible in `select`, which passes enter and leave
for ever, hence strong fairness. No user has to connect, speak or leave.

## 4. Proofs

For all values of the constants (the aircraft a finite set):

* `OwnershipSafe`: the abstract specification keeps its two promises.
* `TypeCorrect`: the types of the session.
* `SocketIndexCorrect`, `OwnerStaffedCorrect`: the inductive invariant adds
  `CountsAhead`: the count of a position is beyond every identifier that is
  staffed, without which a new entry could overwrite an old one. The proof first
  reduces the eleven kinds of step to four effects on the tables (`Effects`).
* `Refinement`: the session implements `TrackOwnership`, from the same invariant.
* `LastWordCorrect`: by lemmas on what appending, joining and taking from a queue
  do to its last word (`LastSaysAppend`, `LastSaysConcat`, `LastSaysTail`); the
  releases of a closing sector need that the order of a finite set's elements
  meets every element (`ReleasesShape`). The invariant adds that nothing is under
  way to a connection that is not open.
* `LastListCorrect`: the same argument for the list of controllers (`ListInv`).
* `AnnouncedCorrect`: `Grows` says what a handler may append to the queue of a
  connection (changes of track are told, an acceptance is told with its change, a
  request comes from a staffed sector, an answer is about the request that was
  made); each handler has a lemma.

* `NetworkImplementsSession` (clients and server): every step of `ControlNetwork` is
  a step of the session or leaves it alone, so the theorems above hold of the
  session among its clients too.
* `NoWrongOwnerCorrect`, `InboundKnowsSenderCorrect`, `TimerMatchesCorrect`,
  `NetworkTypeCorrect`: for any number of clients and connections, with connections
  lost at any time. None is inductive. `NetworkInv` adds what is known of a
  client when a message in its queue will be read (`Waits`): the last list before it
  and the last name given to the client before it; so a request under way names a
  sector of the list that the client will have by then, and an acceptance is
  followed by the word that tells the truth. `Waits` is kept by what the server
  appends (`WaitsAppend`, from `Grows`) and by taking the oldest message
  (`WaitsTail`); `ClientSteps` reduces every step to four cases for one client: it
  keeps still, it begins on a new connection, the server goes on, or it acts. That
  the last list and the last word are true is taken from the session's invariant.
* `ConsentedTransferCorrect`: `OwnerChanges` says that an aircraft passes on only
  when an acceptance is served on a connection that speaks for the new sector.
  `ConsentInv` traces the acceptance back: what is accepted by a request under way,
  offered by a target on the display, or about to be offered by a message under
  way was asked of that very client.
* `GhostNeverOwnsCorrect`: a client may send "add" twice before it hears of its first
  position, so a connection's position can change under it. `FreshInv` says that
  sectors a client has, has spoken for, or will be told of were handed out, so a
  new one is none of them. `Position` follows the sector that a connection speaks
  for: the message that gives it to the client is the last one that gives a sector,
  and once a request in its name is under way, or it tracks something, no "add" is
  behind that.
* `RoutesCorrect`, `ClientsHousedCorrect` (FSD network): for any network, any faults
  and any order of packets. `PointersInv` is inductive and assumes nothing of the
  packets: a route is a connection, a client's server is on the list, and a server's
  own entry stays. Every packet's effect on a table goes through `Tabled`, `Cleared`
  or `Downed`, which have a lemma each.
* `NetTypesCorrect` (FSD network): the types, those of the packets under way included
  (`TypesInv`; a handler may only read a field that its command has, so the types of
  variables and packets go together). What is written to a connection is a
  `FlattenSeq`, whose type needs induction over a sequence (`Induction`, `Flat`).
* `HeardOnceCorrect`, `CountsCorrect`, `HeardOnceInPeace` (FSD network): no message is
  heard twice, in any network, with cycles or without. `OnceInv` is inductive as long
  as no server's count of another one's packets goes back (`CountsGrow`): all copies
  of a message have the sender and count it was sent with; a server that has handled
  a broadcast refuses every copy that is under way (`Refuses`); and what goes to one
  user is a single packet until a server without a route makes a broadcast of it.
  `Spread` says where copies after a step come from. The condition is needed:
  TLC finds a message handled twice in the network of `fsd_failing`, where a server
  loses its route, and its count with it, before a late copy comes. `CountsCorrect`
  proves that there are three ways only for a count to go back: losing a route
  (`RoutesKept` fails), giving in after `DropLimit` drops (`NoneGivesIn`), and a
  RESET (`NoReset`), be it that of the start of a process or that of the end of the
  range. In `HeardOnceInPeace` these are the conditions.

* `EveryoneHearsInPeace`, `RoutesLeadInPeace`, `ClientsKnownInPeace`,
  `NoGhostsInPeace` (FSD network): a network that is `Settled` stays in order for as
  long as it is left in peace, whatever is said and whoever logs in and out, in
  networks with cycles too. The four are true of a network at rest; the invariant,
  `Peaceful`, says what is true meanwhile:
  - `Flooded`: a server that has handled a broadcast refuses every copy of it, and each
    of its neighbours has handled it too or a copy is on the connection (`Handed`),
    so that with nothing under way whoever can be reached has handled it. A later
    packet of the same origin does not come before it on any connection, unless the
    reader has it (`InOrder`): a later count never shuts out an earlier broadcast. A
    copy has made no more hops than there are servers that handled it (`Traced`), so
    the hop limit never ends one that is needed.
  - `Heard` and `Registered`: who has handled the broadcast has done what it says. For
    the register of a callsign, `Told` gives its value after each packet of the one
    server whose client it was last: a server that has come to a count has the value
    that belongs to it.
  - `Routed`: a route leads where it says, or a copy that will correct it is coming.

  No variable holds the broadcasts that were sent, so the invariant is about some set
  of packets, under a quantifier; each step has to name the new one, which is the
  old one and what the step sends.

  What is assumed of the behaviour, and why each part is needed: no connection is
  made or lost, no process starts or dies, nothing times out and no count starts again
  (`Calm`: section 3 has what happens otherwise); no server has given in, and no
  packet is `MaxSpace` ahead of what its reader has seen (`Peace`: such a packet is
  dropped); the network has at most `MaxHops + 1` servers (eleven; with more, the
  hop limit may end a broadcast before its last server); and, for the registers only,
  a client changes servers when the news of what it did before have arrived
  (`Orderly`): in a server that knows the client already, `execaddclient` does not pass an ADDCLIENT on,
  and if the two logins cross, servers behind it never hear of one. These are
  conditions on the environment and on sizes. A network is settled at its start, and
  again whenever feeds, first broadcasts and corrections are through; every
  behaviour of `fsd_flooding` begins settled and meets all of them (TLC agrees, with
  `Settled` asked of the initial states, `Peace` as an invariant and `Calm /\ Orderly`
  as an action property of that run; it is not a run of its own because these are
  hypotheses and say nothing of the code).

* `WatchedCorrect`, `SelectSafeCorrect`, `AlertsCorrect`, `LeavesCorrect` (targets):
  the invariant `Inv` adds that every entry of an object is about its callsign and
  that whoever a listed target has in its entries knows that target's callsign
  (`Known`, in conflict or not: `SelectSafe` alone says it only of targets in
  conflict, which is not enough when they get in conflict again), and that objects
  not made yet have no alerts (`Fresh`). `AlertsCorrect` also states
  `AlarmSounds`. `TargetTypeCorrect`: the types, from `Inv` and the bounds (`Fed`).
* `CertInvariant`, `AuthenticCorrect` (certificates): for any servers, budgets,
  offsets and lists of trusted hosts. The invariant adds that no certificate is dated
  after the present time at the host of its origin (`Dated`), and that what is under
  way was made by its origin (`Wired`). `Transmit`, `Feed` and `Changes` have a lemma
  each; the step lemmas go action by action.
* `LevelsAgreeCorrect`: for any servers, offsets of their clocks, lists of trusted hosts,
  lost and renewed connections and restarts. `LinksInv` says how the two ends of a
  connection know of each other, and that an end under the name of a stub has no
  other side any more. `CopiesInv` says of a connection that will be read at both
  ends (`Live`), of two servers that list all origins, and of a certificate that is
  `Plain` (nobody deleted or backdated it, and no packet about it was ignored; each of
  the three breaks the agreement): what one
  end has, the other has too, or newer, or a packet under way will give it (`Copied`,
  `Covered`: an addition has to come before a modification if the other end has
  nothing yet); and nothing on the way is newer than what its sender has. At rest,
  times are then equal across every connection, hence along every path, and equal
  times mean the same change (`TimesTell`).
* `FollowedCorrect`: one server `a` gives the commands. In a tree everything moves away
  from it (`Downwards`), and on each connection the packets under way turn what the
  reader has of a certificate, one by one, into what the writer has (`Carries`, by a
  history of the values in between; `Descends`, `FollowInv`). The delicate step is the
  feed to a connection that opens while changes are under way: who is fed has
  nothing yet, and reads every later change after the feed (`Reached`).
* `UsersTypeCorrect`, `PrivateClientsCorrect`, `UniqueCallsignsCorrect`,
  `WithinLimitCorrect` (users): the four together are inductive (`UsersInv`); that
  a client is removed safely needs that no other connection has it, and that a
  packet of another server removes no client of this one. The proof reduces what a
  line can do to two effects: a client is registered, or no pointer changes.

Assumptions: those named `...Assumption` in the modules, which only give the
constants their types, say that sets are finite, bounds are numbers, and keep null
values apart from what they stand beside; and `NoCycles` of `FsdCertificates`, that
the connections are a tree (or several), which is what that module models: in a
network with cycles the packet count filter of `FsdNetwork` drops the copies that
come the other way. Only `FollowedCorrect` uses it. The theorems about `HeardOnce`
and those of `FsdPeace_proofs` have hypotheses about the behaviour, which are stated
in them.

Only model-checked:

* `AddresseeHears`, the second half of `HeardByAll`. A message to one client follows
  the routes of the servers on its way. Each route is right when nothing is under
  way, but a copy that comes late by a shorter way may turn a route
  (`Rerouted`) while the next server has still the old one, and in a larger network two
  such routes may point at each other for a while; a message that meets its own count
  again is dropped. So it is checked in the ring of `fsd_flooding` only.
* `EveryoneHears`, `RoutesLead` and `DiallersKnow` when connections fail or are made, or
  servers restart: of the instances and budgets of `fsd_failing` and `fsd_restart`.
  `ClientsKnown` and `NoGhosts` are not true of such behaviours (section 3).
* `DisplaysConverge`, `HandoffsEnd`, `SilentLeaves` and `NobodyLingers`: liveness
  under fairness is out of the prover's reach.

Induction over sequences: the library's induction theorems take an operator as a
parameter, which the provers cannot instantiate. Where it is needed, the set of the
numbers for which a statement fails is defined, and `WFMin` gives its least element
(`Least`, `Induction` in `FsdNetwork_proofs`).

## 5. Not modelled

* **Vendored code.** `server/redis` is a copy of Redis and two thirds of the
  implementation lines of the repository; libraries and builds besides. None of it
  is this program, so the share of all lines that these modules stand for stays
  small by nature.
* **Numeric code**: flight dynamics, autopilots, geometry, runway dependency aids,
  wind and temperature profiles. It computes over reals.
* **Drawing, maps and texts**: no other part relies on their state. The texts of
  sector identifiers are left out as well: from the tenth controller of a position
  on they have three characters, and the handoff command reads two.
* **Sessions**: two tables and one twelve-hour timer each. They fail if two random
  halves of identifiers are equal, which a model would only restate.
* **Facilities, data services, weather**: queries, files, a download and a cache;
  results are the same in any order.
* **Of the FSD servers**: PING and PONG, silent servers, guards of the connections
  between servers, flight plans and positions, the administrator's port but for
  its certificate commands, and what is written to users. Certificates and users
  are checked by themselves, not together with `FsdNetwork`.

What could be proved next: `DiallersKnow` for any number of servers that dial one
another, from an invariant that adds what a feed has still to bring; and
`AddresseeHears` in networks whose routes no longer change.
