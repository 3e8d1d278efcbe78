# A TLA+ verification of the conveyor sorting twin

This directory models the conveyor sorting cell of this repository in TLA+, checks the models with
TLC on small instances and proves the main theorems with TLAPS. Each module is translated from the
Python (or other) source it names; `PROJECT.json` maps every definition to the lines it stands for,
lists the runs, the mutants that show each property can fail, the hazards and the findings.

## 1. The system

A sorting cell is a conveyor with two photo-eyes and a diverter. Parcels are read at `pe_001`,
decided upon at `pe_002`, and leave at the diverter for CHUTE_A (arm extended) or CHUTE_B. A software
PLC scans a process image: it reads the input tags, runs a control program, writes the output tags.
A *master* (the scenario runner, the live twin engine, an HMI, a Modbus or OPC UA client) writes
sensors and buttons into the image and reads actuators from it.

```
 scenario / HMI client            plant                    soft PLC
 events, commands  --> inputs --> SceneModel  --sensors--> process image --> scan (control program)
                                     ^                          |
                                     +------ motor, arm --------+     (TagGateway over a transport)
```

| Component | Source | State it keeps | Operations | What is hard | What makes it correct |
|---|---|---|---|---|---|
| MVP sorting program | `plc/control_logic_mvp.py` | latches (running, jam), arm, pending decision, counters, jam timer, previous inputs | `scan`: reset, stop, start, jam timer, decision, count | long sequences of buttons and edges | no decision survives its parcel; arm, decision and counters agree; restarts are deliberate; jam latched |
| Advanced program | `plc/control_logic_advanced.py` | the same and `read_idx` | `scan` with a dequeue | two indices on two sides that never meet | the ring mirrors the line |
| Phase 0 program | `plc/control_logic.py` | throughput, previous sensor | `scan` | sensor and destination written apart | each parcel counted once, arm for its own destination |
| Soft PLC | `plc/soft_plc.py` | program state, last inputs and outputs | `scan_once`, loop, `serve`, `stop` | copies tags one by one while masters write | a scan works on inputs that belong together |
| Plant | `simulation/scene_model.py` | list of parcels, published destination, chutes | `spawn`, `inject_jam`, `clear_jam`, `step` | order within a step, removal under an eye | parcels leave for one chute, once |
| Scenario runner | `simulation/scenario_runner.py` | button levels, ring write index, result | events, tick | events in any order before a tick | counters and chutes agree |
| Live twin engine, HMI server | `scripts/hmi_server.py` | button levels, pulse set, clients | `command` (client threads), `tick` (engine thread), accept, send | threads with no lock between command and tick | every press acts once, E-stop always, engine never stops |
| Modbus server and client | `protocol-gateway/modbus_tcp.py` | data store, transaction id, socket | request, reconnect and retry | late replies, repeated writes, failed reconnects | a reply belongs to its request, a call ends, a write takes effect in order |
| Gateway, registry | `gateway.py`, `tag_registry.py` | none, tag table | validation, `read_tag`, `write_tag`, `initialize_inputs` | a bad registry that is accepted; tags of two registers | no two tags share an address, no sensor where no master writes |
| OPC UA bridge | `adapters/opcua_adapter.py` | address space, image | two copies per scan | client writes between the copies | no write lost |
| Web HMI | `web/hmi/hmi.js` | alarm list, last frame | frame, ack, connect, seek | alarms raised on transitions | every active jam is shown |
| Structured Text ports | `plc/examples/*.st` | as the MVP program | one scan | equivalence to the Python program | same outputs for same inputs |
| Phase 0 cell | `simulation/cell_sim.py`, `scripts/run_demo.py` | count, arms read | present, clear, E-stop, waits with a timeout | waits on values the scan writes apart | each parcel shown its own way, counted once, the stream ends |
| Barcode decoder, telemetry, Godot view, tools | `simulation/barcode.py`, `telemetry/`, `simulation/godot-project/`, `scripts/` | logs | pure functions and I/O | little | out of scope |

Calls are synchronous inside a runner (one thread). Concurrency exists between a scan loop thread and
the Modbus server's client threads, and between the live server's client threads and its engine
thread. Nothing is persisted but the telemetry log: a restarted soft PLC begins with an empty image, which
is all of crash recovery there is (`Restart` in `ModbusLink`).

## 2. What is modelled

| Module | Models |
|---|---|
| `SortScan` | the scan of the MVP program as a composition of its phases, pure operators on a record |
| `SortingPromise` | abstract specification: what a sorting program promises, without scans, edges or timers |
| `ControlMvp` | the soft PLC running that scan against arbitrary inputs; properties; refinement of `SortingPromise` |
| `SceneModel` | the plant: spawn, stick, clear, sense and the three loops of `step`, pure operators on a record |
| `ScenarioEvents` | `_apply_event` of the scenario runner, one action per event |
| `SortingCell` | composition: runner, plant and MVP program (destination strategy `single`) |
| `RingCell` | composition: runner, plant and advanced program (strategy `fifo_ring`), with the ring registers and both indices |
| `TwinEngine` | the live twin: the engine thread's `tick` and the client threads' `command`, statement by statement |
| `HmiLive` | the live HMI around it: engine loop, client threads, WebSocket frames, the page's link and jam alarm |
| `ModbusStore` | the process image: the four tables, the answer and the effect of a request, the client's methods as requests; `LocalStoreClient` |
| `ModbusLink` | Modbus masters, their connections and the server, with timeouts, drops, failed reconnects, late answers, a restart |
| `TagRegistry` | tags, the validation of a registry, the gateway's and the soft PLC's access to a tag |
| `Phase0Scan` | the scan of the Phase 0 program |
| `ImageCell` | composition: the Phase 0 demo, the gateway, the process image and a scan that copies it tag by tag, an E-stop panel |
| `ScanPlantProofs` | lemmas about the operators of the scan and of the plant, for the proofs below |
| `ControlMvpProofs`, `SortingCellProofs`, `RingCellProofs`, `TwinEngineProofs`, `ModbusLinkProofs`, `HmiLiveProofs`, `ImageCellProofs` | the theorems about the module each is named after |

`SortScan` keeps the order of the code: acknowledge, halt, start, watch the eye, decide, count,
remember. Its state is the program's dictionary, its inputs the tags the scan reads and uses.
`sensor.pe_001` is read and used by nothing, so it is not an input. Counters are kept modulo the
register width, which is all that is ever visible of them.

`SceneModel` measures positions in units of `speed * dt` (exactly 2.5 cm at the default `dt` of
0.05 s), so a step moves a parcel one unit. Parcels are numbered in the order of the list
`parcels`. A parcel that has left keeps its record and says where it went.

In the cells a tick of the runner is one action, since the runner is a single thread and every call
returns before the next; events are actions of their own and may come in any order and number before
a tick. Variables marked *history* are read by properties only.

In `TwinEngine` a tick is a sequence of steps, `at` says where the engine thread is: feed, sense, copy
each button level, scan, visit each parcel in each of the three loops of `SceneModel.step` (move, label,
route), assign the new parcel list, release each pulse, clear the set. A client thread runs the
statements of one command after another (`Program`); `clear_jam` reads the list twice, once for the
parcels it returns and once for those it keeps, and assigns (`Look`, `Filter`, `Replace`). The list of
parcels is apart from the parcels, since `clear_jam` and `step` each build a list and assign it.
`attached` says whether the list that `step` visits is still the scene's: a parcel spawned during a loop
joins that list and is visited in its turn, unless another list was assigned meanwhile. The geometry of
the line is that of `SceneModel`. Left out: the feed's timer (a parcel may come at any tick), the
sharing of the id sequence (ids are distinct), the display frame, and thread switches inside one
statement.

`HmiLive` takes the twin for two words, the tick and the jam, and models what carries them. A tick may
raise, when a press comes during the release of another (`hmi_server.py:232`), and that ends the loop.
A send is one step if the socket's buffer has room for the frame and two if it has not: `sendall` then waits
between the two, holding no lock, and a pong of the reader thread may come in the middle of the frame
(`hmi_server.py:276`). A page that reads such a mixture fails and leaves. A reader thread goes
through handshake, registration, messages and its `finally`. A message is a sequence of frames,
fragments and pings between them included, and has the kind of its first frame: a continuation on its
own is no command. On the page's side only the link and the jam alarm are modelled.

`ModbusLink` gives a connection two queues, of requests not yet read and of replies not yet received. A
master that closes a connection forgets the replies, but the server still reads the requests: that
is how a write may come late. Wherever no reply is there yet the client may time out. The client's lock,
which is not reentrant, is held for one attempt (`held`): `request` releases it before it connects anew
and takes it again to retry, so that `Connect` and `Retry` are two steps.

`ImageCell` puts the Phase 0 cell on the same store: each tag the scan reads or writes is one step (the
store's lock is held for one tag), each request of the demo another, and a panel moves the E-stop
between any two. It uses no connection: a master waits for its answer, so that a request takes effect in
the one step in which the server executes it (`Serve` of `ModbusLink`), and `ReadsOwnWrites` shows that
without failures such requests are plain memory to a master in the words it alone writes.

## 3. What is checked

| Run | Instance | Shows |
|---|---|---|
| `control_mvp` | jam limit 3, counters modulo 3, destinations 0..2; every input at every scan | the nine properties of the program below |
| `sorting_cell` | 2 parcels, eyes at 1 and 2, diverter at 4, parcels of length 2, jam limit 3; start, stop, reset, stick, remove | where parcels go and what is counted |
| `ring_cell` | 3 parcels, 2 ring registers, eyes at 1 and 3, diverter at 4; start, E-stop, stick, remove | the ring mirrors the line |
| `twin_engine` | 2 clients, any 3 commands, 2 parcels | what the unlocked engine still guarantees |
| `control_stop_claim` | as `control_mvp` | the documentation's "stop drops it" fails when Start is pressed under a held Stop |
| `cell_jam_claim` | one parcel | "a jammed parcel is not counted" fails when it is removed under a running motor |
| `ring_order_claim` | one parcel; start and E-stop only | "dequeue order always matches enqueue order" fails after an E-stop at the scan of arrival |
| `hmi_live` | two pages, one that jams the twin and one that resets it with a fragmented message, pings and closes; send buffers of two pieces, ticks modulo 2 | frames, alarms, a loop that goes on |
| `modbus_link` | two masters, of two calls and one call, that write a register and read it back, write two coils at once, read out of range | retries are bounded and answers not mixed up |
| `image_cell` | three parcels, one for each chute; both wirings of the E-stop, two registries that must be refused, two moves of the E-stop | the tag-by-tag image is good enough for the demo |
| `modbus_retry_claim` | as `modbus_link` | "reconnects, and retries" fails after one failed reconnect |
| `twin_alive_claim` | 1 client, start and stop | a press during the release of another ends the engine thread |

Properties of the program (`ControlMvp`). `NoStaleDecision`: a decision outlives its parcel at the eye
only under a latched jam. `ArmShowsDecision`: the arm and the decision to be counted agree.
`StoppedIsSafe`: a stopped line is de-energised and carries neither arm nor decision over.
`CountFollowsArm`: a counter changes only if the arm stood for its chute before and after.
`RestartNeedsStart`: releasing the E-stop or Stop, or acknowledging a jam, never restarts the line.
`JamHoldsUntilReset`: only a fresh press of Reset drops a jam. `MotorNeverGrinds`: the motor is not
driven against a blocked eye for ever, except by an operator who presses Reset again and again,
since every fresh press zeroes the timer (`control_logic_mvp.py:74`). `KeepsPromise`: the program
implements `SortingPromise`.

Properties of the MVP cell. `RoutedAsScanned`: with one parcel at a time between the eyes and the
diverter, nothing meant for B is ever diverted, and something meant for A goes straight on only if
the line was halted or reset over it. `CountersNeverAhead`: counters exceed chutes only by parcels an
operator removed. `CountersExact`: on an undisturbed line with parcels apart, counters are the
chutes, but for the parcel that left in the last step. `NoFalseJam`: such a line never jams.

Properties of the ring cell. A *lapse* is an arrival at `pe_002` on a scan with the motor off, a
parcel stuck before its destination was taken, two parcels merged into one block of the eye, or more
parcels between the eyes than registers. `RingMirrorsLine`: without lapse, the registers between the
two indices hold the destinations of exactly the awaited parcels, in order. `RoutedByOwnLabel`: then
every parcel reaches its own chute unless its decision was voided. `NeverReadsAhead`: whatever
happens, no unwritten register is read. `BacklogNeverShrinks`: entries left behind are never caught
up; Stop, Reset, a removal or an empty line do not resynchronise the ring.

Properties of the live twin. `EstopHolds`: the first tick that begins after an E-stop command stops the
motor, and it stays off, whatever other threads do, until a reset command releases the E-stop.
`StartsNeedPresses`: no race makes one press of Start act twice. `ButtonsComeBack`: a pressed button's
release is due, unless a pulse was added between the release loop and `clear()`. `RoutedForGood`: a
parcel that a stale list brings back behind the diverter is not routed again. `LineIsKept`: between two
steps of the plant the line holds what was spawned, less what was routed and what `clear_jam` took off,
unless a thread assigned a list it had built while another thread changed the line. What the engine does not
guarantee is in the model too: a press between the copy of its level and the release is lost, a pulse
added just before `clear()` leaves its button down, a list assigned over another loses a parcel or
brings one back, and the claim run shows the engine thread end.

Properties of the live HMI. `FramesInOrder`: a page is shown every frame since its first, in order,
whoever comes and goes meanwhile. `AlarmMatchesFrame`: its jam alarm is active exactly while the frame
has the jam, but for a page that joined during the jam, which lists none (`hmi.js:344-348`).
`TwinKeepsTicking`: no client that leaves in the middle of anything ends the loop; only a tick that
raises does (finding 4), and every page that stays open must read. `TypeOK` also says that an ended
thread leaves no client behind.

Properties of the Modbus link. `OwnAnswer`: the answer a call returns is its own, though the transaction
id is not compared, except on a socket left open by a call given up. `TwiceAtMost`: a call is executed
twice at most, and once while that master has met no transport failure and the server no restart.
`OvertakenOnlyWhenGone`: a write that comes late, after newer ones, was waiting on a connection that is
gone. `ReadsOwnWrites`: without failures a master reads, in words no other master writes, as
`LocalStoreClient` would. `CallsEnd`: every call ends, with an answer or an error; neither a silent peer
nor the lock, which a retry takes a second time, holds a master for ever.

Properties of the image cell. `RoutedAsPresented`: the way the demo prints for a parcel is the
destination it presented, though inputs and outputs are torn; the order of three pairs of accesses makes
it so (destination before eye when written, eye before destination when read, arms before counter when
written). `NeverCountedTwice`: also when the E-stop comes over a parcel. `EstopTrips`: an E-stop engaged
for a whole scan has stopped the cell, for both wirings. `StreamFinishes`: the handshake of demo and
scan needs no timeout, except in one race: `run_demo.py:67` waits until `last_inputs` shows the eye
clear, and `soft_plc.py:93` assigns that last, so that the value may be the one of the scan before the
parcel came. The demo then presents the next parcel before the program has seen the gap, and that
parcel is never counted. The property names the race (`hurried`), and fails without that excuse. `TypeOK`
also says that no accepted registry makes the demo raise.

**Bounds.** The program compares the jam timer with its limit only, so a limit of 3 has a scan below,
one at and one above the last safe value; the counter width is small so that the wrap happens. In the
cells the geometry keeps the order of the real one (`Length >= Divert - Pe2`: an eye sees a parcel until
it leaves; `JamScanLimit > Divert - Pe2`: a moving parcel is no jam; both are assumptions of the modules
and hold of the code's 10 cm parcels, 80 and 90 cm marks and 20 scans). Two parcels can be between the
eyes at once, overtake a stuck one and tailgate; three parcels overrun two registers and wrap the ring.
Three commands are what the races of the twin need: a start, a jam and a reset bring a routed parcel
back; a start, an E-stop and a reset try a button left down. Two calls are what a late write needs to be
overtaken, and a master's second call is the first that a dead client refuses; the panel's call adds the
second connection thread. Three parcels give each arm once, in an order in which a torn destination
would show; one move of the E-stop engages it and one releases it, so that both fit within a parcel. A
send buffer of two pieces can be free, half full and full; ticks modulo 2 tell a frame from the one
before and the one after. `sorting_cell` leaves the E-stop to `ring_cell` and `control_mvp`: in the
program it differs from Stop only in that a start edge does not win over it. No symmetry is used;
parcels are ordered. Deadlock is checked in every run but `twin_engine`, where the engine thread may die
and the commands are bounded, and `hmi_live`, where a tick may raise and every client leave; the link
never stops for good because the soft PLC may always be restarted.

**Fairness.** `ControlMvp` assumes weak fairness of the scan, which is the loop of `SoftPlc._run`.
Nothing is assumed of its inputs. The MVP cell, the ring cell and the twin have safety and action
properties only. `ModbusLink` assumes it of the client's steps only: the socket's timeout of three
seconds makes a wait end even if server and network never move again. `ImageCell` assumes it of the scan
thread and of the demo, and nothing of the demo's timeouts, which the properties must do without.
`HmiLive` assumes it of the engine loop, of each reader thread and of each open page's reading; the last
is an assumption on the browser, and needed: a page that stays open without reading stops the loop in
`sendall`.

**Mutants.** Each property is broken by a mutated operator, in the module of the operator it mutates and
named for the mistake (a dropped guard, a missing reset, an off-by-one, an edge read as a level).

**Hazards.** `PROJECT.json` lists where this code can go wrong, each with the properties that would show
it. A property whose statement excuses the very case a hazard names is not listed for it; such a hazard,
and one that no property covers, has a note that says what the code does there.

## 4. What is proved

Thirty-six theorems state, for every value of the constants, the properties the runs check on small
instances: the refinement and every safety and action property of the passing runs. Only liveness is left
to TLC.
None of the deep properties is inductive. Each proof has a typing invariant `Typed` (with what the types
rest on), an invariant that says why the property holds, and lemmas for what a step does to it.
The lemmas on the scan and on the plant (`ScanPlantProofs`) stand for both sides of a cell:
*whatever scan leaves a coherent state*, *whatever step leaves a tidy scene*.

**The program** (`ControlMvpProofs`; `ScanAssumption`: a jam limit and a counter width above 1, destinations
with a 0). `IInv` joins `TypeOK`, `RemembersInputs` (the previous inputs are those last read), the
relation of the outputs to the state, and `Coherent` of `SortScan`: never running and jammed; the arm out
only when running or jammed; a decision held only while its parcel blocks the eye of a running line, or
under a jam, and then shown by the arm; the jam timer below its limit without a jam and zero when idle.
The last part is what bounds the timer's type. A lemma for each phase (`AcknowledgeEffect` ...
`RememberEffect`) says in what shape it leaves a coherent state, and `ScanEffect` composes them.
`ScannedClosely` is the closer summary that the cells need: what becomes of decision, arm and timer.

**The MVP cell** (`SortingCellProofs`; `SceneAssumption`, `CellAssumption`). `CountersFollowThePlant` holds
because a decision whose parcel has left the eye is as good as counted: `NeverAhead` adds it (`Owed`) to
the counter. `ParcelsGoWhereScanned` rests on `ZoneInv` (the published destination is that of the one
parcel in the zone) and `DecisionInv` (the decision is for the parcel at the eye, or voided), which hold
together with `Arrivals`: the program's eye memory lags the plant by one step and no more.
`MovingLineNeverJams` needs `SteadyInv`: the jam timer never exceeds the distance the parcel has gone past
the eye, so a limit beyond the distance to the diverter is never reached. `CountersAreTheChutes` is then
`Exact`, an equation kept by both kinds of tick, one with the eye clear and one with it blocked.

**The ring cell** (`RingCellProofs`; any ring size and line length). `ReaderFollowsWriter` and
`OutOfStepForGood` need no hypothesis on the scenario: `BacklogInv` (the reader leaves one entry for
each parcel awaited) and `BoundInv` (the writer has one parcel still to scan for each entry to come) hold
whatever happens. Until a lapse `InStep` holds: the registers from `readIdx` on are the destinations of
the awaited parcels, each at the place given by the number of awaited parcels before it (`Before`), and no
two awaited parcels share a register although indices wrap (`SlotsDiffer`). `RingIsTheLine` and
`ParcelsFollowTheirLabels` follow from it and from `DecisionInv`.

**The live twin** (`TwinEngineProofs`; any number of clients, commands and parcels). `Typed` says what
each client thread may be in the middle of (`Follows`) and which parcels its stale list may name.
`EstopInv` joins the level, the copy the tick has taken of it and the history; `StartInv` says that any
Start a scan will take for new was pressed after the last one scanned, wherever it is on its way;
`ButtonInv` that while no pulse slips in between the release loop and `clear()`, what `clear()` forgets
is what the loop released. `LineInv` follows a parcel through the loops: while nothing raced, the
parcels not routed and not cleared are those of the list, and, when `step` is at its third loop, those
of the new list and those it has still to visit; `LineIsAccountedFor` follows.

**The Modbus link** (`ModbusLinkProofs`; any masters, calls and requests a client can send,
`RequestAssumption`). `LockInv`: the lock is held while a call waits for its answer and at no other
time. `MasterInv` has, for each master: sockets are used in order and only the latest may be open
(`SocketInv`); requests on a connection are of later and later calls (`Increasing`); the copies of a
call, executed and still unread, are no more than the times it was sent (`CountInv`), which is what
makes `ExecutedTwiceAtMost` inductive; nothing later than a request waiting on the held socket was
executed (`OrderInv`); unless soured, the held socket carries one request or one reply, that of the call
under way (`AnswerInv`), which is why the client may ignore the transaction id.

`LinkIsMemory` adds an invariant on the contents of the store, `MemoryInv`, for a master that has met no
failure and asks only what `LocalStoreClient` offers. Wherever no other master writes (`Private`), the store
agrees with the master's own image (`Agree`): the one before the call while its request waits, and the one
after it (`After`) once it was served; a reply that waits is what that image would have answered (`Right`).
`AfterWrite` and `SameWordsRead` carry this through a request of the master's own, `OthersSpare` through
those of the others, which go on writing the same tables beside it. That nobody else writes the words
read is a condition of the property itself, so that it says something of masters that do share a table.
`RequestAssumption` says of a coil what the client does (`modbus_tcp.py:342-344`): one of two words is
written.

**The live HMI** (`HmiLiveProofs`; any number of pages, any scripts of theirs, any buffer of at least
two pieces, frame counters of any modulus above 1). `StreamInv` numbers the whole frames on their way to
a page, from the one it shows to the last in its buffer: they are consecutive and the newest is the
loop's, or the one before if the loop has still to serve this page. `JoinInv` says who is in the client
set at each point of a reader thread's life, `AlarmInv` ties the alarm to the frame shown.

**The Phase 0 cell** (`ImageCellProofs`; every stream of parcels, any number of moves of the E-stop and
any registries, of which the accepted ones have the cell's tags, `RegistryAssumption`: anywhere in their
tables, the E-stop wired either way, the eye read before the destination). Each argument runs over the
place of the scan (`pc`) relative to that of the demo (`phase`), that is, over which of the two has
touched a tag since the other. `StopHolds` is `HeldInv`: since the E-stop was engaged the scan has read
it if its turn has come, and every output written after that is off. `CountedOnce` rests on a sum
(`CountInv`): the parcel before the eye is counted, or about to be (`Due`: read, and unlike the scan
before), or not yet read (`Coming`), one of the three; the E-stop's early return changes none of them,
since it remembers the eye. `PrintedAsPresented` needs two more: a demo that never gave up a wait is at
most one parcel ahead of the count (`KeepsUp`), and once the count shows the demo's parcel the arms of
that parcel are written (`RouteInv`), which follows from the order of the outputs. `TypeCorrect` says
that no accepted registry makes the demo raise: the assumption names no table a master may write, that
comes from the validation (`WellFormed`).

The assumptions on constants are those of the modules and TLC evaluates each of them. `CellAssumption`
and `RingAssumption` are the geometry discussed under *Bounds*; without it the properties are false.

**Only model-checked.** Liveness under fairness (`MotorNeverGrinds`, `CallsEnd`,
`StreamFinishes`, `TwinKeepsTicking`), which is out of the prover's reach.

**What the proofs changed.** Two statements that TLC had passed were true only of the instances checked.
`TypeOK` of `ImageCell` let the demo's counter stop short of the number of input tags, which it exceeds
while the tags are initialised if the stream has one parcel. `ReadsOwnWrites` held because the run's
masters share no address, and did not say so.

## 5. Findings

1. Start wins over a held Stop for one scan (`control_stop_claim`).
2. A stuck parcel taken away under a running motor is counted (`cell_jam_claim`).
3. The ring loses step at an E-stop on the scan of arrival (`ring_order_claim`), for good.
4. A press while the engine releases another ends the engine thread (`twin_alive_claim`).
5. After one failed reconnect a Modbus client never tries again (`modbus_retry_claim`).

Seen while reading: `docs/TAG_MAP_MVP.md:35` says the jam trips when the eye is blocked for *more* than
`JAM_SCAN_LIMIT` scans, the code trips at that many.

Also in the models, and stated by no document: the demo's wait on `last_inputs` may lose a parcel
(`StreamFinishes`); a socket left open when a call is given up puts the client out of step with its
answers (`OwnAnswer`); a page that joins during a jam lists no alarm (`AlarmMatchesFrame`).

Read in the ST port (`plc/examples/02_sorting_cell_mvp.st:63`): it does not clear its pending decision
on E-stop or Stop, as the Python program does.

## 6. Plan

The models are complete as far as section 7 allows, and every safety and action property of a passing run is
a theorem. What would extend the project:

1. Two-word tags over the link (`gateway.py:44`), once a registry ships one: `ReadsOwnWrites` then needs an
   invariant on pairs of words, which a reader between the two requests sees torn.
2. A proof that `ImageCell` over `ModbusLink` is `ImageCell` over the store, in place of the argument in
   section 2: a refinement that hides the connections.
3. The OPC UA bridge, once something calls it from a thread of its own.

## 7. Not modelled

- OPC UA bridge: two copies of whole tables around a third-party server. No runner uses it, and its
  tests write, bridge and scan in one thread.
- ST programs: examples for OpenPLC; nothing in the repository executes them.
- Barcode decoder: a pure function from a code to a destination; the cells choose any destination.
- Two-word tags: `TagRegistry` encodes them, but the soft PLC reads and writes one word of any tag and no
  shipped registry has one.
- `stop` of the soft PLC and of the servers, which ends the process.
- Telemetry (an append-only log nothing reads back), trace export, the validation of scenario files, replay
  and rendering (web, Godot), the pymodbus adapter and the protocol factory (which start or choose a class),
  report and project generators, packaging and deployment: I/O with no state the cell depends on.
