----------------------------- MODULE ImageCell ------------------------------
(***************************************************************************)
(* The Phase 0 cell: scripts/run_demo.py presents a stream of parcels      *)
(* through simulation/cell_sim.py and the gateway, while the thread of     *)
(* plc/soft_plc.py scans the same process image.  Neither side holds the   *)
(* store's lock for longer than one tag: the scan copies its inputs and    *)
(* writes its outputs tag by tag, and the demo's requests come in between. *)
(* A panel, another Modbus master, may move the E-stop at any time.        *)
(*                                                                         *)
(* A request of the demo is one step: ModbusLink shows that a link without *)
(* failures is plain memory.  The tags nothing computes with (the infeed   *)
(* and chute eyes) are left out, and so are prints and telemetry.          *)
(*                                                                         *)
(* CountFirst is a mutant of OutputAt.                                     *)
(***************************************************************************)
EXTENDS TagRegistry, Phase0Scan

CONSTANTS
  Registries,   \* the registry of each file
  Plan,         \* the destinations presented, in order
  MaxToggles    \* bound: how often the panel moves the E-stop

ASSUME CellAssumption ==
  /\ Plan \in Seq({1, 2, 3}) /\ Plan # <<>>
  /\ MaxToggles \in Nat

VARIABLES
  file,        \* the registry file loaded
  store,       \* the process image
  pc,          \* how far the scan is: inputs read and outputs written
  inputs,      \* of the scan under way
  outputs,     \* of the last scan computed
  state,       \* SoftPlc.state
  lastLow,     \* last_inputs.get("sensor.preDivert") is False
  phase,       \* where the demo is
  n,           \* tags initialised, then parcels begun
  arms,        \* the demo's arm_a and arm_b
  toggles,     \* of the panel
  held,        \* history: how long the E-stop has been engaged, in scans
  lowRead,     \* history: the scan has read the eye clear since it cleared
  stopped,     \* history: the E-stop was engaged during the stream
  late,        \* history: a wait of the demo timed out
  hurried      \* history: the demo went on before the scan saw the eye clear

plc == <<pc, inputs, outputs, state, lastLow>>
demo == <<phase, n, arms>>
vars == <<file, store, plc, demo, toggles, held, lowRead, stopped, late, hurried>>

Files == {f \in DOMAIN Registries : Valid(Registries[f])}
InputTagsOf == [f \in Files |-> ByDirection(Registries[f], "sim_to_plc")]
InputTags == InputTagsOf[file]
OutputOrder == <<"motor", "armA", "armB", "jam", "running", "count">>
NIn == Len(InputTags)
NOut == Len(OutputOrder)

Names == {"preDivert", "estop", "destination"} \cup Range(OutputOrder)
TagsOf == [f \in Files |-> [name \in Names |-> TagNamed(Registries[f], name)]]
Tag(name) == TagsOf[file][name]
Gets(name) == ReadTag(store, Tag(name))
EngagedIn(s) ==    \* the button, as it is wired
  (s[Tag("estop").table][Tag("estop").address] # 0) # Tag("estop").invert
(* The tags are those of tags.conveyor_sorting_cell.json: bits in tables   *)
(* of bits and numbers in registers, only the E-stop may be wired the      *)
(* other way, and the eye is clear at first and read before the            *)
(* destination.                                                            *)
ASSUME RegistryAssumption ==
  /\ WordModulus > 3
  /\ \A f \in Files :
       LET T == TagsOf[f]
           eye == T["preDivert"]
           stop == T["estop"]
           dest == T["destination"]
       IN  /\ Names \subseteq {t.name : t \in Range(Registries[f])}
           /\ InputTagsOf[f] \in {<<eye, stop, dest>>, <<stop, eye, dest>>, <<eye, dest, stop>>}
           /\ \A name \in Names : T[name].address < Size
           /\ \A name \in Names \ {"estop"} : T[name].invert = FALSE
           /\ \A t \in {eye, stop, dest} : t.direction = "sim_to_plc"
           /\ \A t \in {eye, stop} : t.type = "bool" /\ t.table \in {"coil", "discrete_input"}
           /\ eye.initial = FALSE
           /\ {stop.invert, stop.initial} \subseteq BOOLEAN
           /\ dest.type = "uint16" /\ dest.table \in {"holding_register", "input_register"}
           /\ dest.initial \in 0 .. WordModulus - 1
           /\ T["count"].type = "uint16"
           /\ \A name \in Range(OutputOrder) :
                /\ T[name].direction = "plc_to_sim"
                /\ name # "count" => T[name].type = "bool"

Setup == {"initialize", "release", "motor"}

Init ==
  /\ file \in Files
  /\ store = EmptyStore
  /\ pc = 0
  /\ inputs = [preDivert |-> FALSE, estop |-> FALSE, destination |-> 0]
  /\ outputs = Outputs(inputs, InitialState)
  /\ state = InitialState
  /\ lastLow = FALSE
  /\ phase = "initialize" /\ n = 0
  /\ arms = [armA |-> FALSE, armB |-> FALSE]
  /\ toggles = 0 /\ held = "no" /\ lowRead = TRUE
  /\ stopped = FALSE /\ late = FALSE /\ hurried = FALSE

-----------------------------------------------------------------------------
(* The scan, one step for each time it takes the lock; the control program *)
(* runs on the inputs copied.                                              *)
ReadInput ==
  /\ pc < NIn
  /\ LET t == InputTags[pc + 1]
         in == [inputs EXCEPT ![t.name] = PlcRead(store, t)]
     IN  /\ inputs' = in
         /\ IF pc + 1 = NIn
            THEN outputs' = Outputs(in, state) /\ state' = NextState(in, state)
            ELSE UNCHANGED <<outputs, state>>
         /\ lowRead' = (lowRead \/ (t.name = "preDivert" /\ ~in.preDivert))
  /\ pc' = pc + 1
  /\ held' = IF pc = 0 /\ EngagedIn(store) /\ held = "no" THEN "scanning" ELSE held
  /\ UNCHANGED <<file, store, lastLow, demo, toggles, stopped, late, hurried>>

CountFirst(i) == <<"count", "motor", "armA", "armB", "jam", "running">>[i]
OutputAt(i) == OutputOrder[i]

WriteOutput ==
  /\ pc \in NIn .. NIn + NOut - 1
  /\ LET name == OutputAt(pc - NIn + 1)
     IN  store' = PlcWrite(store, Tag(name), outputs[name])
  /\ pc' = pc + 1
  /\ UNCHANGED <<file, inputs, outputs, state, lastLow, demo, toggles,
                 held, lowRead, stopped, late, hurried>>

(* last_inputs is assigned after the outputs are written. *)
Publish ==
  /\ pc = NIn + NOut
  /\ pc' = 0
  /\ lastLow' = ~inputs.preDivert
  /\ held' = IF held = "scanning" THEN "done" ELSE held
  /\ UNCHANGED <<file, store, inputs, outputs, state, demo, toggles,
                 lowRead, stopped, late, hurried>>

Scan == ReadInput \/ WriteOutput \/ Publish
-----------------------------------------------------------------------------
(* The demo writes a tag; write_tag raises for a table that no master      *)
(* writes.  Every tag of the cell is one word, hence one request.          *)
Writes(name, v, next) ==
  /\ IF MayWrite(Tag(name))
     THEN /\ store' = Written(store, WriteRequests(Tag(name), v)[1])
          /\ phase' = next
     ELSE phase' = "raised" /\ UNCHANGED store
  /\ held' = IF EngagedIn(store') THEN held ELSE "no"
  /\ stopped' = (stopped \/ (phase' \notin Setup /\ EngagedIn(store')))
  /\ UNCHANGED <<file, plc, arms, toggles, late>>

Goes(next) ==
  /\ phase' = next
  /\ UNCHANGED <<file, store, plc, toggles, held, stopped>>

Initialize ==
  /\ phase = "initialize"
  /\ LET t == InputTags[n + 1]
         last == n + 1 = NIn
     IN  /\ Writes(t.name, t.initial, IF last THEN "release" ELSE "initialize")
         /\ n' = IF last THEN 0 ELSE n + 1
  /\ UNCHANGED <<lowRead, hurried>>

Release ==
  /\ phase = "release"
  /\ Writes("estop", FALSE, "motor")
  /\ UNCHANGED <<n, lowRead, hurried>>

AwaitMotor ==
  /\ phase = "motor" /\ Gets("motor")
  /\ n' = 1
  /\ stopped' = EngagedIn(store)
  /\ phase' = "destination"
  /\ UNCHANGED <<file, store, plc, arms, toggles, held, lowRead, late, hurried>>

(* present_parcel: the destination, then the eye. *)
Presents(p) == IF p = "destination" THEN <<"destination", Plan[n]>>
                                    ELSE <<"preDivert", TRUE>>

Present ==
  /\ phase \in {"destination", "sensor"}
  /\ Writes(Presents(phase)[1], Presents(phase)[2],
            IF phase = "destination" THEN "sensor" ELSE "count")
  /\ hurried' = (hurried \/ (phase = "sensor" /\ ~lowRead))
  /\ UNCHANGED <<n, lowRead>>

AwaitCount ==
  /\ phase = "count" /\ Gets("count") = n
  /\ Goes("armA")
  /\ UNCHANGED <<n, arms, lowRead, late, hurried>>

ReadArm ==
  /\ phase \in {"armA", "armB"}
  /\ arms' = [arms EXCEPT ![phase] = Gets(phase)]
  /\ Goes(IF phase = "armA" THEN "armB" ELSE "clear")
  /\ UNCHANGED <<n, lowRead, late, hurried>>

Clear ==
  /\ phase = "clear"
  /\ Writes("preDivert", FALSE, "cleared")
  /\ lowRead' = FALSE
  /\ UNCHANGED <<n, hurried>>

(* The next parcel, or the end of the stream. *)
NextParcel ==
  /\ Goes(IF n < Len(Plan) THEN "destination" ELSE "finished")
  /\ n' = IF n < Len(Plan) THEN n + 1 ELSE n
  /\ UNCHANGED <<arms, lowRead, hurried>>

AwaitCleared == phase = "cleared" /\ lastLow /\ NextParcel /\ UNCHANGED late

(* A wait of the demo ends after three seconds whatever the image says. *)
TimedOut ==
  /\ late' = TRUE
  /\ \/ phase = "cleared" /\ ~lastLow /\ NextParcel
     \/ /\ phase = "count" /\ Gets("count") # n
        /\ Goes("armA")
        /\ UNCHANGED <<n, arms, lowRead, hurried>>
     \/ /\ phase = "motor" /\ ~Gets("motor")
        /\ n' = 1 /\ stopped' = EngagedIn(store) /\ phase' = "destination"
        /\ UNCHANGED <<file, store, plc, arms, toggles, held, lowRead, hurried>>

Demo == \/ Initialize \/ Release \/ AwaitMotor \/ Present \/ AwaitCount
        \/ ReadArm \/ Clear \/ AwaitCleared

(* The panel moves the E-stop. *)
Toggle ==
  /\ toggles < MaxToggles
  /\ toggles' = toggles + 1
  /\ LET t == Tag("estop")
     IN  store' = Written(store, WriteCoil(t.address, Bit(~ReadTag(store, t))))
  /\ held' = IF EngagedIn(store') THEN held ELSE "no"
  /\ stopped' = (stopped \/ (phase \notin Setup /\ EngagedIn(store')))
  /\ UNCHANGED <<file, plc, demo, lowRead, late, hurried>>

Next == Scan \/ Demo \/ TimedOut \/ Toggle

(* Both threads go on; nothing makes the demo's waits time out. *)
Spec == Init /\ [][Next]_vars /\ WF_vars(Scan) /\ WF_vars(Demo)

-----------------------------------------------------------------------------
TypeOK ==
  /\ file \in DOMAIN Registries
  /\ store \in Stores
  /\ pc \in 0 .. NIn + NOut
  /\ inputs \in [preDivert : BOOLEAN, estop : BOOLEAN, destination : 0 .. WordModulus - 1]
  /\ state.prev_preDivert \in BOOLEAN /\ state.throughput \in Nat
  /\ phase \in Setup \cup {"destination", "sensor", "count", "armA", "armB",
                           "clear", "cleared", "finished"}
  /\ n \in IF phase = "initialize" THEN 0 .. NIn - 1 ELSE 0 .. Len(Plan)
  /\ toggles \in 0 .. MaxToggles
  /\ held \in {"no", "scanning", "done"}

Routed == IF arms.armA THEN 1 ELSE IF arms.armB THEN 2 ELSE 3

(* What the demo prints as a parcel's way is the destination it presented, *)
(* although the scan's copy of the inputs and the demo's of the outputs    *)
(* are torn: the eye is written after the destination and read before it,  *)
(* and the count is written after the arms (soft_plc.py:87, :89-92;        *)
(* cell_sim.py:27-28; docs/ARCHITECTURE.md:58-62).                         *)
RoutedAsPresented ==
  phase = "clear" /\ ~stopped /\ ~late => Routed = Plan[n]

(* No parcel is counted twice, whatever the E-stop and the waits do:       *)
(* "counts a parcel on the rising edge" (docs/ARCHITECTURE.md:62).         *)
NeverCountedTwice ==
  phase \notin Setup =>
    state.throughput <=
      IF phase \in {"destination", "sensor"} THEN n - 1 ELSE n

(* An E-stop engaged for one whole scan has stopped the cell, and it stays *)
(* stopped until the release, for both wirings of the button (control_     *)
(* logic.py:48-51; adr/0004: a de-energised wire stops).                   *)
EstopTrips ==
  held = "done" =>
    \A name \in {"motor", "armA", "armB", "running"} : ~Gets(name)

(* The demo's handshake with the scan needs no timeout: every parcel is    *)
(* counted (verify_phase0.py:116) and the stream ends, unless the E-stop   *)
(* came or a wait timed out, or the demo went on before the scan saw the   *)
(* eye clear: last_inputs may still be those of the scan before the parcel *)
(* came, for it is assigned last (run_demo.py:67, soft_plc.py:93).         *)
StreamFinishes ==
  <>[]~EngagedIn(store) => <>(phase = "finished" \/ stopped \/ late \/ hurried)
=============================================================================
