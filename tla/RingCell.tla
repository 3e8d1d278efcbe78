------------------------------ MODULE RingCell ------------------------------
(***************************************************************************)
(* The advanced cell of adr/0005: the runner with dest_strategy            *)
(* "fifo_ring" and the program plc/control_logic_advanced.py.  At each     *)
(* barcode scan the runner writes the destination to the next ring         *)
(* register; at each rising edge of pe_002 the program takes the next one. *)
(* The two indices live on two sides of the gateway and neither side sees  *)
(* the other's: that they stay in step is the whole correctness of the     *)
(* cell, and "lapses" records what may put them out of step.               *)
(***************************************************************************)
EXTENDS SortScan, ScenarioEvents

CONSTANT RingSize   \* RING_SIZE (8)

ASSUME RingAssumption ==
  /\ RingSize \in Nat \ {0}
  /\ {0, ToA, ToB} \subseteq Destinations
  /\ Length >= Divert - Pe2
  /\ JamScanLimit > Divert - Pe2

Slots == 0 .. RingSize - 1

VARIABLES
  plc, out,   \* SoftPlc.state without read_idx, and the outputs read back
  ring,       \* data.dest_ring_0 .. data.dest_ring_<RingSize - 1>
  readIdx,    \* SoftPlc.state["read_idx"]
  writeIdx,   \* ScenarioRunner._ring_write_idx
  lapses,     \* history: what has happened that the ring does not survive
  voided      \* history: parcels halted or reset at while under pe_002

vars == <<scene, inputs, plc, out, ring, readIdx, writeIdx, lapses, voided>>

Init == /\ scene = EmptyScene
        /\ inputs = [b \in Buttons |-> FALSE]
        /\ plc = InitialState
        /\ out = OutputsOff
        /\ ring = [k \in Slots |-> 0]
        /\ readIdx = 0 /\ writeIdx = 0
        /\ lapses = {} /\ voided = {}

-----------------------------------------------------------------------------
Written == [pe2 |-> SensorBlocked(scene, Pe2),
            start |-> inputs["start"], stop |-> inputs["stop"],
            reset |-> inputs["reset"], estop |-> inputs["estop"],
            dest |-> 0]

(* DequeuesOnLevel, NextDestAfterBump, EnqueuedAfterBump and               *)
(* DequeuesOnBothEdges are mutants of the operators they precede.          *)
DequeuesOnLevel(s, in) == in.pe2 /\ MotorOn(s, in)
DequeuesOnBothEdges(s, in) == in.pe2 # s.prevPe2 /\ MotorOn(s, in)
Dequeues(s, in) == EyeRises(s, in) /\ MotorOn(s, in)
NextDestAfterBump == ring[(readIdx + 1) % RingSize]
NextDest == ring[readIdx % RingSize]

(* The scan: that of the MVP program, deciding by the ring. *)
DecideByRing(s, in) == IF Dequeues(s, in) THEN DecideFor(s, NextDest) ELSE s
RingScan(s, in) ==
  Remember(Count(DecideByRing(Supervise(s, in), in), in), in)

(* The place of a parcel in the list, among those of a set. *)
Before(parcels, i) == Cardinality({j \in parcels : j < i})

EnqueuedAfterBump(r, w, scanned) ==
  [k \in Slots |->
     LET writers == {i \in scanned : (w + Before(scanned, i) + 1) % RingSize = k}
     IN  IF writers = {} THEN r[k] ELSE scene.parcel[Max(writers)].dest]

(* ring[write_idx % RingSize] = dest; write_idx += 1, for each parcel that *)
(* a step scans at pe_001, in the order of the list: a register written    *)
(* more than once keeps the last of its writers.                           *)
Enqueued(r, w, scanned) ==
  [k \in Slots |->
     LET writers == {i \in scanned : (w + Before(scanned, i)) % RingSize = k}
     IN  IF writers = {} THEN r[k] ELSE scene.parcel[Max(writers)].dest]

(* Parcels scanned at pe_001 and not yet arrived at pe_002. *)
InFlight(sc) == {i \in OnLine(sc) : sc.parcel[i].scanned /\ sc.parcel[i].pos < Pe2}

(* The parcels whose destination the program has still to take: those in   *)
(* flight and the one that has arrived since the last scan, in the order   *)
(* they will arrive.                                                       *)
Awaited == InFlight(scene) \cup
           {i \in OnLine(scene) : scene.parcel[i].pos = Pe2 /\ ~plc.prevPe2}

Tick ==
  LET in == Written
      s  == Supervise(plc, in)
      scanned == Crossing(scene, out'.motor)
      arrivals == InFlight(scene) \ InFlight(scene')
  IN  /\ plc' = RingScan(plc, in)
      /\ out' = Outputs(plc', in)
      /\ readIdx' = IF Dequeues(s, in) THEN readIdx + 1 ELSE readIdx
      /\ scene' = Step(scene, out'.motor, out'.divert)
      /\ ring' = Enqueued(ring, writeIdx, scanned)
      /\ writeIdx' = writeIdx + Cardinality(scanned)
      /\ lapses' = lapses
           \cup (IF EyeRises(s, in) /\ ~MotorOn(s, in) THEN {"unseen"} ELSE {})
           \cup (IF arrivals # {} /\ (in.pe2 \/ Cardinality(arrivals) > 1)
                 THEN {"tailgated"} ELSE {})
           \cup (IF writeIdx' - readIdx' > RingSize THEN {"overrun"} ELSE {})
      /\ voided' = IF ~out'.motor \/ in.stop \/ ResetEdge(plc, in)
                   THEN voided \cup {i \in OnLine(scene) : Blocks(scene, i, Pe2)}
                   ELSE voided
      /\ UNCHANGED inputs

(* A parcel stuck before its destination was taken never takes it. *)
Event == /\ QuietEvent \/ Disturbance
         /\ UNCHANGED <<plc, out, ring, readIdx, writeIdx, voided>>
         /\ lapses' = IF \E i \in Awaited' : scene'.parcel[i].stuck
                      THEN lapses \cup {"stuck"} ELSE lapses

Next == Event \/ Tick

Spec == Init /\ [][Next]_vars

-----------------------------------------------------------------------------
Lapses == {"unseen", "tailgated", "overrun", "stuck"}

TypeOK == /\ scene \in Scenes
          /\ inputs \in [Buttons -> BOOLEAN]
          /\ plc \in ControlState
          /\ out \in OutputStates
          /\ ring \in [Slots -> {0, ToA, ToB}]
          /\ readIdx \in 0 .. MaxParcels
          /\ writeIdx \in 0 .. MaxParcels
          /\ lapses \subseteq Lapses
          /\ voided \subseteq Parcels

(* In step, the ring registers between the two indices are a picture of    *)
(* the line: one entry for each awaited parcel, its destination, in order. *)
RingMirrorsLine ==
  lapses = {} =>
    /\ writeIdx - readIdx = Cardinality(Awaited)
    /\ \A i \in Awaited :
         ring[(readIdx + Before(Awaited, i)) % RingSize] = scene.parcel[i].dest

(* In step, every parcel reaches the chute of its own label, but for one   *)
(* whose decision was voided by a stop or a reset while under pe_002: it   *)
(* goes straight on (adr/0005:26-28).                                      *)
RoutedByOwnLabel ==
  lapses = {} =>
    /\ \A i \in At(scene, "chuteA") : scene.parcel[i].dest = ToA
    /\ \A i \in At(scene, "chuteB") : scene.parcel[i].dest = ToB \/ i \in voided

(* Whatever happens, the program never takes a destination that was not    *)
(* written: every arrival at pe_002 was a scan at pe_001 before.           *)
NeverReadsAhead == readIdx <= writeIdx

(* A ring once out of step stays so: without a lapse the two indices       *)
(* agree on an empty line, and after one no later step brings the reader   *)
(* nearer than the entries it has left behind.                             *)
Backlog == writeIdx - readIdx - Cardinality(Awaited)
BacklogNeverShrinks == [][Backlog' >= Backlog]_vars

(* "the k-th parcel to cross pe_001 is the k-th to cross pe_002: dequeue   *)
(* order always matches enqueue order" (adr/0005:26-28), on a line where   *)
(* nothing sticks, tailgates or overruns.                                  *)
DequeueMatchesEnqueue ==
  lapses \subseteq {"unseen"} => writeIdx - readIdx = Cardinality(Awaited)
=============================================================================
