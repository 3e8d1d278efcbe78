---------------------------- MODULE SortingCell -----------------------------
(***************************************************************************)
(* The MVP cell as simulation/scenario_runner.py runs it: the plant of     *)
(* SceneModel and the program of SortScan in lock step, one tick at a      *)
(* time, with the events of a scenario in between.  The tick is one        *)
(* action, since the runner is a single thread and every call it makes     *)
(* returns before the next one.                                            *)
(***************************************************************************)
EXTENDS SortScan, ScenarioEvents

ASSUME CellAssumption ==
  /\ {0, ToA, ToB} \subseteq Destinations
  /\ CounterModulus > MaxParcels
  /\ Length >= Divert - Pe2         \* the eye sees a parcel up to the diverter
  /\ JamScanLimit > Divert - Pe2    \* a moving parcel is no jam

VARIABLES
  plc, out,  \* SoftPlc.state and the outputs the gateway reads back
  calm,      \* history: no event but spawns and Start so far
  crowded,   \* history: a step left two parcels from pe_001 to the diverter
  voided     \* history: parcels halted or reset at while under pe_002

vars == <<scene, inputs, plc, out, calm, crowded, voided>>

Init == /\ scene = EmptyScene
        /\ inputs = [b \in Buttons |-> FALSE]
        /\ plc = InitialState
        /\ out = OutputsOff
        /\ calm = TRUE /\ crowded = FALSE /\ voided = {}

-----------------------------------------------------------------------------
(* The sensors and buttons, as the gateway writes them before the scan. *)
Written == [pe2 |-> SensorBlocked(scene, Pe2),
            start |-> inputs["start"], stop |-> inputs["stop"],
            reset |-> inputs["reset"], estop |-> inputs["estop"],
            dest |-> scene.published]

Zone == {i \in OnLine(scene) : scene.parcel[i].pos >= Pe1}

Tick ==
  LET in == Written
      halted == in.stop \/ ResetEdge(plc, in)
  IN  /\ plc' = Scan(plc, in)
      /\ out' = Outputs(plc', in)
      /\ scene' = Step(scene, out'.motor, out'.divert)
      /\ crowded' = (crowded \/ Cardinality(Zone') > 1)
      /\ voided' = IF ~out'.motor \/ halted
                   THEN voided \cup {i \in Zone : Blocks(scene, i, Pe2)}
                   ELSE voided
      /\ UNCHANGED <<inputs, calm>>

Event == /\ \/ QuietEvent /\ UNCHANGED calm
            \/ Disturbance /\ calm' = FALSE
         /\ UNCHANGED <<plc, out, crowded, voided>>

Next == Event \/ Tick

Spec == Init /\ [][Next]_vars

-----------------------------------------------------------------------------
TypeOK == /\ scene \in Scenes
          /\ inputs \in [Buttons -> BOOLEAN]
          /\ plc \in ControlState
          /\ out \in OutputStates
          /\ calm \in BOOLEAN /\ crowded \in BOOLEAN
          /\ voided \subseteq Parcels

(* As long as the zone from pe_001 to the diverter held one parcel at a    *)
(* time, no parcel meant for CHUTE_B was ever diverted, whatever was       *)
(* pressed; and one meant for CHUTE_A goes straight on only if the line    *)
(* was halted or reset while it was under the eye (adr/0005:13, the stated *)
(* limit of the single register; docs/FAULT_SCENARIOS.md:17).              *)
RoutedAsScanned ==
  ~crowded =>
    /\ \A i \in At(scene, "chuteA") : scene.parcel[i].dest = ToA
    /\ \A i \in At(scene, "chuteB") : scene.parcel[i].dest = ToB \/ i \in voided

(* The counters never run ahead of the plant: what is counted for a chute  *)
(* is in that chute, but for parcels an operator took off the line.        *)
CountersNeverAhead ==
  LET taken == Cardinality(At(scene, "removed"))
  IN  /\ plc.countA <= Cardinality(At(scene, "chuteA")) + taken
      /\ plc.countB <= Cardinality(At(scene, "chuteB")) + taken

(* On a line nobody disturbed and that kept its parcels apart, the         *)
(* counters are exactly the chutes, but for the parcel that left with the  *)
(* last step and is counted by the next scan.                              *)
CountersExact ==
  calm /\ ~crowded =>
    LET owed(c) == IF plc.pending = c /\ ~SensorBlocked(scene, Pe2) THEN 1 ELSE 0
    IN  /\ plc.countA + owed(ChuteA) = Cardinality(At(scene, "chuteA"))
        /\ plc.countB + owed(ChuteB) = Cardinality(At(scene, "chuteB"))

(* A moving line never trips the jam alarm: the alarm needs a parcel that  *)
(* was stuck, or parcels close enough to hold the eye blocked together.    *)
NoFalseJam == calm /\ ~crowded => ~out.jam

(* "A jammed parcel never produces a falling edge, so it is not counted"   *)
(* (docs/TAG_MAP_MVP.md:33-34): the counters count parcels in a chute.     *)
JammedNotCounted ==
  plc.countA + plc.countB
    <= Cardinality(At(scene, "chuteA")) + Cardinality(At(scene, "chuteB"))
=============================================================================
