--------------------------- MODULE ScenarioEvents ---------------------------
(***************************************************************************)
(* What a scenario may do to a cell between two ticks of the runner:       *)
(* ScenarioRunner._apply_event of simulation/scenario_runner.py.  A        *)
(* scenario may put any events in any order before a tick, so each event   *)
(* is an action on the scene and on the button levels the runner holds.    *)
(* The two cells, SortingCell and RingCell, extend this module.            *)
(***************************************************************************)
EXTENDS SceneModel

CONSTANT Events   \* the kinds of events the scenarios of a run may hold

VARIABLES
  scene,     \* ScenarioRunner.scene
  inputs     \* the button levels held by the runner

Buttons == {"start", "stop", "reset", "estop"}

ASSUME EventsAssumption == Events \subseteq Buttons \cup {"inject_jam", "clear_jam"}

-----------------------------------------------------------------------------
(* Pressing Reset also removes the stuck parcels, whether or not the level *)
(* was already up.                                                         *)
Press(b) == /\ b \in Events /\ b # "estop"
            /\ inputs' = [inputs EXCEPT ![b] = TRUE]
            /\ scene' = IF b = "reset" THEN ClearJam(scene) ELSE scene

Release(b) == /\ b \in Events /\ b # "estop"
              /\ inputs' = [inputs EXCEPT ![b] = FALSE]
              /\ UNCHANGED scene

SetEstop(v) == /\ "estop" \in Events
               /\ inputs' = [inputs EXCEPT !["estop"] = v]
               /\ UNCHANGED scene

SpawnParcel(dest) == /\ CanSpawn(scene)
                     /\ scene' = Spawn(scene, dest)
                     /\ UNCHANGED inputs

InjectJam(i) == /\ "inject_jam" \in Events
                /\ i \in OnLine(scene)
                /\ scene' = Stick(scene, i)
                /\ UNCHANGED inputs

ClearJamEvent == /\ "clear_jam" \in Events
                 /\ scene' = ClearJam(scene)
                 /\ UNCHANGED inputs

(* An event leaves the line as the operator of a quiet shift would, or not. *)
QuietEvent == \/ Press("start")
              \/ \E b \in Buttons : Release(b)
              \/ \E dest \in {ToA, ToB} : SpawnParcel(dest)

Disturbance == \/ \E b \in Buttons \ {"start"} : Press(b)
               \/ \E v \in BOOLEAN : SetEstop(v)
               \/ \E i \in Parcels : InjectJam(i)
               \/ ClearJamEvent
=============================================================================
