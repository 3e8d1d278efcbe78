----------------------------- MODULE ControlMvp -----------------------------
(***************************************************************************)
(* The soft PLC (plc/soft_plc.py) running the MVP program, one scan after  *)
(* another, against inputs that any master may have written in between.    *)
(* Nothing is assumed of the inputs: buttons may bounce, be held, be       *)
(* pressed together; the eye may flicker.                                  *)
(***************************************************************************)
EXTENDS SortScan

VARIABLES
  plc,    \* SoftPlc.state
  seen,   \* SoftPlc.last_inputs
  out     \* SoftPlc.last_outputs, which is also what the image shows

vars == <<plc, seen, out>>

NoInputs == [pe2 |-> FALSE, start |-> FALSE, stop |-> FALSE,
             reset |-> FALSE, estop |-> FALSE, dest |-> 0]

Init == /\ plc = InitialState
        /\ seen = NoInputs
        /\ out = OutputsOff

(* One scan: read every input tag, run the program, write every output tag. *)
ScanOnce(in) == /\ plc' = Scan(plc, in)
                /\ out' = Outputs(plc', in)
                /\ seen' = in

Next == \E in \in ScanInputs : ScanOnce(in)

Spec == Init /\ [][Next]_vars

(* The scan loop of SoftPlc._run never stops by itself. *)
FairSpec == Spec /\ WF_vars(Next)

-----------------------------------------------------------------------------
TypeOK == /\ plc \in ControlState
          /\ seen \in ScanInputs
          /\ out \in OutputStates

(* What the edges compare with is what the last scan read. *)
RemembersInputs == /\ plc.prevPe2 = seen.pe2
                   /\ plc.prevStart = seen.start
                   /\ plc.prevReset = seen.reset

(* A decision taken for one parcel never waits for another: it outlives    *)
(* the blocked eye only under a latched jam, whose reset voids it.  (The   *)
(* comment at control_logic_mvp.py:78 promises no stale decision after a   *)
(* recovery; every way of stopping has to keep it.)                        *)
NoStaleDecision == plc.pending # NoDecision => plc.jam \/ (out.motor /\ seen.pe2)

(* While a decision is held, the arm shows it: what will be counted is     *)
(* where the parcel is being sent.                                         *)
ArmShowsDecision ==
  plc.pending # NoDecision /\ ~plc.jam => (out.divert <=> plc.pending = ChuteA)

(* A parcel is counted for a chute only if the motor ran and the arm stood *)
(* for that chute both while it last blocked the eye and when it left.     *)
CountFollowsArm ==
  [][ /\ out'.countA # out.countA =>
           out.motor /\ out.divert /\ out'.motor /\ out'.divert
      /\ out'.countB # out.countB =>
           out.motor /\ ~out.divert /\ out'.motor /\ ~out'.divert ]_vars

(* The motor comes on only by a fresh press of Start with the E-stop       *)
(* released: releasing the E-stop, releasing Stop or acknowledging a jam   *)
(* never restarts the line.  And the arm never comes back with it: an arm  *)
(* extended by the restarting scan belongs to a parcel just arrived.       *)
RestartNeedsStart ==
  [][ out'.motor /\ ~out.motor =>
        /\ seen'.start /\ ~seen.start /\ ~seen'.estop
        /\ out'.divert => seen'.pe2 /\ ~seen.pe2 ]_vars

(* A jam, once raised, is dropped only by a fresh press of Reset, and      *)
(* while it shows neither the motor nor the arm is energised.              *)
JamHoldsUntilReset ==
  [][ /\ out.jam /\ ~out'.jam => seen'.reset /\ ~seen.reset
      /\ out'.jam => ~out'.motor /\ ~out'.divert ]_vars

(* The motor never pushes against a blocked eye for ever: pressing Start   *)
(* and Stop does not starve the jam timer.  Fresh presses of Reset do,     *)
(* since every one of them zeroes the timer, jam or no jam.                *)
ResetPressed == seen'.reset /\ ~seen.reset
MotorNeverGrinds ==
  []<>(~out.motor \/ ~seen.pe2) \/ []<><<ResetPressed>>_vars

(* A stopped line is safe and carries nothing over: under an E-stop or a   *)
(* jam the motor is off, a motor that is off has no arm extended, and a    *)
(* line stopped without a jam has neither arm nor decision latched behind  *)
(* the outputs (control_logic_mvp.py:78-80).                               *)
StoppedIsSafe ==
  /\ seen.estop \/ out.jam => ~out.motor
  /\ ~out.motor => ~out.divert
  /\ ~out.motor /\ ~out.jam => ~plc.divert /\ plc.pending = NoDecision

(* "stop or E-stop drops it" (docs/TAG_MAP_MVP.md:29): whenever the scan   *)
(* saw Stop or the E-stop, the motor is off.                               *)
StopHoldsMotorOff == seen.stop \/ seen.estop => ~out.motor

(* The program keeps the promise of SortingPromise. *)
Mode == IF plc.jam THEN "jammed" ELSE IF plc.running THEN "running" ELSE "stopped"
Tally == [c \in {ChuteA, ChuteB} |-> IF c = ChuteA THEN plc.countA ELSE plc.countB]

Promise == INSTANCE SortingPromise
             WITH mode <- Mode, held <- plc.pending, tally <- Tally,
                  TallyModulus <- CounterModulus

KeepsPromise == Promise!Spec
=============================================================================
