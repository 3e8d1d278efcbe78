-------------------------- MODULE ControlMvpProofs --------------------------
(***************************************************************************)
(* Theorems about ControlMvp, for every jam limit, counter width and set   *)
(* of destinations.                                                        *)
(***************************************************************************)
EXTENDS ControlMvp, ScanPlantProofs

(* The inductive invariant: the scan state is coherent, its memory is the  *)
(* last inputs, and what the image shows is what that state and those      *)
(* inputs make it show.                                                    *)
IInv == /\ TypeOK
        /\ Coherent(plc)
        /\ RemembersInputs
        /\ plc.running => ~seen.estop
        /\ out.motor = plc.running
        /\ out.divert <=> plc.divert /\ plc.running
        /\ out.jam = plc.jam
        /\ out.countA = plc.countA /\ out.countB = plc.countB

LEMMA InitIInv == Init => IInv
  <1> SUFFICES ASSUME Init PROVE IInv
    OBVIOUS
  <1>1. /\ plc \in ControlState /\ Coherent(plc)
        /\ plc = InitialState
    BY ScanStarts DEF Init
  <1>2. seen \in ScanInputs /\ seen = NoInputs
    BY ScanAssumption DEF Init, NoInputs, ScanInputs
  <1>3. out \in OutputStates /\ out = OutputsOff
    BY ScanStarts DEF Init
  <1>. QED
    BY <1>1, <1>2, <1>3
       DEF IInv, TypeOK, RemembersInputs, InitialState, NoInputs, OutputsOff

(* One scan, seen from its inductive invariant. *)
LEMMA StepIInv ==
  ASSUME IInv, NEW in \in ScanInputs, ScanOnce(in)
  PROVE  IInv' /\ Scanned(plc, in, plc') /\ seen' = in
  <1>1. Scanned(plc, in, plc')
    BY ScanEffect DEF IInv, TypeOK, ScanOnce
  <1>2. out' = Outputs(plc', in) /\ seen' = in
    BY DEF ScanOnce
  <1>3. plc' \in ControlState /\ Coherent(plc')
    BY <1>1 DEF Scanned
  <1>5. /\ out'.motor = plc'.running
        /\ out'.divert <=> plc'.divert /\ plc'.running
        /\ out'.jam = plc'.jam
        /\ out'.countA = plc'.countA /\ out'.countB = plc'.countB
        /\ out' \in OutputStates
    BY <1>1, <1>2, <1>3, OutputsEffect DEF Scanned
  <1>. QED
    BY <1>1, <1>2, <1>3, <1>5
       DEF IInv, TypeOK, RemembersInputs, Scanned, ControlState

LEMMA Invariance == Spec => []IInv
  <1>1. Init => IInv
    BY InitIInv
  <1>2. IInv /\ [Next]_vars => IInv'
    <2> SUFFICES ASSUME IInv, [Next]_vars PROVE IInv'
      OBVIOUS
    <2>1. CASE Next
      <3>1. PICK in \in ScanInputs : ScanOnce(in)
        BY <2>1 DEF Next
      <3>. QED  BY <3>1, StepIInv
    <2>2. CASE UNCHANGED vars
      BY <2>2 DEF vars, IInv, TypeOK, RemembersInputs
    <2>. QED  BY <2>1, <2>2
  <1>. QED  BY <1>1, <1>2, PTL DEF Spec

(* The scan keeps every register within its width and the jam timer within *)
(* its limit.                                                              *)
THEOREM TypeCorrect == Spec => []TypeOK
  BY Invariance, PTL DEF IInv

(* No way of stopping the line leaves an actuator on or a decision behind. *)
THEOREM StoppedSafely == Spec => []StoppedIsSafe
  <1>1. IInv => StoppedIsSafe
    BY DEF IInv, StoppedIsSafe, Coherent, TypeOK, ControlState
  <1>. QED  BY <1>1, Invariance, PTL

(* A decision never outlives its parcel's stay at the eye, jams excepted.  *)
THEOREM DecisionsAreFresh == Spec => []NoStaleDecision
  <1>1. IInv => NoStaleDecision
    BY DEF IInv, NoStaleDecision, Coherent, RemembersInputs
  <1>. QED  BY <1>1, Invariance, PTL

(* While a decision is held the arm stands for it.                         *)
THEOREM ArmIsTruthful == Spec => []ArmShowsDecision
  <1>1. IInv => ArmShowsDecision
    BY DEF IInv, ArmShowsDecision, Coherent
  <1>. QED  BY <1>1, Invariance, PTL

(* A count is taken only from a line that runs on, for the chute the arm   *)
(* stood for before and after the parcel left.                             *)
THEOREM CountsFollowTheArm == Spec => CountFollowsArm
  <1> DEFINE ScanStep ==
        /\ out'.countA # out.countA =>
             out.motor /\ out.divert /\ out'.motor /\ out'.divert
        /\ out'.countB # out.countB =>
             out.motor /\ ~out.divert /\ out'.motor /\ ~out'.divert
  <1>1. IInv /\ [Next]_vars => [ScanStep]_vars
    <2> SUFFICES ASSUME IInv, NEW in \in ScanInputs, ScanOnce(in) PROVE ScanStep
      BY DEF Next
    <2>1. IInv' /\ Scanned(plc, in, plc')
      BY StepIInv
    <2>2. CASE CountsUnchanged(plc, plc')
      BY <2>1, <2>2 DEF IInv, CountsUnchanged
    <2>3. CASE Delivers(plc, plc')
      BY <2>1, <2>3 DEF IInv, Delivers, Coherent, TypeOK, ControlState
    <2>. QED  BY <2>1, <2>2, <2>3 DEF Scanned
  <1>. QED  BY <1>1, Invariance, PTL DEF Spec, CountFollowsArm

(* The line restarts only by a fresh Start, and never with an old arm.     *)
THEOREM RestartIsDeliberate == Spec => RestartNeedsStart
  <1> DEFINE ScanStep ==
        out'.motor /\ ~out.motor =>
          /\ seen'.start /\ ~seen.start /\ ~seen'.estop
          /\ out'.divert => seen'.pe2 /\ ~seen.pe2
  <1>1. IInv /\ [Next]_vars => [ScanStep]_vars
    <2> SUFFICES ASSUME IInv, NEW in \in ScanInputs, ScanOnce(in) PROVE ScanStep
      BY DEF Next
    <2>1. IInv' /\ Scanned(plc, in, plc') /\ seen' = in
      BY StepIInv
    <2>. QED  BY <2>1 DEF IInv, Scanned, RemembersInputs
  <1>. QED  BY <1>1, Invariance, PTL DEF Spec, RestartNeedsStart

(* A jam is dropped only by a fresh Reset, and stops the line until then.  *)
THEOREM JamIsLatched == Spec => JamHoldsUntilReset
  <1> DEFINE ScanStep ==
        /\ out.jam /\ ~out'.jam => seen'.reset /\ ~seen.reset
        /\ out'.jam => ~out'.motor /\ ~out'.divert
  <1>1. IInv /\ [Next]_vars => [ScanStep]_vars
    <2> SUFFICES ASSUME IInv, NEW in \in ScanInputs, ScanOnce(in) PROVE ScanStep
      BY DEF Next
    <2>1. IInv' /\ Scanned(plc, in, plc') /\ seen' = in
      BY StepIInv
    <2>. QED  BY <2>1 DEF IInv, Scanned, RemembersInputs, Coherent
  <1>. QED  BY <1>1, Invariance, PTL DEF Spec, JamHoldsUntilReset

-----------------------------------------------------------------------------
(* The program implements SortingPromise: every scan is a stop, a start, a *)
(* decision, a delivery, a jam, a clearing or a voiding, or nothing.       *)
THEOREM PromiseKept == Spec => KeepsPromise
  <1> USE DEF NoDecision, ChuteA, ChuteB, Promise!NoChute, Promise!Chutes
  <1>1. Init => Promise!Init
    BY DEF Init, InitialState, Promise!Init, Mode, Tally
  <1>2. IInv /\ [Next]_vars => [Promise!Next]_(Promise!vars)
    <2> SUFFICES ASSUME IInv, [Next]_vars
                 PROVE  Promise!Next \/ UNCHANGED Promise!vars
      OBVIOUS
    <2>1. CASE UNCHANGED vars
      BY <2>1 DEF vars, Promise!vars, Mode, Tally
    <2>2. ASSUME NEW in \in ScanInputs, ScanOnce(in)
          PROVE  Promise!Next \/ UNCHANGED Promise!vars
      <3>1. Scanned(plc, in, plc') /\ IInv'
        BY <2>2, StepIInv
      <3>2. /\ plc \in ControlState /\ Coherent(plc)
            /\ plc' \in ControlState /\ Coherent(plc')
        BY <3>1 DEF IInv, TypeOK
      <3>3. CASE Delivers(plc, plc')
        <4>1. Mode = "running" /\ Mode' = "running" /\ plc'.pending = NoDecision
          BY <3>3 DEF Delivers, Mode
        <4>2. /\ plc.pending \in {ChuteA, ChuteB}
              /\ Tally' = [Tally EXCEPT ![plc.pending] = (@ + 1) % CounterModulus]
          BY <3>2, <3>3 DEF Delivers, Tally, ControlState
        <4>3. Promise!Deliver(plc.pending)
          BY <4>1, <4>2 DEF Promise!Deliver
        <4>. QED  BY <4>2, <4>3 DEF Promise!Next
      <3>4. CASE CountsUnchanged(plc, plc')
        <4>1. Tally' = Tally
          BY <3>4 DEF CountsUnchanged, Tally
        <4>2. plc'.pending \in {NoDecision, ChuteA, ChuteB}
          BY <3>2 DEF ControlState
        <4>3. CASE plc'.jam
          <5>1. Mode' = "jammed"
            BY <4>3 DEF Mode
          <5>2. CASE plc.jam
            BY <3>1, <4>1, <4>3, <5>1, <5>2
               DEF Scanned, Mode, Promise!Next, Promise!Void, Promise!vars
          <5>3. CASE ~plc.jam
            BY <3>1, <4>1, <4>3, <5>1, <5>3
               DEF Scanned, Mode, Promise!Next, Promise!Jam
          <5>. QED  BY <5>2, <5>3
        <4>4. CASE ~plc'.jam /\ ~plc'.running
          <5>1. Mode' = "stopped" /\ plc'.pending = NoDecision
            BY <3>2, <4>4 DEF Mode, Coherent
          <5>2. CASE plc.jam
            BY <4>1, <5>1, <5>2 DEF Mode, Promise!Next, Promise!Clear
          <5>3. CASE ~plc.jam
            BY <4>1, <5>1, <5>3 DEF Mode, Promise!Next, Promise!Stop
          <5>. QED  BY <5>2, <5>3
        <4>5. CASE ~plc'.jam /\ plc'.running
          <5>1. Mode' = "running"
            BY <4>5 DEF Mode
          <5>2. CASE plc.jam
            BY <4>1, <4>2, <5>1, <5>2 DEF Mode, Promise!Next, Promise!Clear
          <5>3. CASE ~plc.jam /\ ~plc.running
            BY <4>1, <4>2, <5>1, <5>3 DEF Mode, Promise!Next, Promise!Start
          <5>4. CASE ~plc.jam /\ plc.running
            <6>1. Mode = "running"
              BY <5>4 DEF Mode
            <6>2. CASE plc'.pending = NoDecision
              BY <4>1, <5>1, <6>1, <6>2 DEF Promise!Next, Promise!Void
            <6>3. CASE plc.pending = NoDecision /\ plc'.pending # NoDecision
              BY <4>1, <4>2, <5>1, <6>1, <6>3
                 DEF Promise!Next, Promise!Decide
            <6>4. CASE plc.pending # NoDecision /\ plc'.pending # NoDecision
              <7>1. plc'.pending = plc.pending
                BY <3>1, <4>5, <5>4, <6>4 DEF Scanned
              <7>. QED  BY <4>1, <5>1, <6>1, <7>1 DEF Promise!vars
            <6>. QED  BY <6>2, <6>3, <6>4
          <5>. QED  BY <5>2, <5>3, <5>4
        <4>. QED  BY <3>2, <4>3, <4>4, <4>5 DEF ControlState
      <3>. QED  BY <3>1, <3>3, <3>4 DEF Scanned
    <2>. QED  BY <2>1, <2>2 DEF Next
  <1>. QED  BY <1>1, <1>2, Invariance, PTL DEF Spec, KeepsPromise, Promise!Spec
=============================================================================
