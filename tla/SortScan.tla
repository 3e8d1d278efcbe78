------------------------------ MODULE SortScan ------------------------------
(***************************************************************************)
(* The scan of the MVP sorting program, plc/control_logic_mvp.py, as a     *)
(* function from the state a scan finds and the inputs it reads to the     *)
(* state it leaves.  A scan is a fixed sequence of phases; each phase is   *)
(* one operator here, and Scan composes them in the order of the code.     *)
(*                                                                         *)
(* plc/control_logic_advanced.py repeats the same phases with another      *)
(* source for the destination; RingCell reuses them and replaces Decide.   *)
(*                                                                         *)
(* The counters are Python integers of which only "& 0xFFFF" is ever seen, *)
(* so they are kept modulo CounterModulus.  sensor.pe_001 is read by the   *)
(* scan and used by nothing, so it is not an input here.                   *)
(***************************************************************************)
EXTENDS Integers

CONSTANTS
  JamScanLimit,    \* scans the eye may stay blocked under a running motor (20)
  CounterModulus,  \* 2^16: the width of a counter's input register
  Destinations     \* the values data.parcel_destination may hold

ASSUME ScanAssumption ==
  /\ JamScanLimit \in Nat /\ JamScanLimit > 1
  /\ CounterModulus \in Nat /\ CounterModulus > 1
  /\ Destinations \subseteq Nat /\ 0 \in Destinations

ChuteA == 1
ChuteB == 2
NoDecision == 0

(* What a scan reads from the process image. *)
ScanInputs == [pe2 : BOOLEAN, start : BOOLEAN, stop : BOOLEAN,
               reset : BOOLEAN, estop : BOOLEAN, dest : Destinations]

(* What the program keeps from one scan to the next. *)
ControlState ==
  [running : BOOLEAN, jam : BOOLEAN, divert : BOOLEAN,
   pending : {NoDecision, ChuteA, ChuteB},
   countA : 0 .. CounterModulus - 1, countB : 0 .. CounterModulus - 1,
   jamTimer : 0 .. JamScanLimit,
   prevPe2 : BOOLEAN, prevStart : BOOLEAN, prevReset : BOOLEAN]

InitialState ==
  [running |-> FALSE, jam |-> FALSE, divert |-> FALSE, pending |-> NoDecision,
   countA |-> 0, countB |-> 0, jamTimer |-> 0,
   prevPe2 |-> FALSE, prevStart |-> FALSE, prevReset |-> FALSE]

-----------------------------------------------------------------------------
(* Edges, against the inputs of the scan before. *)
StartEdge(s, in) == in.start /\ ~s.prevStart
ResetEdge(s, in) == in.reset /\ ~s.prevReset
EyeRises(s, in)  == in.pe2 /\ ~s.prevPe2
EyeFalls(s, in)  == ~in.pe2 /\ s.prevPe2

(* motor_should_run: no phase after the jam timer changes what it reads. *)
MotorOn(s, in) == s.running /\ ~in.estop /\ ~s.jam

(* Operators named for what they get wrong (HaltKeepsArm, ...) are the     *)
(* mutants of the operator they precede; nothing else uses them.           *)
AcknowledgeKeepsDecision(s, in) ==
  IF ResetEdge(s, in)
  THEN [s EXCEPT !.jam = FALSE, !.jamTimer = 0, !.divert = FALSE]
  ELSE s

Acknowledge(s, in) ==
  IF ResetEdge(s, in)
  THEN [s EXCEPT !.jam = FALSE, !.jamTimer = 0,
                 !.pending = NoDecision, !.divert = FALSE]
  ELSE s

HaltKeepsDecision(s, in) ==
  IF in.estop \/ in.stop
  THEN [s EXCEPT !.running = FALSE, !.divert = FALSE]
  ELSE s

HaltKeepsArm(s, in) ==
  IF in.estop \/ in.stop
  THEN [s EXCEPT !.running = FALSE, !.pending = NoDecision]
  ELSE s

HaltZeroesTimer(s, in) ==
  IF in.estop \/ in.stop
  THEN [s EXCEPT !.running = FALSE, !.divert = FALSE, !.pending = NoDecision,
                 !.jamTimer = 0]
  ELSE s

Halt(s, in) ==
  IF in.estop \/ in.stop
  THEN [s EXCEPT !.running = FALSE, !.divert = FALSE, !.pending = NoDecision]
  ELSE s

StartOnLevel(s, in) ==
  [s EXCEPT !.running = @ \/ (in.start /\ ~in.estop /\ ~s.jam)]

StartClearsJam(s, in) ==
  IF StartEdge(s, in) /\ ~in.estop
  THEN [s EXCEPT !.running = TRUE, !.jam = FALSE]
  ELSE s

(* Start comes after Halt: a start edge wins over a held stop button. *)
Start(s, in) ==
  [s EXCEPT !.running = @ \/ (StartEdge(s, in) /\ ~in.estop /\ ~s.jam)]

TimerNeverClears(s, in) ==
  LET timer == IF MotorOn(s, in) /\ in.pe2 THEN s.jamTimer + 1 ELSE s.jamTimer
  IN  IF timer >= JamScanLimit
      THEN [s EXCEPT !.jamTimer = timer, !.jam = TRUE, !.running = FALSE]
      ELSE [s EXCEPT !.jamTimer = timer]

JamOffByOne(s, in) ==
  LET timer == IF MotorOn(s, in) /\ in.pe2 THEN s.jamTimer + 1 ELSE 0
  IN  IF timer > JamScanLimit
      THEN [s EXCEPT !.jamTimer = timer, !.jam = TRUE, !.running = FALSE]
      ELSE [s EXCEPT !.jamTimer = timer]

(* Count the scans the eye is blocked under a running motor; trip at the   *)
(* limit.  A trip leaves the decision and the arm latched.                 *)
WatchEye(s, in) ==
  LET timer == IF MotorOn(s, in) /\ in.pe2 THEN s.jamTimer + 1 ELSE 0
  IN  IF timer >= JamScanLimit
      THEN [s EXCEPT !.jamTimer = timer, !.jam = TRUE, !.running = FALSE]
      ELSE [s EXCEPT !.jamTimer = timer]

(* The routing decision: anything but CHUTE_A goes to CHUTE_B. *)
DecideFor(s, dest) ==
  [s EXCEPT !.pending = IF dest = ChuteA THEN ChuteA ELSE ChuteB,
            !.divert = (dest = ChuteA)]

DecideOnLevel(s, in) ==
  IF in.pe2 /\ MotorOn(s, in) THEN DecideFor(s, in.dest) ELSE s

Decide(s, in) ==
  IF EyeRises(s, in) /\ MotorOn(s, in) THEN DecideFor(s, in.dest) ELSE s

CountOnRise(s, in) ==
  IF EyeRises(s, in) /\ MotorOn(s, in) /\ s.pending # NoDecision
  THEN [s EXCEPT !.pending = NoDecision,
         !.countA = IF s.pending = ChuteA THEN (@ + 1) % CounterModulus ELSE @,
         !.countB = IF s.pending = ChuteA THEN @ ELSE (@ + 1) % CounterModulus]
  ELSE s

CountKeepsDecision(s, in) ==
  IF EyeFalls(s, in) /\ MotorOn(s, in) /\ s.pending # NoDecision
  THEN [s EXCEPT
         !.countA = IF s.pending = ChuteA THEN (@ + 1) % CounterModulus ELSE @,
         !.countB = IF s.pending = ChuteA THEN @ ELSE (@ + 1) % CounterModulus]
  ELSE s

(* The parcel has left the eye: count it for the chute decided, once. *)
Count(s, in) ==
  IF EyeFalls(s, in) /\ MotorOn(s, in) /\ s.pending # NoDecision
  THEN [s EXCEPT !.pending = NoDecision,
         !.countA = IF s.pending = ChuteA THEN (@ + 1) % CounterModulus ELSE @,
         !.countB = IF s.pending = ChuteA THEN @ ELSE (@ + 1) % CounterModulus]
  ELSE s

Remember(s, in) ==
  [s EXCEPT !.prevPe2 = in.pe2, !.prevStart = in.start, !.prevReset = in.reset]

-----------------------------------------------------------------------------
(* The buttons and the jam timer, up to the point where a program decides. *)
Supervise(s, in) == WatchEye(Start(Halt(Acknowledge(s, in), in), in), in)

Scan(s, in) == Remember(Count(Decide(Supervise(s, in), in), in), in)

(* The outputs of the scan that read in and left s. *)
Outputs(s, in) ==
  [motor |-> MotorOn(s, in), divert |-> s.divert /\ MotorOn(s, in),
   jam |-> s.jam, countA |-> s.countA, countB |-> s.countB]

OutputStates == [motor : BOOLEAN, divert : BOOLEAN, jam : BOOLEAN,
                 countA : 0 .. CounterModulus - 1,
                 countB : 0 .. CounterModulus - 1]

OutputsOff == [motor |-> FALSE, divert |-> FALSE, jam |-> FALSE,
               countA |-> 0, countB |-> 0]

-----------------------------------------------------------------------------
(* What every scan preserves, and every property below rests on:           *)
(*  - the latches: never running and jammed; the arm only while not idle;  *)
(*  - a decision is held only while its parcel blocks the eye, under a     *)
(*    latched motor, or across a jam, and it is the one the arm shows;     *)
(*  - the jam timer is below its limit while no jam is latched, and zero   *)
(*    while the line is idle.                                              *)
Coherent(s) ==
  /\ s.jam => ~s.running
  /\ s.divert => s.running \/ s.jam
  /\ s.pending # NoDecision => s.jam \/ (s.running /\ s.prevPe2)
  /\ s.pending # NoDecision => (s.divert <=> s.pending = ChuteA)
  /\ ~s.jam => s.jamTimer < JamScanLimit
  /\ ~s.running /\ ~s.jam => s.jamTimer = 0

=============================================================================
