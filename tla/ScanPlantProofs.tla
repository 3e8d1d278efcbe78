-------------------------- MODULE ScanPlantProofs ---------------------------
(***************************************************************************)
(* What a scan of the MVP program does to a coherent state, phase by phase *)
(* and as a whole, for every jam limit, counter width and set of           *)
(* destinations; and what a step of the plant and an event of a scenario   *)
(* do to the parcels, for every geometry of the line and any number of     *)
(* parcels.  The proofs of every module that runs this scan cite           *)
(* ScanEffect, those of the two cells the lemmas on the plant.  Two lemmas *)
(* about Min and Max, that they need too, come first.                      *)
(***************************************************************************)
EXTENDS SortScan, SceneModel, FiniteSetTheorems, WellFoundedInduction, TLAPS

(* A nonempty set of naturals has a least element, which Min chooses. *)
LEMMA MinIsLeast ==
  ASSUME NEW S \in SUBSET Nat, S # {}
  PROVE  Min(S) \in S /\ \A y \in S : Min(S) <= y
  <1> DEFINE Below == {p \in Nat \X Nat : p[1] < p[2]}
  <1>1. IsWellFoundedOn(Below, Nat)
    <2>1. Below = OpToRel(<, Nat)
      BY DEF OpToRel
    <2>. QED  BY <2>1, NatLessThanWellFounded
  <1>2. PICK x \in S : \A y \in S : ~(<<y, x>> \in Below)
    BY <1>1, WFMin
  <1>3. ASSUME NEW y \in S PROVE x <= y
    <2>1. x \in Nat /\ y \in Nat /\ ~(<<y, x>> \in Below)
      BY <1>2
    <2>2. <<y, x>> \in Below <=> y < x
      BY <2>1
    <2>. QED  BY <2>1, <2>2
  <1>. QED  BY <1>3 DEF Min

(* A nonempty set of numbers up to n has a greatest one, which Max chooses: *)
(* it is as far below n as any.                                             *)
LEMMA MaxIsGreatest ==
  ASSUME NEW n \in Nat, NEW S \in SUBSET (1 .. n), S # {}
  PROVE  Max(S) \in S
  <1> DEFINE T == {k \in Nat : n - k \in S}
  <1>1. T \in SUBSET Nat /\ T # {}
    <2>1. PICK x \in S : TRUE
      OBVIOUS
    <2>2. x \in 1 .. n /\ n - x \in Nat /\ n - (n - x) = x
      OBVIOUS
    <2>3. n - x \in T
      BY <2>1, <2>2
    <2>. QED  BY <2>3
  <1> HIDE DEF T
  <1>2. Min(T) \in T /\ \A k \in T : Min(T) <= k
    BY <1>1, MinIsLeast
  <1>3. n - Min(T) \in S /\ Min(T) \in Nat
    BY <1>2 DEF T
  <1>4. ASSUME NEW y \in S PROVE n - Min(T) >= y
    <2>1. y \in 1 .. n /\ n - y \in Nat /\ n - (n - y) = y
      OBVIOUS
    <2>2. n - y \in T
      BY <2>1 DEF T
    <2>. QED  BY <1>2, <1>3, <2>1, <2>2
  <1>. QED  BY <1>3, <1>4 DEF Max

-----------------------------------------------------------------------------
(* What the buttons and the jam timer make of a coherent state: t is what  *)
(* is left for the decision and the count to look at.                      *)
Supervised(s, in, t) ==
  /\ t \in ControlState
  /\ t.jam => ~t.running
  /\ t.running => ~in.estop
  /\ t.divert => t.running \/ t.jam
  /\ ~t.jam => t.jamTimer < JamScanLimit
  /\ ~t.running /\ ~t.jam => t.jamTimer = 0
  /\ t.running /\ ~s.running => in.start /\ ~s.prevStart /\ ~t.divert
  /\ s.jam /\ ~t.jam => in.reset /\ ~s.prevReset
  /\ t.jam /\ ~s.jam => s.running
  /\ t.pending # NoDecision =>
       /\ t.pending = s.pending
       /\ t.divert = s.divert
       /\ s.jam <=> t.jam /\ ~s.running
       /\ ~t.jam => t.running /\ s.running
  /\ t.countA = s.countA /\ t.countB = s.countB
  /\ t.prevPe2 = s.prevPe2

(* A step that counts: the decision of a line that ran and runs on.        *)
Delivers(s, r) ==
  /\ s.running /\ ~s.jam /\ r.running /\ ~r.jam
  /\ s.pending # NoDecision /\ r.pending = NoDecision
  /\ r.divert = s.divert
  /\ r.countA = IF s.pending = ChuteA THEN (s.countA + 1) % CounterModulus
                                      ELSE s.countA
  /\ r.countB = IF s.pending = ChuteA THEN s.countB
                                      ELSE (s.countB + 1) % CounterModulus

CountsUnchanged(s, r) == r.countA = s.countA /\ r.countB = s.countB

(* The phases, field by field. *)
Acknowledged(s, in, t) ==
  /\ t \in ControlState
  /\ t.running = s.running
  /\ t.jam <=> (s.jam /\ ~ResetEdge(s, in))
  /\ t.divert <=> (s.divert /\ ~ResetEdge(s, in))
  /\ t.pending = IF ResetEdge(s, in) THEN NoDecision ELSE s.pending
  /\ t.jamTimer = IF ResetEdge(s, in) THEN 0 ELSE s.jamTimer
  /\ t.countA = s.countA /\ t.countB = s.countB
  /\ t.prevPe2 = s.prevPe2 /\ t.prevStart = s.prevStart

Halted(s, in, t) ==
  /\ t \in ControlState
  /\ t.running <=> (s.running /\ ~(in.estop \/ in.stop))
  /\ t.divert <=> (s.divert /\ ~(in.estop \/ in.stop))
  /\ t.pending = IF in.estop \/ in.stop THEN NoDecision ELSE s.pending
  /\ t.jam = s.jam /\ t.jamTimer = s.jamTimer
  /\ t.countA = s.countA /\ t.countB = s.countB
  /\ t.prevPe2 = s.prevPe2 /\ t.prevStart = s.prevStart

Started(s, in, t) ==
  /\ t \in ControlState
  /\ t.running <=> (s.running \/ (StartEdge(s, in) /\ ~in.estop /\ ~s.jam))
  /\ t.divert = s.divert /\ t.pending = s.pending
  /\ t.jam = s.jam /\ t.jamTimer = s.jamTimer
  /\ t.countA = s.countA /\ t.countB = s.countB
  /\ t.prevPe2 = s.prevPe2 /\ t.prevStart = s.prevStart

Timer(s, in) == IF MotorOn(s, in) /\ in.pe2 THEN s.jamTimer + 1 ELSE 0

Watched(s, in, t) ==
  /\ t \in ControlState
  /\ t.jamTimer = Timer(s, in)
  /\ t.running <=> (s.running /\ ~(Timer(s, in) >= JamScanLimit))
  /\ t.jam <=> (s.jam \/ Timer(s, in) >= JamScanLimit)
  /\ t.divert = s.divert /\ t.pending = s.pending
  /\ t.countA = s.countA /\ t.countB = s.countB
  /\ t.prevPe2 = s.prevPe2 /\ t.prevStart = s.prevStart

Decided(s, in, t) ==
  /\ t \in ControlState
  /\ t.running = s.running /\ t.jam = s.jam /\ t.jamTimer = s.jamTimer
  /\ t.countA = s.countA /\ t.countB = s.countB
  /\ t.prevPe2 = s.prevPe2
  /\ IF EyeRises(s, in) /\ MotorOn(s, in)
     THEN t.pending # NoDecision /\ (t.divert <=> t.pending = ChuteA)
     ELSE t.pending = s.pending /\ t.divert = s.divert

Counted(s, in, t) ==
  /\ t \in ControlState
  /\ t.running = s.running /\ t.jam = s.jam /\ t.jamTimer = s.jamTimer
  /\ t.divert = s.divert
  /\ IF EyeFalls(s, in) /\ MotorOn(s, in) /\ s.pending # NoDecision
     THEN /\ t.pending = NoDecision
          /\ t.countA = IF s.pending = ChuteA
                        THEN (s.countA + 1) % CounterModulus ELSE s.countA
          /\ t.countB = IF s.pending = ChuteA
                        THEN s.countB ELSE (s.countB + 1) % CounterModulus
     ELSE t.pending = s.pending /\ t.countA = s.countA /\ t.countB = s.countB

Remembered(s, in, t) ==
  /\ t \in ControlState
  /\ t.running = s.running /\ t.jam = s.jam /\ t.jamTimer = s.jamTimer
  /\ t.divert = s.divert /\ t.pending = s.pending
  /\ t.countA = s.countA /\ t.countB = s.countB
  /\ t.prevPe2 = in.pe2 /\ t.prevStart = in.start /\ t.prevReset = in.reset

-----------------------------------------------------------------------------
LEMMA AcknowledgeEffect ==
  ASSUME NEW s \in ControlState, NEW in \in ScanInputs
  PROVE  Acknowledged(s, in, Acknowledge(s, in))
  <1>1. CASE ResetEdge(s, in)
    <2>1. Acknowledge(s, in) = [s EXCEPT !.jam = FALSE, !.jamTimer = 0,
                                !.pending = NoDecision, !.divert = FALSE]
      BY <1>1 DEF Acknowledge
    <2>2. 0 \in 0 .. JamScanLimit
      BY ScanAssumption
    <2>3. Acknowledge(s, in) \in ControlState
      BY <2>1, <2>2 DEF ControlState, NoDecision
    <2>. QED  BY <1>1, <2>1, <2>3 DEF ControlState, Acknowledged
  <1>2. CASE ~ResetEdge(s, in)
    BY <1>2 DEF Acknowledge, ControlState, Acknowledged
  <1>. QED  BY <1>1, <1>2

LEMMA HaltEffect ==
  ASSUME NEW s \in ControlState, NEW in \in ScanInputs
  PROVE  Halted(s, in, Halt(s, in))
  BY DEF Halted, Halt, ControlState, ScanInputs, NoDecision

LEMMA StartEffect ==
  ASSUME NEW s \in ControlState, NEW in \in ScanInputs
  PROVE  Started(s, in, Start(s, in))
  BY DEF Started, Start, StartEdge, ControlState, ScanInputs

LEMMA WatchEyeEffect ==
  ASSUME NEW s \in ControlState, NEW in \in ScanInputs,
         ~s.jam => s.jamTimer < JamScanLimit
  PROVE  Watched(s, in, WatchEye(s, in))
  <1>1. Timer(s, in) \in 0 .. JamScanLimit
    BY ScanAssumption DEF Timer, MotorOn, ControlState
  <1>2. CASE Timer(s, in) >= JamScanLimit
    <2>1. WatchEye(s, in) = [s EXCEPT !.jamTimer = Timer(s, in), !.jam = TRUE,
                                      !.running = FALSE]
      BY <1>2 DEF WatchEye, Timer
    <2>. QED  BY <1>1, <1>2, <2>1 DEF ControlState, Watched
  <1>3. CASE ~(Timer(s, in) >= JamScanLimit)
    <2>1. WatchEye(s, in) = [s EXCEPT !.jamTimer = Timer(s, in)]
      BY <1>3 DEF WatchEye, Timer
    <2>. QED  BY <1>1, <1>3, <2>1 DEF ControlState, Watched
  <1>. QED  BY <1>2, <1>3

LEMMA SuperviseEffect ==
  ASSUME NEW s \in ControlState, Coherent(s), NEW in \in ScanInputs
  PROVE  Supervised(s, in, Supervise(s, in))
  <1> DEFINE a == Acknowledge(s, in)
             h == Halt(a, in)
             b == Start(h, in)
             t == WatchEye(b, in)
  <1>1. Acknowledged(s, in, a)
    BY AcknowledgeEffect
  <1>2. Halted(a, in, h)
    BY <1>1, HaltEffect DEF Acknowledged
  <1>3. Started(h, in, b)
    BY <1>2, StartEffect DEF Halted
  <1>4. t = Supervise(s, in)
    BY DEF Supervise
  <1> HIDE DEF a, h, b
  <1>5. ~b.jam => b.jamTimer < JamScanLimit
    BY <1>1, <1>2, <1>3, ScanAssumption
       DEF Coherent, Acknowledged, Halted, Started
  <1>6. Watched(b, in, t)
    BY <1>3, <1>5, WatchEyeEffect DEF Started
  <1> HIDE DEF t
  <1>7. Supervised(s, in, t)
    BY <1>1, <1>2, <1>3, <1>6, ScanAssumption
       DEF Supervised, Acknowledged, Halted, Started, Watched, Timer, Coherent,
           MotorOn, StartEdge, ResetEdge, NoDecision, ControlState, ScanInputs
  <1>. QED  BY <1>4, <1>7

(* What a whole scan does to a coherent state. *)
Scanned(s, in, r) ==
  /\ r \in ControlState
  /\ Coherent(r)
  /\ r.prevPe2 = in.pe2 /\ r.prevStart = in.start /\ r.prevReset = in.reset
  /\ r.running => ~in.estop
  /\ r.running /\ ~s.running =>
       /\ in.start /\ ~s.prevStart
       /\ r.divert => in.pe2 /\ ~s.prevPe2
  /\ s.jam /\ ~r.jam => in.reset /\ ~s.prevReset
  /\ r.jam /\ ~s.jam => s.running
  /\ CountsUnchanged(s, r) \/ Delivers(s, r)
  /\ CountsUnchanged(s, r) =>
       \/ r.pending = NoDecision
       \/ r.pending = s.pending /\ (r.jam \/ ~s.jam)
       \/ s.pending = NoDecision /\ r.running
       \/ s.jam /\ r.running
  /\ s.running /\ r.running /\ s.pending # NoDecision
        => r.pending \in {s.pending, NoDecision}
  /\ r.jam => r.pending \in {s.pending, NoDecision}

LEMMA DecideEffect ==
  ASSUME NEW s \in ControlState, NEW in \in ScanInputs
  PROVE  Decided(s, in, Decide(s, in))
  <1>1. DecideFor(s, in.dest) =
          [s EXCEPT !.pending = IF in.dest = ChuteA THEN ChuteA ELSE ChuteB,
                    !.divert = (in.dest = ChuteA)]
    BY DEF DecideFor
  <1>2. CASE EyeRises(s, in) /\ MotorOn(s, in)
    <2>1. CASE in.dest = ChuteA
      <3>1. Decide(s, in) = [s EXCEPT !.pending = ChuteA, !.divert = TRUE]
        BY <1>1, <1>2, <2>1 DEF Decide
      <3>2. Decide(s, in) \in ControlState
        BY <3>1 DEF ControlState, ChuteA, ChuteB
      <3>. QED  BY <1>2, <3>1, <3>2
                DEF Decided, ControlState, NoDecision, ChuteA, ChuteB
    <2>2. CASE in.dest # ChuteA
      <3>1. Decide(s, in) = [s EXCEPT !.pending = ChuteB, !.divert = FALSE]
        BY <1>1, <1>2, <2>2 DEF Decide
      <3>2. Decide(s, in) \in ControlState
        BY <3>1 DEF ControlState, ChuteA, ChuteB
      <3>. QED  BY <1>2, <3>1, <3>2
                DEF Decided, ControlState, NoDecision, ChuteA, ChuteB
    <2>. QED  BY <2>1, <2>2
  <1>3. CASE ~(EyeRises(s, in) /\ MotorOn(s, in))
    BY <1>3 DEF Decided, Decide, ControlState
  <1>. QED  BY <1>2, <1>3

LEMMA CountEffect ==
  ASSUME NEW s \in ControlState, NEW in \in ScanInputs
  PROVE  Counted(s, in, Count(s, in))
  <1>1. /\ (s.countA + 1) % CounterModulus \in 0 .. CounterModulus - 1
        /\ (s.countB + 1) % CounterModulus \in 0 .. CounterModulus - 1
    BY ScanAssumption DEF ControlState
  <1>2. CASE EyeFalls(s, in) /\ MotorOn(s, in) /\ s.pending # NoDecision
    <2>1. CASE s.pending = ChuteA
      BY <1>1, <1>2, <2>1 DEF Counted, Count, ControlState, NoDecision
    <2>2. CASE s.pending # ChuteA
      BY <1>1, <1>2, <2>2 DEF Counted, Count, ControlState, NoDecision
    <2>. QED  BY <2>1, <2>2
  <1>3. CASE ~(EyeFalls(s, in) /\ MotorOn(s, in) /\ s.pending # NoDecision)
    BY <1>3 DEF Counted, Count, ControlState
  <1>. QED  BY <1>2, <1>3

LEMMA RememberEffect ==
  ASSUME NEW s \in ControlState, NEW in \in ScanInputs
  PROVE  Remembered(s, in, Remember(s, in))
  BY DEF Remembered, Remember, ControlState, ScanInputs

LEMMA DecideAndCountEffect ==
  ASSUME NEW s \in ControlState, Coherent(s), NEW in \in ScanInputs,
         NEW t \in ControlState, Supervised(s, in, t)
  PROVE  Scanned(s, in, Remember(Count(Decide(t, in), in), in))
  <1> DEFINE d == Decide(t, in)
             c == Count(d, in)
             r == Remember(c, in)
  <1> SUFFICES Scanned(s, in, r)
    OBVIOUS
  <1>1. Decided(t, in, d)
    BY DecideEffect
  <1>2. Counted(d, in, c)
    BY <1>1, CountEffect DEF Decided
  <1>3. Remembered(c, in, r)
    BY <1>2, RememberEffect DEF Counted
  <1> HIDE DEF d, c, r
  <1>4. /\ r.running = t.running /\ r.jam = t.jam /\ r.jamTimer = t.jamTimer
        /\ r.prevPe2 = in.pe2 /\ r.prevStart = in.start /\ r.prevReset = in.reset
        /\ d.running = t.running /\ d.jam = t.jam /\ d.prevPe2 = s.prevPe2
        /\ r.divert = d.divert
        /\ r \in ControlState /\ d \in ControlState
    BY <1>1, <1>2, <1>3 DEF Decided, Counted, Remembered, Supervised
  <1>5. /\ r.running => ~in.estop
        /\ r.running /\ ~s.running => in.start /\ ~s.prevStart
        /\ s.jam /\ ~r.jam => in.reset /\ ~s.prevReset
        /\ r.jam /\ ~s.jam => s.running
        /\ r.jam => ~r.running
        /\ ~r.jam => r.jamTimer < JamScanLimit
        /\ ~r.running /\ ~r.jam => r.jamTimer = 0
    BY <1>4 DEF Supervised
  <1>6. MotorOn(t, in) <=> r.running
    BY <1>4, <1>5 DEF MotorOn, ControlState, ScanInputs
  <1>7. CASE EyeRises(t, in) /\ MotorOn(t, in)
    <2>1. /\ in.pe2 /\ ~s.prevPe2 /\ r.running
          /\ s.running => s.pending = NoDecision
          /\ s.pending = NoDecision \/ s.jam
      BY <1>6, <1>7 DEF EyeRises, Supervised, Coherent
    <2>2. /\ r.pending # NoDecision
          /\ r.divert <=> r.pending = ChuteA
          /\ CountsUnchanged(s, r)
      BY <1>1, <1>2, <1>3, <1>4, <1>7, <2>1
         DEF Decided, Counted, Remembered, EyeFalls, CountsUnchanged, Supervised
    <2>. QED
      BY <1>4, <1>5, <2>1, <2>2 DEF Scanned, Coherent
  <1>8. CASE ~(EyeRises(t, in) /\ MotorOn(t, in))
    <2>1. /\ d.pending = t.pending /\ d.divert = t.divert
          /\ d.countA = s.countA /\ d.countB = s.countB
      BY <1>1, <1>8 DEF Decided, Supervised
    <2>2. MotorOn(d, in) <=> r.running
      BY <1>4, <1>6 DEF MotorOn
    <2>3. CASE EyeFalls(d, in) /\ MotorOn(d, in) /\ d.pending # NoDecision
      <3>1. /\ r.running /\ s.running /\ ~s.jam /\ ~r.jam
            /\ t.pending = s.pending /\ t.divert = s.divert
        BY <1>4, <1>5, <2>1, <2>2, <2>3 DEF Supervised, Coherent, ControlState
      <3>2. Delivers(s, r) /\ r.pending = NoDecision
        BY <1>2, <1>3, <1>4, <2>1, <2>3, <3>1
           DEF Counted, Remembered, Delivers, Supervised
      <3>3. ~CountsUnchanged(s, r) \/ r.pending = NoDecision
        BY <3>2
      <3>4. Coherent(r)
        BY <1>4, <1>5, <3>1, <3>2 DEF Coherent
      <3>. QED
        BY <1>4, <1>5, <3>1, <3>2, <3>4 DEF Scanned
    <2>4. CASE ~(EyeFalls(d, in) /\ MotorOn(d, in) /\ d.pending # NoDecision)
      <3>1. CountsUnchanged(s, r) /\ r.pending = t.pending /\ r.divert = t.divert
        BY <1>2, <1>3, <1>4, <2>1, <2>4
           DEF Counted, Remembered, CountsUnchanged
      <3>2. ASSUME r.pending # NoDecision
            PROVE  /\ r.pending = s.pending
                   /\ r.divert <=> r.pending = ChuteA
                   /\ r.jam \/ (r.running /\ ~s.jam /\ r.prevPe2)
        <4>1. /\ t.pending = s.pending
              /\ ~t.jam => t.running /\ s.running /\ ~s.jam
              /\ t.divert = s.divert /\ s.pending # NoDecision
          BY <3>1, <3>2 DEF Supervised, ControlState
        <4>2. s.divert <=> s.pending = ChuteA
          BY <4>1 DEF Coherent
        <4>3. ~s.jam => s.prevPe2
          BY <4>1 DEF Coherent
        <4>4. ~r.jam => in.pe2
          BY <1>4, <2>1, <2>2, <2>4, <3>1, <3>2, <4>1, <4>3 DEF EyeFalls
        <4>. QED  BY <1>4, <3>1, <4>1, <4>2, <4>4
      <3>3. r.divert => r.running \/ r.jam
        BY <1>4, <3>1 DEF Supervised
      <3>4. r.running /\ ~s.running => in.start /\ ~s.prevStart /\ ~r.divert
        BY <1>4, <3>1 DEF Supervised
      <3>. QED
        BY <1>4, <1>5, <3>1, <3>2, <3>3, <3>4 DEF Scanned, Coherent
    <2>. QED  BY <2>3, <2>4
  <1>. QED  BY <1>7, <1>8

LEMMA ScanEffect ==
  ASSUME NEW s \in ControlState, Coherent(s), NEW in \in ScanInputs
  PROVE  Scanned(s, in, Scan(s, in))
  <1>1. Supervised(s, in, Supervise(s, in))
    BY SuperviseEffect
  <1>2. Supervise(s, in) \in ControlState
    BY <1>1 DEF Supervised
  <1>. QED  BY <1>1, <1>2, DecideAndCountEffect DEF Scan

(* The program starts coherent, with nothing held. *)
LEMMA ScanStarts ==
  InitialState \in ControlState /\ Coherent(InitialState) /\ OutputsOff \in OutputStates
  <1>1. 0 \in 0 .. CounterModulus - 1 /\ 0 \in 0 .. JamScanLimit
    BY ScanAssumption
  <1>. QED
    BY <1>1, ScanAssumption
       DEF InitialState, ControlState, OutputsOff, OutputStates, Coherent,
           NoDecision, ChuteA

(* The outputs of the scan that left r. *)
LEMMA OutputsEffect ==
  ASSUME NEW r \in ControlState, Coherent(r), NEW in \in ScanInputs,
         r.running => ~in.estop
  PROVE  /\ Outputs(r, in) \in OutputStates
         /\ Outputs(r, in).motor = r.running
         /\ Outputs(r, in).divert <=> r.divert /\ r.running
         /\ Outputs(r, in).jam = r.jam
         /\ Outputs(r, in).countA = r.countA /\ Outputs(r, in).countB = r.countB
  <1>1. MotorOn(r, in) <=> r.running
    BY DEF Coherent, MotorOn
  <1>. QED
    BY <1>1 DEF Outputs, OutputStates, MotorOn, ControlState

-----------------------------------------------------------------------------
(* More of a scan, for the cells, whose parcels it watches: what it keeps  *)
(* when nothing is pressed, when it decides, and when it trips.            *)
Untroubled(s, in) == ~in.stop /\ ~in.estop /\ ~ResetEdge(s, in)

ChuteFor(dest) == IF dest = ChuteA THEN ChuteA ELSE ChuteB

SupervisedQuietly(s, in, t) ==
  /\ t.pending \in {s.pending, NoDecision}
  /\ t.divert => s.divert
  /\ Untroubled(s, in) => t.pending = s.pending /\ t.divert = s.divert
  /\ ~s.running /\ in.stop => ~t.divert
  /\ s.running /\ ~in.stop /\ ~in.estop => t.running \/ t.jam
  /\ ~in.pe2 => t.jamTimer = 0
  /\ t.jamTimer <= s.jamTimer + 1
  /\ ~s.jam /\ t.jam => in.pe2 /\ s.jamTimer + 1 >= JamScanLimit
  /\ ~t.running /\ ~t.jam => ~t.divert

LEMMA SuperviseQuietly ==
  ASSUME NEW s \in ControlState, Coherent(s), NEW in \in ScanInputs
  PROVE  SupervisedQuietly(s, in, Supervise(s, in))
  <1> DEFINE a == Acknowledge(s, in)
             h == Halt(a, in)
             b == Start(h, in)
             t == WatchEye(b, in)
  <1>1. Acknowledged(s, in, a)
    BY AcknowledgeEffect
  <1>2. Halted(a, in, h)
    BY <1>1, HaltEffect DEF Acknowledged
  <1>3. Started(h, in, b)
    BY <1>2, StartEffect DEF Halted
  <1>4. t = Supervise(s, in)
    BY DEF Supervise
  <1> HIDE DEF a, h, b
  <1>5. ~b.jam => b.jamTimer < JamScanLimit
    BY <1>1, <1>2, <1>3, ScanAssumption
       DEF Coherent, Acknowledged, Halted, Started
  <1>6. Watched(b, in, t)
    BY <1>3, <1>5, WatchEyeEffect DEF Started
  <1> HIDE DEF t
  <1>7. /\ b.jamTimer \in Nat /\ b.jamTimer <= s.jamTimer /\ s.jamTimer \in Nat
        /\ b.jam => s.jam
    BY <1>1, <1>2, <1>3, ScanAssumption DEF Acknowledged, Halted, Started, ControlState
  <1>8. /\ t.pending \in {s.pending, NoDecision}
        /\ t.divert => s.divert
        /\ Untroubled(s, in) => t.pending = s.pending /\ t.divert = s.divert
        /\ ~s.running /\ in.stop => ~t.divert
    BY <1>1, <1>2, <1>3, <1>6
       DEF Acknowledged, Halted, Started, Watched, Untroubled, ControlState, ScanInputs
  <1>9. /\ ~in.pe2 => t.jamTimer = 0
        /\ t.jamTimer <= s.jamTimer + 1
        /\ ~s.jam /\ t.jam => in.pe2 /\ s.jamTimer + 1 >= JamScanLimit
    BY <1>6, <1>7, ScanAssumption DEF Watched, Timer
  <1>10. s.running /\ ~in.stop /\ ~in.estop => t.running \/ t.jam
    BY <1>1, <1>2, <1>3, <1>6 DEF Acknowledged, Halted, Started, Watched
  <1>11. ~t.running /\ ~t.jam => ~t.divert
    <2>1. Supervised(s, in, t)
      BY <1>4, SuperviseEffect
    <2>. QED  BY <2>1 DEF Supervised
  <1>. QED  BY <1>4, <1>8, <1>9, <1>10, <1>11 DEF SupervisedQuietly

ScannedClosely(s, in, r) ==
  /\ r.running /\ in.pe2 /\ ~s.prevPe2 =>
       r.pending = ChuteFor(in.dest) /\ (r.divert <=> in.dest = ChuteA)
  /\ ~(r.running /\ in.pe2 /\ ~s.prevPe2) =>
       r.pending \in {s.pending, NoDecision} /\ (r.divert => s.divert)
  /\ in.pe2 /\ s.prevPe2 /\ Untroubled(s, in) =>
       r.pending = s.pending /\ r.divert = s.divert
  /\ ~in.pe2 /\ s.prevPe2 /\ r.running /\ Untroubled(s, in) /\ s.pending # NoDecision
       => Delivers(s, r)
  /\ ~CountsUnchanged(s, r) => ~in.pe2 /\ s.prevPe2
  /\ s.running /\ ~in.stop /\ ~in.estop => r.running \/ r.jam
  /\ ~in.pe2 => r.jamTimer = 0
  /\ r.jamTimer <= s.jamTimer + 1
  /\ ~s.jam /\ r.jam => in.pe2 /\ s.jamTimer + 1 >= JamScanLimit

LEMMA ScanCloselyEffect ==
  ASSUME NEW s \in ControlState, Coherent(s), NEW in \in ScanInputs
  PROVE  ScannedClosely(s, in, Scan(s, in))
  <1> DEFINE t == Supervise(s, in)
             d == Decide(t, in)
             c == Count(d, in)
             r == Remember(c, in)
  <1> SUFFICES ScannedClosely(s, in, r)
    BY DEF Scan
  <1>0. Supervised(s, in, t) /\ SupervisedQuietly(s, in, t)
    BY SuperviseEffect, SuperviseQuietly
  <1>1. Decided(t, in, d)
    BY <1>0, DecideEffect DEF Supervised
  <1>2. Counted(d, in, c)
    BY <1>1, CountEffect DEF Decided
  <1>3. Remembered(c, in, r)
    BY <1>2, RememberEffect DEF Counted
  <1> DEFINE dest == in.dest
  <1>4. /\ EyeRises(t, in) /\ MotorOn(t, in) =>
             d.pending = ChuteFor(dest) /\ (d.divert <=> dest = ChuteA)
        /\ t \in ControlState
    <2>1. t \in ControlState
      BY <1>0 DEF Supervised
    <2> HIDE DEF t
    <2>2. ASSUME EyeRises(t, in), MotorOn(t, in)
          PROVE  d = [t EXCEPT !.pending = ChuteFor(dest), !.divert = (dest = ChuteA)]
      BY <2>2 DEF Decide, DecideFor, ChuteFor
    <2>. QED  BY <2>1, <2>2 DEF ControlState
  <1> HIDE DEF t, d, c, r, dest
  <1>5. /\ r.running = t.running /\ r.jam = t.jam /\ r.jamTimer = t.jamTimer
        /\ d.running = t.running /\ d.jam = t.jam /\ d.prevPe2 = s.prevPe2
        /\ t.prevPe2 = s.prevPe2
        /\ r.divert = d.divert /\ d \in ControlState /\ r \in ControlState
        /\ r.pending = c.pending /\ r.countA = c.countA /\ r.countB = c.countB
        /\ d.countA = s.countA /\ d.countB = s.countB
    BY <1>0, <1>1, <1>2, <1>3 DEF Decided, Counted, Remembered, Supervised
  <1>6. /\ MotorOn(t, in) <=> r.running
        /\ MotorOn(d, in) <=> r.running
    BY <1>0, <1>5 DEF MotorOn, Supervised
  <1>7. /\ s.running /\ ~in.stop /\ ~in.estop => r.running \/ r.jam
        /\ ~in.pe2 => r.jamTimer = 0
        /\ r.jamTimer <= s.jamTimer + 1
        /\ ~s.jam /\ r.jam => in.pe2 /\ s.jamTimer + 1 >= JamScanLimit
    BY <1>0, <1>5 DEF SupervisedQuietly
  <1>8. CASE r.running /\ in.pe2 /\ ~s.prevPe2
    <2>1. EyeRises(t, in) /\ MotorOn(t, in) /\ ~EyeFalls(d, in)
      BY <1>5, <1>6, <1>8 DEF EyeRises, EyeFalls
    <2>2. r.pending = d.pending /\ CountsUnchanged(s, r)
      BY <1>2, <1>5, <2>1 DEF Counted, CountsUnchanged
    <2>. QED  BY <1>4, <1>5, <1>7, <1>8, <2>1, <2>2 DEF ScannedClosely, dest
  <1>9. CASE ~(r.running /\ in.pe2 /\ ~s.prevPe2)
    <2>1. d.pending = t.pending /\ d.divert = t.divert
      BY <1>1, <1>5, <1>6, <1>9 DEF Decided, EyeRises
    <2>2. CASE EyeFalls(d, in) /\ MotorOn(d, in) /\ d.pending # NoDecision
      <3>1. ~in.pe2 /\ s.prevPe2 /\ r.running
        BY <1>5, <1>6, <2>2 DEF EyeFalls
      <3>2. /\ r.pending = NoDecision /\ ~r.jam /\ s.running /\ ~s.jam
            /\ t.pending = s.pending /\ t.divert = s.divert
            /\ r.countA = IF d.pending = ChuteA
                          THEN (d.countA + 1) % CounterModulus ELSE d.countA
            /\ r.countB = IF d.pending = ChuteA
                          THEN d.countB ELSE (d.countB + 1) % CounterModulus
        BY <1>0, <1>2, <1>5, <2>1, <2>2, <3>1 DEF Counted, Supervised, Coherent
      <3>3. Delivers(s, r)
        BY <1>5, <2>1, <2>2, <3>1, <3>2 DEF Delivers
      <3>4. r.divert => s.divert
        BY <1>5, <2>1, <3>2
      <3>. QED  BY <1>7, <3>1, <3>2, <3>3, <3>4 DEF ScannedClosely
    <2>3. CASE ~(EyeFalls(d, in) /\ MotorOn(d, in) /\ d.pending # NoDecision)
      <3>1. /\ r.pending = t.pending /\ r.divert = t.divert
            /\ r.countA = s.countA /\ r.countB = s.countB
        BY <1>2, <1>5, <2>1, <2>3 DEF Counted
      <3>2. ~in.pe2 /\ s.prevPe2 /\ r.running => r.pending = NoDecision
        BY <1>5, <1>6, <2>1, <2>3, <3>1 DEF EyeFalls
      <3>3. /\ r.pending \in {s.pending, NoDecision}
            /\ r.divert => s.divert
            /\ Untroubled(s, in) => r.pending = s.pending /\ r.divert = s.divert
        BY <1>0, <3>1 DEF SupervisedQuietly
      <3>. QED  BY <1>7, <1>9, <3>1, <3>2, <3>3 DEF ScannedClosely, CountsUnchanged
    <2>. QED  BY <2>2, <2>3
  <1>. QED  BY <1>8, <1>9

-----------------------------------------------------------------------------
ParcelRecords == [place : Places, dest : {ToA, ToB}, pos : 0 .. Divert - 1,
                  scanned : BOOLEAN, stuck : BOOLEAN]

(* A parcel that is not on the line has no position; one that is was       *)
(* scanned if it has reached pe_001.  Parcels are born in order, and only  *)
(* a stuck one is overtaken.                                               *)
TidyParcel(p) ==
  /\ p \in ParcelRecords
  /\ p.place # "line" => p.pos = 0 /\ ~p.scanned /\ ~p.stuck
  /\ p.place = "line" => (p.scanned <=> p.pos >= Pe1)

Tidy(sc) ==
  /\ sc \in Scenes
  /\ \A i \in Parcels : TidyParcel(sc.parcel[i])
  /\ \A i, j \in Parcels :
       i < j /\ sc.parcel[i].place = "unborn" => sc.parcel[j].place = "unborn"
  /\ \A i, j \in OnLine(sc) :
       i < j /\ ~sc.parcel[i].stuck => sc.parcel[j].pos <= sc.parcel[i].pos

(* What a step makes of a parcel. *)
Where(p, motor) == IF motor /\ ~p.stuck THEN p.pos + 1 ELSE p.pos

MovedTo(p, motor, extended, q) ==
  /\ q.dest = p.dest
  /\ p.place # "line" => q = p
  /\ p.place = "line" /\ Where(p, motor) >= Divert =>
       /\ q.place = IF extended THEN "chuteA" ELSE "chuteB"
       /\ q.pos = 0 /\ ~q.scanned /\ ~q.stuck
  /\ p.place = "line" /\ ~(Where(p, motor) >= Divert) =>
       /\ q.place = "line" /\ q.pos = Where(p, motor) /\ q.stuck = p.stuck
       /\ q.scanned <=> p.scanned \/ Where(p, motor) >= Pe1

Moved(sc, motor, extended, r) ==
  /\ \A i \in Parcels : MovedTo(sc.parcel[i], motor, extended, r.parcel[i])
  /\ Crossing(sc, motor) = {} => r.published = sc.published
  /\ Crossing(sc, motor) # {} =>
       \E i \in Crossing(sc, motor) : r.published = sc.parcel[i].dest

LEMMA ParcelsAreFinite ==
  ASSUME NEW S \in SUBSET Parcels
  PROVE  IsFiniteSet(S) /\ Cardinality(S) \in Nat /\ Cardinality(S) <= MaxParcels
  <1>1. MaxParcels \in Nat \ {0} /\ 1 \in Int /\ MaxParcels \in Int
    BY SceneAssumption
  <1>2. /\ IsFiniteSet(1 .. MaxParcels)
        /\ Cardinality(1 .. MaxParcels) = IF 1 > MaxParcels THEN 0 ELSE MaxParcels - 1 + 1
    BY <1>1, FS_Interval
  <1>3. (IF 1 > MaxParcels THEN 0 ELSE MaxParcels - 1 + 1) = MaxParcels
    BY <1>1
  <1>4. IsFiniteSet(Parcels) /\ Cardinality(Parcels) = MaxParcels
    BY <1>2, <1>3 DEF Parcels
  <1>5. IsFiniteSet(S) /\ Cardinality(S) <= Cardinality(Parcels)
    BY <1>4, FS_Subset
  <1>. QED  BY <1>4, <1>5, FS_CardinalityType

LEMMA AloneInSet ==
  ASSUME NEW S \in SUBSET Parcels, ~(Cardinality(S) > 1), NEW i \in S, NEW j \in S
  PROVE  i = j
  <1> SUFFICES ASSUME i # j PROVE FALSE
    OBVIOUS
  <1>1. IsFiniteSet({i}) /\ Cardinality({i}) = 1
    BY FS_Singleton
  <1>2. Cardinality({i} \cup {j}) = Cardinality({i}) + 1
    BY <1>1, FS_AddElement
  <1>3. {i} \cup {j} \in SUBSET S
    OBVIOUS
  <1>4. IsFiniteSet(S) /\ Cardinality(S) \in Nat
    BY ParcelsAreFinite
  <1>5. Cardinality({i} \cup {j}) <= Cardinality(S)
    BY <1>3, <1>4, FS_Subset
  <1>. QED  BY <1>1, <1>2, <1>4, <1>5

LEMMA ScenesAre ==
  ASSUME NEW sc
  PROVE  sc \in Scenes <=> sc \in [parcel : [Parcels -> ParcelRecords],
                                   published : {0, ToA, ToB}]
  BY DEF Scenes, ParcelRecords

LEMMA SteppedEffect ==
  ASSUME NEW sc \in Scenes, NEW i \in Parcels, NEW motor \in BOOLEAN,
         NEW extended \in BOOLEAN
  PROVE  /\ Stepped(sc, i, motor, extended) \in ParcelRecords
         /\ MovedTo(sc.parcel[i], motor, extended, Stepped(sc, i, motor, extended))
  <1> DEFINE p == sc.parcel[i]
             x == Where(p, motor)
  <1>1. p \in ParcelRecords
    BY DEF Scenes, ParcelRecords
  <1>2. x \in 0 .. Divert
    BY <1>1, SceneAssumption DEF ParcelRecords, Where
  <1>3. Stepped(sc, i, motor, extended) =
          IF p.place # "line" THEN p
          ELSE IF x >= Divert
          THEN [p EXCEPT !.place = IF extended THEN "chuteA" ELSE "chuteB",
                         !.pos = 0, !.scanned = FALSE, !.stuck = FALSE]
          ELSE [p EXCEPT !.pos = x, !.scanned = p.scanned \/ x >= Pe1]
    BY DEF Stepped, NewPos, Where
  <1> HIDE DEF p, x
  <1>4. CASE p.place # "line"
    BY <1>1, <1>3, <1>4 DEF MovedTo, p
  <1>5. CASE p.place = "line" /\ x >= Divert
    <2> DEFINE pl == IF extended THEN "chuteA" ELSE "chuteB"
    <2>1. pl \in Places /\ 0 \in 0 .. Divert - 1
      BY SceneAssumption DEF Places
    <2> HIDE DEF pl
    <2>2. Stepped(sc, i, motor, extended) =
            [p EXCEPT !.place = pl, !.pos = 0, !.scanned = FALSE, !.stuck = FALSE]
      BY <1>3, <1>5 DEF pl
    <2>. QED  BY <1>1, <1>5, <2>1, <2>2 DEF ParcelRecords, MovedTo, p, x, pl
  <1>6. CASE p.place = "line" /\ ~(x >= Divert)
    <2>1. x \in 0 .. Divert - 1 /\ (p.scanned \/ x >= Pe1) \in BOOLEAN
      BY <1>2, <1>6, SceneAssumption
    <2>2. Stepped(sc, i, motor, extended) =
            [p EXCEPT !.pos = x, !.scanned = p.scanned \/ x >= Pe1]
      BY <1>3, <1>6
    <2>. QED  BY <1>1, <1>6, <2>1, <2>2 DEF ParcelRecords, MovedTo, p, x
  <1>. QED  BY <1>4, <1>5, <1>6

LEMMA CrossingIs ==
  ASSUME NEW sc \in Scenes, NEW motor \in BOOLEAN
  PROVE  /\ Crossing(sc, motor) \in SUBSET Parcels
         /\ \A i \in Parcels : i \in Crossing(sc, motor) <=>
              /\ sc.parcel[i].place = "line" /\ ~sc.parcel[i].scanned
              /\ Where(sc.parcel[i], motor) >= Pe1
  BY DEF Crossing, OnLine, At, NewPos, Where

LEMMA StepEffect ==
  ASSUME NEW sc \in Scenes, NEW motor \in BOOLEAN, NEW extended \in BOOLEAN
  PROVE  /\ Step(sc, motor, extended) \in Scenes
         /\ Moved(sc, motor, extended, Step(sc, motor, extended))
  <1> DEFINE r == Step(sc, motor, extended)
             par == [i \in Parcels |-> Stepped(sc, i, motor, extended)]
             pub == IF Crossing(sc, motor) = {} THEN sc.published
                    ELSE sc.parcel[Max(Crossing(sc, motor))].dest
  <1>1. r = [parcel |-> par, published |-> pub]
    BY DEF Step
  <1>2. /\ par \in [Parcels -> ParcelRecords]
        /\ \A i \in Parcels : MovedTo(sc.parcel[i], motor, extended, par[i])
    BY SteppedEffect
  <1>3. Crossing(sc, motor) # {} => Max(Crossing(sc, motor)) \in Crossing(sc, motor)
    BY CrossingIs, MaxIsGreatest, SceneAssumption DEF Parcels
  <1>4. pub \in {0, ToA, ToB}
    BY <1>3, CrossingIs DEF Scenes
  <1> HIDE DEF par
  <1>5. r \in Scenes
    BY <1>1, <1>2, <1>4, ScenesAre
  <1>6. r.parcel = par /\ r.published = pub
    BY <1>1
  <1>. QED  BY <1>2, <1>3, <1>5, <1>6 DEF Moved

LEMMA StepTidy ==
  ASSUME NEW sc, Tidy(sc), NEW motor \in BOOLEAN, NEW extended \in BOOLEAN,
         NEW r \in Scenes, Moved(sc, motor, extended, r)
  PROVE  Tidy(r)
  <1>1. \A i \in Parcels : /\ MovedTo(sc.parcel[i], motor, extended, r.parcel[i])
                           /\ TidyParcel(sc.parcel[i])
                           /\ r.parcel[i] \in ParcelRecords
                           /\ sc.parcel[i] \in ParcelRecords
    BY ScenesAre DEF Moved, Tidy, TidyParcel
  <1>2. ASSUME NEW i \in Parcels PROVE TidyParcel(r.parcel[i])
    <2> DEFINE p == sc.parcel[i]
               q == r.parcel[i]
    <2>1. MovedTo(p, motor, extended, q) /\ TidyParcel(p) /\ q \in ParcelRecords
      BY <1>1
    <2> HIDE DEF p, q
    <2>2. p \in ParcelRecords /\ Pe1 \in Nat /\ Divert \in Nat
      BY <2>1, SceneAssumption DEF TidyParcel
    <2>. QED
      BY <2>1, <2>2 DEF MovedTo, TidyParcel, Where, ParcelRecords, q
  <1>3. ASSUME NEW i \in Parcels, NEW j \in Parcels, i < j, r.parcel[i].place = "unborn"
        PROVE  r.parcel[j].place = "unborn"
    <2>1. sc.parcel[i].place = "unborn"
      BY <1>1, <1>3 DEF MovedTo
    <2>2. sc.parcel[j].place = "unborn"
      BY <1>3, <2>1 DEF Tidy
    <2>. QED  BY <1>1, <2>2 DEF MovedTo
  <1>4. ASSUME NEW i \in OnLine(r), NEW j \in OnLine(r), i < j, ~r.parcel[i].stuck
        PROVE  r.parcel[j].pos <= r.parcel[i].pos
    <2> DEFINE p == sc.parcel[i]
               q == sc.parcel[j]
    <2>1. i \in Parcels /\ j \in Parcels
      BY DEF OnLine, At
    <2>2. /\ p.place = "line" /\ q.place = "line" /\ ~p.stuck
          /\ r.parcel[i].pos = Where(p, motor) /\ r.parcel[j].pos = Where(q, motor)
      BY <1>1, <1>4, <2>1 DEF MovedTo, OnLine, At
    <2>3. q.pos <= p.pos
      BY <1>4, <2>1, <2>2 DEF Tidy, OnLine, At
    <2>4. p.pos \in Nat /\ q.pos \in Nat
      BY <1>1, <2>1, SceneAssumption DEF ParcelRecords
    <2>. QED  BY <2>2, <2>3, <2>4 DEF Where
  <1>. QED  BY <1>2, <1>3, <1>4 DEF Tidy

LEMMA EmptyIsTidy == Tidy(EmptyScene)
  <1>1. Unborn \in ParcelRecords
    BY SceneAssumption DEF Unborn, ParcelRecords, Places
  <1>2. EmptyScene \in Scenes
    BY <1>1, ScenesAre DEF EmptyScene
  <1>3. \A i \in Parcels : EmptyScene.parcel[i] = Unborn
    BY DEF EmptyScene
  <1>4. OnLine(EmptyScene) = {}
    BY <1>3 DEF Unborn, OnLine, At
  <1>5. \A i \in Parcels : /\ TidyParcel(EmptyScene.parcel[i])
                           /\ EmptyScene.parcel[i].place = "unborn"
    <2>1. /\ Unborn.place = "unborn" /\ Unborn.pos = 0
          /\ ~Unborn.scanned /\ ~Unborn.stuck
      BY DEF Unborn
    <2>. QED  BY <1>1, <1>3, <2>1 DEF TidyParcel
  <1>. QED  BY <1>2, <1>4, <1>5 DEF Tidy

-----------------------------------------------------------------------------
(* What an event of a scenario does to the parcels: one is born, one gets  *)
(* stuck, the stuck ones are removed, or nothing.                          *)
Born(sc, i, r) ==
  /\ sc.parcel[i].place = "unborn" /\ r.parcel[i].place = "line"
  /\ r.parcel[i].pos = 0 /\ ~r.parcel[i].scanned /\ ~r.parcel[i].stuck
  /\ \A j \in Parcels : sc.parcel[j].place = "unborn" => i <= j
  /\ \A j \in Parcels : j # i => r.parcel[j] = sc.parcel[j]

GotStuck(sc, i, r) ==
  /\ sc.parcel[i].place = "line" /\ r.parcel[i].place = "line"
  /\ r.parcel[i].dest = sc.parcel[i].dest
  /\ r.parcel[i].pos = sc.parcel[i].pos /\ r.parcel[i].scanned = sc.parcel[i].scanned
  /\ r.parcel[i].stuck
  /\ \A j \in Parcels : j # i => r.parcel[j] = sc.parcel[j]

Cleared(sc, r) ==
  \A i \in Parcels :
    IF sc.parcel[i].place = "line" /\ sc.parcel[i].stuck
    THEN /\ r.parcel[i].place = "removed" /\ r.parcel[i].dest = sc.parcel[i].dest
         /\ r.parcel[i].pos = 0 /\ ~r.parcel[i].scanned /\ ~r.parcel[i].stuck
    ELSE r.parcel[i] = sc.parcel[i]

Disturbed(sc, r) ==
  /\ r.published = sc.published
  /\ \/ r = sc
     \/ \E i \in Parcels : Born(sc, i, r)
     \/ \E i \in Parcels : GotStuck(sc, i, r)
     \/ Cleared(sc, r)

LEMMA SpawnEffect ==
  ASSUME NEW sc, Tidy(sc), CanSpawn(sc), NEW d \in {ToA, ToB}
  PROVE  /\ Spawn(sc, d) \in Scenes
         /\ Spawn(sc, d).published = sc.published
         /\ \E i \in Parcels : Born(sc, i, Spawn(sc, d))
  <1> DEFINE n == Min(At(sc, "unborn"))
  <1>1. n \in At(sc, "unborn") /\ \A j \in At(sc, "unborn") : n <= j
    BY MinIsLeast DEF CanSpawn, At, Parcels
  <1>2. Spawn(sc, d) = [sc EXCEPT !.parcel[n].place = "line", !.parcel[n].dest = d]
    BY DEF Spawn
  <1> HIDE DEF n
  <1> DEFINE par == sc.parcel
             new == [par[n] EXCEPT !.place = "line", !.dest = d]
  <1>3. n \in Parcels /\ par \in [Parcels -> ParcelRecords] /\ TidyParcel(par[n])
    BY <1>1, ScenesAre DEF At, Tidy
  <1>4. sc \in [parcel : [Parcels -> ParcelRecords], published : {0, ToA, ToB}]
    BY ScenesAre DEF Tidy
  <1>5. new \in ParcelRecords /\ new.place = "line" /\ new.pos = par[n].pos
        /\ new.scanned = par[n].scanned /\ new.stuck = par[n].stuck
    BY <1>3 DEF ParcelRecords, Places
  <1>6. Spawn(sc, d) = [sc EXCEPT !.parcel = [par EXCEPT ![n] = new]]
    BY <1>2, <1>3, <1>4
  <1> HIDE DEF new
  <1>7. Spawn(sc, d).parcel = [par EXCEPT ![n] = new]
        /\ Spawn(sc, d).published = sc.published
    BY <1>4, <1>6
  <1>8. [par EXCEPT ![n] = new] \in [Parcels -> ParcelRecords]
    BY <1>3, <1>5
  <1>9. Spawn(sc, d) \in Scenes
    BY <1>4, <1>6, <1>8, ScenesAre
  <1>10. Born(sc, n, Spawn(sc, d))
    BY <1>1, <1>3, <1>5, <1>7 DEF Born, TidyParcel, At
  <1>. QED  BY <1>3, <1>7, <1>9, <1>10

LEMMA StickEffect ==
  ASSUME NEW sc, Tidy(sc), NEW i \in OnLine(sc)
  PROVE  /\ Stick(sc, i) \in Scenes
         /\ Stick(sc, i).published = sc.published
         /\ i \in Parcels /\ GotStuck(sc, i, Stick(sc, i))
  <1> DEFINE par == sc.parcel
             new == [par[i] EXCEPT !.stuck = TRUE]
  <1>1. i \in Parcels /\ par[i].place = "line" /\ par \in [Parcels -> ParcelRecords]
    BY ScenesAre DEF OnLine, At, Tidy
  <1>2. sc \in [parcel : [Parcels -> ParcelRecords], published : {0, ToA, ToB}]
    BY ScenesAre DEF Tidy
  <1>3. /\ new \in ParcelRecords /\ new.place = "line" /\ new.pos = par[i].pos
        /\ new.scanned = par[i].scanned /\ new.stuck /\ new.dest = par[i].dest
    BY <1>1 DEF ParcelRecords
  <1>4. Stick(sc, i) = [sc EXCEPT !.parcel = [par EXCEPT ![i] = new]]
    BY <1>1, <1>2 DEF Stick
  <1> HIDE DEF new
  <1>5. Stick(sc, i).parcel = [par EXCEPT ![i] = new]
        /\ Stick(sc, i).published = sc.published
    BY <1>2, <1>4
  <1>6. [par EXCEPT ![i] = new] \in [Parcels -> ParcelRecords]
    BY <1>1, <1>3
  <1>7. Stick(sc, i) \in Scenes
    BY <1>2, <1>4, <1>6, ScenesAre
  <1>8. GotStuck(sc, i, Stick(sc, i))
    BY <1>1, <1>3, <1>5 DEF GotStuck
  <1>. QED  BY <1>1, <1>5, <1>7, <1>8

LEMMA ClearJamEffect ==
  ASSUME NEW sc, Tidy(sc)
  PROVE  /\ ClearJam(sc) \in Scenes
         /\ ClearJam(sc).published = sc.published
         /\ Cleared(sc, ClearJam(sc))
  <1> DEFINE Left(p) == [p EXCEPT !.place = "removed", !.pos = 0,
                                  !.scanned = FALSE, !.stuck = FALSE]
             par == [i \in Parcels |->
                       IF sc.parcel[i].place = "line" /\ sc.parcel[i].stuck
                       THEN Left(sc.parcel[i]) ELSE sc.parcel[i]]
  <1>1. sc \in [parcel : [Parcels -> ParcelRecords], published : {0, ToA, ToB}]
    BY ScenesAre DEF Tidy
  <1>2. \A p \in ParcelRecords :
          /\ Left(p) \in ParcelRecords /\ Left(p).place = "removed"
          /\ Left(p).dest = p.dest
          /\ Left(p).pos = 0 /\ ~Left(p).scanned /\ ~Left(p).stuck
    <2>1. 0 \in 0 .. Divert - 1 /\ "removed" \in Places
      BY SceneAssumption DEF Places
    <2>. QED  BY <2>1 DEF ParcelRecords
  <1>3. ClearJam(sc) = [sc EXCEPT !.parcel = par]
    BY DEF ClearJam
  <1> HIDE DEF Left
  <1>4. par \in [Parcels -> ParcelRecords]
    BY <1>1, <1>2
  <1>5. \A i \in Parcels :
          par[i] = IF sc.parcel[i].place = "line" /\ sc.parcel[i].stuck
                   THEN Left(sc.parcel[i]) ELSE sc.parcel[i]
    OBVIOUS
  <1> HIDE DEF par
  <1>6. ClearJam(sc).parcel = par /\ ClearJam(sc).published = sc.published
    BY <1>1, <1>3
  <1>7. ClearJam(sc) \in Scenes
    BY <1>1, <1>3, <1>4, ScenesAre
  <1>8. Cleared(sc, ClearJam(sc))
    BY <1>1, <1>2, <1>5, <1>6 DEF Cleared
  <1>. QED  BY <1>6, <1>7, <1>8

LEMMA DisturbedTidy ==
  ASSUME NEW sc, Tidy(sc), NEW r \in Scenes, Disturbed(sc, r)
  PROVE  Tidy(r)
  <1>1. /\ \A i \in Parcels : TidyParcel(sc.parcel[i]) /\ r.parcel[i] \in ParcelRecords
        /\ \A i \in Parcels : i \in Nat /\ sc.parcel[i].pos \in Nat
                              /\ r.parcel[i].pos \in Nat
    BY ScenesAre, SceneAssumption DEF Tidy, TidyParcel, ParcelRecords, Parcels
  <1>2. ASSUME NEW n \in Parcels, Born(sc, n, r) PROVE Tidy(r)
    <2>1. ASSUME NEW i \in Parcels PROVE TidyParcel(r.parcel[i])
      BY <1>1, <1>2, SceneAssumption DEF Born, TidyParcel
    <2>2. ASSUME NEW i \in Parcels, NEW j \in Parcels, i < j,
                 r.parcel[i].place = "unborn"
          PROVE  r.parcel[j].place = "unborn"
      <3>1. i # n /\ sc.parcel[i].place = "unborn" /\ n <= i
        BY <1>2, <2>2 DEF Born
      <3>2. sc.parcel[j].place = "unborn" /\ j # n
        BY <1>1, <2>2, <3>1 DEF Tidy
      <3>. QED  BY <1>2, <3>2 DEF Born
    <2>3. ASSUME NEW i \in OnLine(r), NEW j \in OnLine(r), i < j, ~r.parcel[i].stuck
          PROVE  r.parcel[j].pos <= r.parcel[i].pos
      <3>1. i \in Parcels /\ j \in Parcels
        BY DEF OnLine, At
      <3>2. CASE j = n
        BY <1>1, <1>2, <3>1, <3>2 DEF Born
      <3>3. CASE i = n
        <4>1. sc.parcel[j].place = "unborn"
          BY <1>2, <2>3, <3>1, <3>3 DEF Born, Tidy
        <4>. QED  BY <1>1, <1>2, <2>3, <3>1, <3>3, <4>1 DEF Born, OnLine, At
      <3>4. CASE i # n /\ j # n
        BY <1>2, <2>3, <3>1, <3>4 DEF Born, Tidy, OnLine, At
      <3>. QED  BY <3>2, <3>3, <3>4
    <2>. QED  BY <2>1, <2>2, <2>3 DEF Tidy
  <1>3. ASSUME NEW n \in Parcels, GotStuck(sc, n, r) PROVE Tidy(r)
    <2>1. ASSUME NEW i \in Parcels PROVE TidyParcel(r.parcel[i])
      BY <1>1, <1>3 DEF GotStuck, TidyParcel
    <2>2. \A i \in Parcels : /\ r.parcel[i].place = sc.parcel[i].place
                             /\ r.parcel[i].pos = sc.parcel[i].pos
                             /\ sc.parcel[i].stuck => r.parcel[i].stuck
      BY <1>3 DEF GotStuck
    <2>. QED  BY <2>1, <2>2 DEF Tidy, OnLine, At
  <1>4. ASSUME Cleared(sc, r) PROVE Tidy(r)
    <2>1. ASSUME NEW i \in Parcels PROVE TidyParcel(r.parcel[i])
      BY <1>1, <1>4 DEF Cleared, TidyParcel
    <2>2. \A i \in Parcels :
            /\ r.parcel[i].place = "unborn" <=> sc.parcel[i].place = "unborn"
            /\ r.parcel[i].place = "line" =>
                 sc.parcel[i].place = "line" /\ r.parcel[i] = sc.parcel[i]
      BY <1>4 DEF Cleared
    <2>. QED  BY <2>1, <2>2 DEF Tidy, OnLine, At
  <1>. QED  BY <1>2, <1>3, <1>4 DEF Disturbed

LEMMA EventsDisturb ==
  ASSUME NEW sc, Tidy(sc), NEW r,
         \/ r = sc \/ r = ClearJam(sc)
         \/ CanSpawn(sc) /\ \E d \in {ToA, ToB} : r = Spawn(sc, d)
         \/ \E i \in OnLine(sc) : r = Stick(sc, i)
  PROVE  r \in Scenes /\ Disturbed(sc, r)
  <1>0. sc \in Scenes
    BY DEF Tidy
  <1>1. CASE r = sc \/ r = ClearJam(sc)
    BY <1>0, <1>1, ClearJamEffect DEF Disturbed
  <1>2. ASSUME CanSpawn(sc), NEW d \in {ToA, ToB}, r = Spawn(sc, d)
        PROVE  r \in Scenes /\ Disturbed(sc, r)
    BY <1>2, SpawnEffect DEF Disturbed
  <1>3. ASSUME NEW i \in OnLine(sc), r = Stick(sc, i)
        PROVE  r \in Scenes /\ Disturbed(sc, r)
    <2>1. i \in Parcels
      BY DEF OnLine, At
    <2>. QED  BY <1>3, <2>1, StickEffect DEF Disturbed
  <1>. QED  BY <1>1, <1>2, <1>3

-----------------------------------------------------------------------------
(* The parcels from pe_002 to the diverter, which the eye sees if a parcel *)
(* is long enough.                                                         *)
AtEye(sc) == {i \in OnLine(sc) : sc.parcel[i].pos >= Pe2}

LEMMA EyeSees ==
  ASSUME NEW sc, Tidy(sc), Length >= Divert - Pe2
  PROVE  /\ SensorBlocked(sc, Pe2) <=> AtEye(sc) # {}
         /\ \A i \in OnLine(sc) : Blocks(sc, i, Pe2) <=> i \in AtEye(sc)
  <1>1. ASSUME NEW i \in OnLine(sc) PROVE Blocks(sc, i, Pe2) <=> i \in AtEye(sc)
    <2>1. sc.parcel[i].pos \in 0 .. Divert - 1
      BY ScenesAre DEF OnLine, At, Tidy, ParcelRecords
    <2>. QED  BY <2>1, SceneAssumption DEF Blocks, AtEye
  <1>. QED  BY <1>1 DEF SensorBlocked, AtEye

(* What a step does at the eye: a parcel comes to it from just before it,  *)
(* and leaves it for the chute the diverter shows.                         *)
LEMMA MovesAtEye ==
  ASSUME NEW sc, Tidy(sc), NEW motor \in BOOLEAN, NEW extended \in BOOLEAN,
         NEW r \in Scenes, Moved(sc, motor, extended, r), NEW i \in Parcels
  PROVE  /\ r.parcel[i].dest = sc.parcel[i].dest
         /\ i \in AtEye(r) => \/ i \in AtEye(sc)
                             \/ /\ motor /\ sc.parcel[i].place = "line"
                                /\ sc.parcel[i].pos = Pe2 - 1 /\ r.parcel[i].pos = Pe2
         /\ i \in AtEye(sc) =>
              \/ /\ i \in AtEye(r) /\ r.parcel[i].stuck = sc.parcel[i].stuck
                 /\ r.parcel[i].pos = Where(sc.parcel[i], motor)
              \/ motor /\ r.parcel[i].place = IF extended THEN "chuteA" ELSE "chuteB"
         /\ r.parcel[i].place # sc.parcel[i].place =>
              /\ i \in AtEye(sc) /\ motor
              /\ r.parcel[i].place = IF extended THEN "chuteA" ELSE "chuteB"
         /\ r.parcel[i].stuck => sc.parcel[i].stuck
  <1> DEFINE p == sc.parcel[i]
             q == r.parcel[i]
  <1>1. /\ MovedTo(p, motor, extended, q)
        /\ p \in ParcelRecords /\ q \in ParcelRecords
        /\ p.place # "line" => ~p.stuck
    BY ScenesAre DEF Moved, Tidy, TidyParcel
  <1>2. /\ p.pos \in Nat /\ q.pos \in Nat /\ p.pos < Divert
        /\ Pe1 \in Nat /\ Pe2 \in Nat /\ Divert \in Nat /\ Pe2 < Divert
    BY <1>1, SceneAssumption DEF ParcelRecords
  <1>3. /\ i \in AtEye(sc) <=> p.place = "line" /\ p.pos >= Pe2
        /\ i \in AtEye(r) <=> q.place = "line" /\ q.pos >= Pe2
    BY DEF AtEye, OnLine, At
  <1>4. q.dest = p.dest /\ (q.stuck => p.stuck)
    BY <1>1 DEF MovedTo
  <1> HIDE DEF p, q
  <1>5. CASE p.place # "line"
    BY <1>1, <1>3, <1>4, <1>5 DEF MovedTo, p, q
  <1>6. CASE p.place = "line" /\ Where(p, motor) >= Divert
    <2>1. motor /\ p.pos >= Pe2
      BY <1>2, <1>6 DEF Where
    <2>2. q.place = IF extended THEN "chuteA" ELSE "chuteB"
      BY <1>1, <1>6 DEF MovedTo
    <2>3. q.place # "line"
      BY <2>2
    <2>. QED  BY <1>3, <1>4, <1>6, <2>1, <2>2, <2>3 DEF p, q
  <1>7. CASE p.place = "line" /\ ~(Where(p, motor) >= Divert)
    <2>1. q.place = "line" /\ q.pos = Where(p, motor) /\ q.stuck = p.stuck
      BY <1>1, <1>7 DEF MovedTo
    <2>2. /\ p.pos >= Pe2 => q.pos >= Pe2
          /\ q.pos >= Pe2 /\ ~(p.pos >= Pe2) => motor /\ p.pos = Pe2 - 1 /\ q.pos = Pe2
      BY <1>2, <2>1 DEF Where
    <2>. QED  BY <1>3, <1>4, <1>7, <2>1, <2>2 DEF p, q
  <1>. QED  BY <1>5, <1>6, <1>7

(* An event changes nothing at the eye but for the parcels it removes.     *)
LEMMA DisturbedAtEye ==
  ASSUME NEW sc, Tidy(sc), NEW r \in Scenes, Disturbed(sc, r), NEW i \in Parcels
  PROVE  /\ r.parcel[i].place # "line" => r.parcel[i].dest = sc.parcel[i].dest
         /\ sc.parcel[i].place = "line" => r.parcel[i].dest = sc.parcel[i].dest
         /\ r.parcel[i].place = "line" =>
              \/ sc.parcel[i].place = "unborn" /\ r.parcel[i].pos = 0
              \/ sc.parcel[i].place = "line" /\ r.parcel[i].pos = sc.parcel[i].pos
         /\ sc.parcel[i].place = "line" =>
              r.parcel[i].place = "line" \/ r.parcel[i].place = "removed"
         /\ r.parcel[i].place \in {"chuteA", "chuteB"} \/
            sc.parcel[i].place \in {"chuteA", "chuteB", "removed"}
              => r.parcel[i].place = sc.parcel[i].place
  <1>1. ASSUME NEW n \in Parcels, Born(sc, n, r)
        PROVE  \/ r.parcel[i] = sc.parcel[i]
               \/ /\ sc.parcel[i].place = "unborn" /\ r.parcel[i].pos = 0
                  /\ r.parcel[i].place = "line"
    BY <1>1 DEF Born
  <1>2. ASSUME NEW n \in Parcels, GotStuck(sc, n, r)
        PROVE  \/ r.parcel[i] = sc.parcel[i]
               \/ /\ sc.parcel[i].place = "line" /\ r.parcel[i].pos = sc.parcel[i].pos
                  /\ r.parcel[i].place = "line" /\ r.parcel[i].dest = sc.parcel[i].dest
    BY <1>2 DEF GotStuck
  <1>3. ASSUME Cleared(sc, r)
        PROVE  \/ r.parcel[i] = sc.parcel[i]
               \/ /\ sc.parcel[i].place = "line" /\ r.parcel[i].place = "removed"
                  /\ r.parcel[i].dest = sc.parcel[i].dest
    BY <1>3 DEF Cleared
  <1>. QED  BY <1>1, <1>2, <1>3 DEF Disturbed

-----------------------------------------------------------------------------
(* The scan and the eye.  A parcel that has arrived since the last scan    *)
(* finds the program running and its timer at zero.                        *)
Arrivals(sc, s) == \A i \in AtEye(sc) : ~s.prevPe2 => s.running /\ s.jamTimer = 0

LEMMA ArrivalsStep ==
  ASSUME NEW sc, Tidy(sc), NEW s, NEW in, NEW r \in ControlState,
         in.pe2 <=> AtEye(sc) # {}, Scanned(s, in, r), ScannedClosely(s, in, r),
         NEW e \in BOOLEAN, NEW sd \in Scenes, Moved(sc, r.running, e, sd)
  PROVE  Arrivals(sd, r)
  <1> SUFFICES ASSUME NEW i \in AtEye(sd), ~r.prevPe2
               PROVE  r.running /\ r.jamTimer = 0
    BY DEF Arrivals
  <1>1. ~in.pe2 /\ r.jamTimer = 0 /\ i \notin AtEye(sc)
    BY DEF Scanned, ScannedClosely
  <1>2. r.running \in BOOLEAN /\ i \in Parcels
    BY DEF ControlState, AtEye, OnLine, At
  <1>. QED  BY <1>1, <1>2, MovesAtEye

(* A decision taken for a parcel at the eye is for its own destination d,  *)
(* and it is held unless an operator voided it.                            *)
DecidedFor(s, d, isVoid) ==
  /\ s.pending \in {NoDecision, ChuteFor(d)}
  /\ s.divert => d = ToA
  /\ ~isVoid => s.pending = ChuteFor(d)

LEMMA DecisionStep ==
  ASSUME NEW s \in ControlState, Coherent(s), NEW in \in ScanInputs, in.pe2,
         NEW r \in ControlState, Scanned(s, in, r), ScannedClosely(s, in, r),
         NEW d \in {ToA, ToB}, NEW v \in BOOLEAN, NEW w \in BOOLEAN,
         s.prevPe2 => DecidedFor(s, d, v),
         ~s.prevPe2 => s.running /\ s.jamTimer = 0 /\ in.dest = d,
         ~w => ~v /\ r.running /\ ~in.stop /\ ~ResetEdge(s, in)
  PROVE  /\ DecidedFor(r, d, w)
         /\ r.divert => d = ToA
         /\ ~r.divert => d = ToB \/ w
  <1>1. Coherent(r) /\ (r.running => ~in.estop)
    BY DEF Scanned
  <1>2. /\ ChuteFor(d) # NoDecision
        /\ d = ToA <=> d = ChuteA
        /\ d = ToA <=> ChuteFor(d) = ChuteA
        /\ d # ToA => d = ToB
    BY DEF ChuteFor, ToA, ToB, ChuteA, ChuteB, NoDecision
  <1>3. CASE s.prevPe2
    <2>1. r.pending \in {s.pending, NoDecision} /\ (r.divert => s.divert)
      BY <1>3 DEF ScannedClosely
    <2>2. ~w => r.pending = s.pending
      BY <1>1, <1>3 DEF ScannedClosely, Untroubled
    <2>3. DecidedFor(r, d, w)
      BY <1>3, <2>1, <2>2 DEF DecidedFor
    <2>. QED  BY <1>1, <1>2, <2>3 DEF DecidedFor, Coherent
  <1>4. CASE ~s.prevPe2 /\ r.running
    <2>1. r.pending = ChuteFor(d) /\ (r.divert <=> d = ChuteA)
      BY <1>4 DEF ScannedClosely
    <2>. QED  BY <1>2, <2>1 DEF DecidedFor
  <1>5. CASE ~s.prevPe2 /\ ~r.running
    <2>1. s.pending = NoDecision /\ ~s.jam
      BY <1>5 DEF Coherent
    <2>2. ~r.jam
      BY <1>5, <2>1, ScanAssumption DEF ScannedClosely
    <2>3. ~r.divert /\ r.pending = NoDecision /\ w
      BY <1>1, <1>5, <2>1, <2>2 DEF ScannedClosely, Coherent
    <2>. QED  BY <2>3 DEF DecidedFor
  <1>. QED  BY <1>3, <1>4, <1>5
=============================================================================
