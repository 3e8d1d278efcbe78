--------------------------- MODULE RingCellProofs ---------------------------
(***************************************************************************)
(* Theorems about RingCell, for any number of parcels, any events in any   *)
(* order, any size of the ring, and every geometry of the line in which    *)
(* the eye sees a parcel up to the diverter.                               *)
(***************************************************************************)
EXTENDS RingCell, ScanPlantProofs

(* The scan is the MVP program's, shown the next entry of the ring as the  *)
(* destination.                                                            *)
Shown == [Written EXCEPT !.dest = NextDest]

LEMMA SuperviseIgnoresDest ==
  ASSUME NEW s, NEW a, NEW b,
         a.pe2 = b.pe2, a.start = b.start, a.stop = b.stop,
         a.reset = b.reset, a.estop = b.estop
  PROVE  Supervise(s, a) = Supervise(s, b)
  <1> DEFINE k == Acknowledge(s, a)
             h == Halt(k, a)
             r == Start(h, a)
  <1>1. k = Acknowledge(s, b)
    BY DEF Acknowledge, ResetEdge
  <1> HIDE DEF k
  <1>2. h = Halt(k, b)
    BY DEF Halt
  <1> HIDE DEF h
  <1>3. r = Start(h, b)
    BY DEF Start, StartEdge
  <1> HIDE DEF r
  <1>4. WatchEye(r, a) = WatchEye(r, b)
    BY DEF WatchEye, MotorOn
  <1>. QED  BY <1>1, <1>2, <1>3, <1>4 DEF Supervise, k, h, r

LEMMA ShownIs ==
  /\ Shown.pe2 = Written.pe2 /\ Shown.start = Written.start
  /\ Shown.stop = Written.stop /\ Shown.reset = Written.reset
  /\ Shown.estop = Written.estop /\ Shown.dest = NextDest
  BY DEF Shown, Written

LEMMA RingScanIsScan == RingScan(plc, Written) = Scan(plc, Shown)
  <1> DEFINE in == Written
             sh == Shown
             t == Supervise(plc, in)
             d == DecideByRing(t, in)
             c == Count(d, in)
  <1>1. /\ sh.pe2 = in.pe2 /\ sh.start = in.start /\ sh.stop = in.stop
        /\ sh.reset = in.reset /\ sh.estop = in.estop /\ sh.dest = NextDest
    BY ShownIs
  <1> HIDE DEF in, sh
  <1>2. t = Supervise(plc, sh)
    BY <1>1, SuperviseIgnoresDest
  <1> HIDE DEF t
  <1>3. d = Decide(t, sh)
    BY <1>1 DEF DecideByRing, Dequeues, Decide, EyeRises, MotorOn
  <1> HIDE DEF d
  <1>4. c = Count(d, sh)
    BY <1>1 DEF Count, EyeFalls, MotorOn
  <1> HIDE DEF c
  <1>5. Remember(c, in) = Remember(c, sh)
    BY <1>1 DEF Remember
  <1>. QED  BY <1>2, <1>3, <1>4, <1>5 DEF RingScan, Scan, c, d, t, in, sh

-----------------------------------------------------------------------------
(* Everything that the ring does not need to be in step for.  A register   *)
(* is written for a parcel not yet scanned, so the index never passes the  *)
(* number of parcels.                                                      *)
Unscanned(sc) == {i \in Parcels : \/ sc.parcel[i].place = "unborn"
                                  \/ sc.parcel[i].place = "line" /\ ~sc.parcel[i].scanned}

Fresh(sc, s) ==
  Arrivals(sc, s) /\ \A i \in AtEye(sc) : ~s.prevPe2 => sc.parcel[i].pos = Pe2

Typed ==
  /\ Tidy(scene)
  /\ inputs \in [Buttons -> BOOLEAN]
  /\ plc \in ControlState /\ Coherent(plc)
  /\ out \in OutputStates
  /\ ring \in [Slots -> {0, ToA, ToB}]
  /\ readIdx \in Nat /\ writeIdx \in Nat
  /\ lapses \subseteq Lapses /\ voided \subseteq Parcels
  /\ Fresh(scene, plc)

(* What a tick does, in the terms of the scan's lemmas and the plant's.    *)
Takes == Dequeues(Supervise(plc, Written), Written)

Ticked ==
  /\ Shown \in ScanInputs
  /\ Shown.pe2 <=> AtEye(scene) # {}
  /\ Scanned(plc, Shown, plc')
  /\ ScannedClosely(plc, Shown, plc')
  /\ out' \in OutputStates /\ out'.motor = plc'.running
  /\ out'.divert <=> plc'.divert /\ plc'.running
  /\ scene' \in Scenes
  /\ Moved(scene, plc'.running, out'.divert, scene')
  /\ inputs' = inputs
  /\ readIdx' = IF Takes THEN readIdx + 1 ELSE readIdx
  /\ Takes => AtEye(scene) # {} /\ ~plc.prevPe2

LEMMA SlotsAre ==
  ASSUME NEW k \in Nat
  PROVE  k % RingSize \in Slots
  BY RingAssumption DEF Slots

LEMMA TickEffect ==
  ASSUME Typed, Tick
  PROVE  /\ Ticked /\ Tidy(scene') /\ plc' \in ControlState /\ Coherent(plc')
         /\ plc'.running \in BOOLEAN /\ out'.divert \in BOOLEAN
  <1> DEFINE in == Shown
  <1>1. in \in ScanInputs /\ in.pe2 = SensorBlocked(scene, Pe2)
    <2>1. NextDest \in Destinations
      BY SlotsAre, RingAssumption DEF Typed, NextDest
    <2>2. SensorBlocked(scene, Pe2) \in BOOLEAN
      BY DEF SensorBlocked
    <2>. QED  BY <2>1, <2>2 DEF Typed, Shown, Written, ScanInputs, Buttons
  <1>2. in.pe2 <=> AtEye(scene) # {}
    BY <1>1, EyeSees, RingAssumption DEF Typed
  <1>3. /\ plc' = Scan(plc, in) /\ out' = Outputs(plc', Written)
        /\ scene' = Step(scene, out'.motor, out'.divert)
        /\ inputs' = inputs
        /\ readIdx' = IF Takes THEN readIdx + 1 ELSE readIdx
    BY RingScanIsScan DEF Tick, Takes
  <1>4. Outputs(plc', Written) = Outputs(plc', in)
    BY ShownIs DEF Outputs, MotorOn
  <1>5. Takes => in.pe2 /\ ~plc.prevPe2
    <2>1. Supervise(plc, Written) = Supervise(plc, in)
      BY ShownIs, SuperviseIgnoresDest
    <2>2. Supervise(plc, in).prevPe2 = plc.prevPe2
      BY <1>1, SuperviseEffect DEF Supervised, Typed
    <2>. QED  BY <2>1, <2>2, ShownIs DEF Takes, Dequeues, EyeRises
  <1> HIDE DEF in
  <1>6. Scanned(plc, in, plc') /\ ScannedClosely(plc, in, plc')
    BY <1>1, <1>3, ScanEffect, ScanCloselyEffect DEF Typed
  <1>7. plc' \in ControlState /\ Coherent(plc') /\ (plc'.running => ~in.estop)
    BY <1>6 DEF Scanned
  <1>8. /\ out' \in OutputStates /\ out'.motor = plc'.running
        /\ out'.divert <=> plc'.divert /\ plc'.running
    BY <1>1, <1>3, <1>4, <1>7, OutputsEffect
  <1>9. plc'.running \in BOOLEAN /\ out'.divert \in BOOLEAN
    BY <1>7, <1>8 DEF ControlState, OutputStates
  <1>10. /\ scene' \in Scenes /\ Moved(scene, plc'.running, out'.divert, scene')
         /\ Tidy(scene')
    <2>1. scene' = Step(scene, plc'.running, out'.divert) /\ scene \in Scenes
      BY <1>3, <1>8 DEF Typed, Tidy
    <2>2. /\ scene' \in Scenes
          /\ Moved(scene, plc'.running, out'.divert, scene')
      BY <1>9, <2>1, StepEffect
    <2>. QED  BY <1>9, <2>2, StepTidy DEF Typed
  <1>. QED
    BY <1>1, <1>2, <1>3, <1>5, <1>6, <1>7, <1>8, <1>9, <1>10 DEF Ticked, in

(* What an event leaves: the levels typed, and the parcels as one event may *)
(* disturb them.                                                           *)
LEMMA EventEffect ==
  ASSUME Tidy(scene), inputs \in [Buttons -> BOOLEAN], QuietEvent \/ Disturbance
  PROVE  /\ inputs' \in [Buttons -> BOOLEAN]
         /\ scene' \in Scenes /\ Disturbed(scene, scene')
  <1>1. inputs' \in [Buttons -> BOOLEAN]
    BY DEF QuietEvent, Disturbance, Press, Release, SetEstop, SpawnParcel, InjectJam,
           ClearJamEvent, Buttons
  <1>2. \/ scene' = scene \/ scene' = ClearJam(scene)
        \/ CanSpawn(scene) /\ \E d \in {ToA, ToB} : scene' = Spawn(scene, d)
        \/ \E i \in OnLine(scene) : scene' = Stick(scene, i)
    BY DEF QuietEvent, Disturbance, Press, Release, SetEstop, SpawnParcel, InjectJam,
           ClearJamEvent
  <1>. QED  BY <1>1, <1>2, EventsDisturb

LEMMA CellEvent ==
  ASSUME Typed, Event
  PROVE  /\ inputs' \in [Buttons -> BOOLEAN]
         /\ scene' \in Scenes /\ Disturbed(scene, scene') /\ Tidy(scene')
         /\ UNCHANGED <<plc, out, ring, readIdx, writeIdx, voided>>
         /\ lapses' \in {lapses, lapses \cup {"stuck"}}
  <1>1. QuietEvent \/ Disturbance
    BY DEF Event
  <1>2. /\ inputs' \in [Buttons -> BOOLEAN]
        /\ scene' \in Scenes /\ Disturbed(scene, scene')
    BY <1>1, EventEffect DEF Typed
  <1>3. Tidy(scene')
    BY <1>2, DisturbedTidy DEF Typed
  <1>. QED  BY <1>2, <1>3 DEF Event

-----------------------------------------------------------------------------
(* The parcels a tick scans at pe_001, and how the others move.            *)
ScannedNow == Crossing(scene, plc'.running)

LEMMA TickAlong ==
  ASSUME Typed, Tick, NEW i \in Parcels
  PROVE  /\ i \in InFlight(scene) =>
              \/ i \in InFlight(scene')
              \/ i \in AtEye(scene') /\ scene'.parcel[i].pos = Pe2
         /\ i \in InFlight(scene') => i \in InFlight(scene) \/ i \in ScannedNow
         /\ i \in ScannedNow =>
              /\ i \in InFlight(scene') /\ i \in OnLine(scene)
              /\ scene.parcel[i].pos < Pe1 /\ ~scene.parcel[i].stuck
              /\ i \in Unscanned(scene)
         /\ i \in AtEye(scene) => i \notin InFlight(scene')
         /\ i \in AtEye(scene') /\ i \notin AtEye(scene) =>
              i \in InFlight(scene) /\ scene'.parcel[i].pos = Pe2
         /\ i \in Unscanned(scene') => i \in Unscanned(scene) /\ i \notin ScannedNow
         /\ i \in InFlight(scene) \/ i \in AtEye(scene) =>
              i \in OnLine(scene) /\ scene.parcel[i].pos >= Pe1
         /\ scene'.parcel[i].dest = scene.parcel[i].dest
         /\ scene'.parcel[i].stuck => scene.parcel[i].stuck
  <1> DEFINE p == scene.parcel[i]
             q == scene'.parcel[i]
             m == plc'.running
  <1>1. /\ m \in BOOLEAN /\ out'.divert \in BOOLEAN /\ Tidy(scene') /\ scene' \in Scenes
        /\ Moved(scene, m, out'.divert, scene')
    BY TickEffect DEF Ticked
  <1>2. MovedTo(p, m, out'.divert, q) /\ TidyParcel(p) /\ TidyParcel(q)
    BY <1>1 DEF Moved, Typed, Tidy
  <1>3. /\ p.pos \in Nat /\ q.pos \in Nat /\ p.pos < Divert
        /\ Pe1 \in Nat /\ Pe2 \in Nat /\ Divert \in Nat
        /\ Pe1 < Pe2 /\ Pe2 < Divert /\ ~(0 >= Pe1)
    BY <1>2, SceneAssumption DEF TidyParcel, ParcelRecords
  <1>4. /\ i \in InFlight(scene) <=> p.place = "line" /\ p.pos >= Pe1 /\ p.pos < Pe2
        /\ i \in InFlight(scene') <=> q.place = "line" /\ q.pos >= Pe1 /\ q.pos < Pe2
        /\ i \in AtEye(scene) <=> p.place = "line" /\ p.pos >= Pe2
        /\ i \in AtEye(scene') <=> q.place = "line" /\ q.pos >= Pe2
        /\ i \in Unscanned(scene) <=>
             p.place = "unborn" \/ (p.place = "line" /\ ~(p.pos >= Pe1))
        /\ i \in Unscanned(scene') <=>
             q.place = "unborn" \/ (q.place = "line" /\ ~(q.pos >= Pe1))
        /\ i \in OnLine(scene) <=> p.place = "line"
    BY <1>2 DEF InFlight, AtEye, Unscanned, OnLine, At, TidyParcel
  <1>5. i \in ScannedNow <=> p.place = "line" /\ ~(p.pos >= Pe1) /\ Where(p, m) >= Pe1
    BY <1>1, <1>2, CrossingIs DEF Typed, Tidy, TidyParcel, ScannedNow
  <1>6. q.dest = p.dest
    BY <1>2 DEF MovedTo
  <1>7. q.stuck => p.stuck
    BY <1>1, MovesAtEye DEF Typed
  <1> HIDE DEF p, q, m
  <1>8. CASE p.place # "line"
    BY <1>2, <1>3, <1>4, <1>5, <1>6, <1>7, <1>8 DEF MovedTo, p, q
  <1>9. CASE p.place = "line" /\ Where(p, m) >= Divert
    <2>1. p.pos >= Pe2 /\ p.pos >= Pe1
      BY <1>3, <1>9 DEF Where
    <2>2. q.place # "line" /\ q.place # "unborn"
      BY <1>2, <1>9 DEF MovedTo
    <2>. QED  BY <1>3, <1>4, <1>5, <1>6, <1>7, <1>9, <2>1, <2>2 DEF p, q
  <1>10. CASE p.place = "line" /\ ~(Where(p, m) >= Divert)
    <2>1. q.place = "line" /\ q.pos = Where(p, m)
      BY <1>2, <1>10 DEF MovedTo
    <2>2. /\ Where(p, m) = p.pos \/ (Where(p, m) = p.pos + 1 /\ ~p.stuck)
      BY DEF Where
    <2>. QED  BY <1>3, <1>4, <1>5, <1>6, <1>7, <1>10, <2>1, <2>2 DEF p, q
  <1>. QED  BY <1>8, <1>9, <1>10

(* What the ring still owes: a tick adds at most what it scans, and takes  *)
(* away the parcel whose entry it reads.                                   *)
LEMMA AwaitedStep ==
  ASSUME Typed, Tick
  PROVE  /\ ScannedNow \in SUBSET Parcels /\ Awaited \in SUBSET Parcels
         /\ Awaited' \in SUBSET Parcels
         /\ Awaited' \subseteq Awaited \cup ScannedNow
         /\ ScannedNow \subseteq Awaited' /\ ScannedNow \cap Awaited = {}
         /\ Takes => /\ AtEye(scene) # {}
                     /\ AtEye(scene) \subseteq Awaited
                     /\ AtEye(scene) \cap Awaited' = {}
  <1>1. /\ plc'.prevPe2 <=> AtEye(scene) # {}
        /\ Takes => AtEye(scene) # {} /\ ~plc.prevPe2
    BY TickEffect DEF Ticked, Scanned
  <1>2. ScannedNow \in SUBSET Parcels
    <2>1. plc'.running \in BOOLEAN /\ scene \in Scenes
      BY TickEffect DEF Typed, Tidy
    <2>. QED  BY <2>1, CrossingIs DEF ScannedNow
  <1>3. /\ Awaited = InFlight(scene) \cup
                     {i \in OnLine(scene) : scene.parcel[i].pos = Pe2 /\ ~plc.prevPe2}
        /\ Awaited' = InFlight(scene') \cup
                      {i \in OnLine(scene') : scene'.parcel[i].pos = Pe2 /\ ~plc'.prevPe2}
    BY DEF Awaited
  <1>4. Awaited \in SUBSET Parcels /\ Awaited' \in SUBSET Parcels
    BY <1>3 DEF InFlight, OnLine, At
  <1>5. Pe2 \in Nat /\ Pe1 < Pe2 /\ Pe1 \in Nat /\ Pe2 >= Pe2 /\ ~(Pe2 < Pe2)
    BY SceneAssumption
  <1>6. ASSUME NEW i \in Awaited' PROVE i \in Awaited \cup ScannedNow
    <2>1. CASE i \in InFlight(scene')
      BY <1>3, <1>4, <2>1, TickAlong
    <2>2. CASE i \in OnLine(scene') /\ scene'.parcel[i].pos = Pe2 /\ ~plc'.prevPe2
      <3>1. i \in AtEye(scene') /\ i \notin AtEye(scene)
        BY <1>1, <1>5, <2>2 DEF AtEye
      <3>. QED  BY <1>3, <1>4, <3>1, TickAlong
    <2>. QED  BY <1>3, <2>1, <2>2
  <1>7. ASSUME NEW i \in ScannedNow PROVE i \in Awaited' /\ i \notin Awaited
    <2>1. i \in InFlight(scene') /\ scene.parcel[i].pos < Pe1 /\ i \in Parcels
      BY <1>2, TickAlong
    <2>2. scene.parcel[i].pos \in Nat
      BY <2>1, SceneAssumption DEF Typed, Tidy, TidyParcel, ParcelRecords
    <2>3. i \notin InFlight(scene) /\ ~(scene.parcel[i].pos = Pe2)
      BY <1>5, <2>1, <2>2, TickAlong
    <2>. QED  BY <1>3, <2>1, <2>3
  <1>8. ASSUME Takes, NEW h \in AtEye(scene)
        PROVE  h \in Awaited /\ h \notin Awaited'
    <2>1. h \in OnLine(scene) /\ h \in Parcels /\ scene.parcel[h].pos = Pe2
      BY <1>1, <1>8 DEF Typed, Fresh, AtEye, OnLine, At
    <2>2. h \notin InFlight(scene') /\ plc'.prevPe2
      BY <1>1, <2>1, TickAlong
    <2>. QED  BY <1>1, <1>3, <1>8, <2>1, <2>2
  <1>9. AtEye(scene) \cap Awaited' = {} \/ ~Takes
    BY <1>8
  <1>10. ScannedNow \cap Awaited = {}
    BY <1>7
  <1>. QED  BY <1>1, <1>2, <1>4, <1>6, <1>7, <1>8, <1>9, <1>10

LEMMA EnqueuedType ==
  ASSUME Typed, NEW w \in Nat, NEW S \in SUBSET Parcels
  PROVE  Enqueued(ring, w, S) \in [Slots -> {0, ToA, ToB}]
  <1>1. ASSUME NEW k \in Slots
        PROVE  Enqueued(ring, w, S)[k] \in {0, ToA, ToB}
    <2> DEFINE writers == {i \in S : (w + Before(S, i)) % RingSize = k}
    <2>1. Enqueued(ring, w, S)[k] =
            IF writers = {} THEN ring[k] ELSE scene.parcel[Max(writers)].dest
      BY DEF Enqueued
    <2>2. writers \in SUBSET Parcels
      OBVIOUS
    <2> HIDE DEF writers
    <2>3. writers # {} => Max(writers) \in Parcels
      BY <2>2, MaxIsGreatest, SceneAssumption DEF Parcels
    <2>4. \A i \in Parcels : scene.parcel[i].dest \in {ToA, ToB}
      BY DEF Typed, Tidy, TidyParcel, ParcelRecords
    <2>. QED  BY <2>1, <2>3, <2>4 DEF Typed
  <1>. QED  BY <1>1 DEF Enqueued

LEMMA TypedKept ==
  ASSUME Typed, [Next]_vars
  PROVE  Typed'
  <1>1. CASE UNCHANGED vars
    BY <1>1 DEF vars, Typed, Fresh, Arrivals
  <1>2. CASE Tick
    <2>1. /\ Ticked /\ Tidy(scene') /\ plc' \in ControlState /\ Coherent(plc')
          /\ plc'.running \in BOOLEAN /\ out'.divert \in BOOLEAN
      BY <1>2, TickEffect
    <2>2. ring' = Enqueued(ring, writeIdx, ScannedNow)
          /\ writeIdx' = writeIdx + Cardinality(ScannedNow)
      BY <1>2, <2>1 DEF Tick, Ticked, ScannedNow
    <2>3. ScannedNow \in SUBSET Parcels /\ Cardinality(ScannedNow) \in Nat
      BY <1>2, AwaitedStep, ParcelsAreFinite
    <2>4. ring' \in [Slots -> {0, ToA, ToB}] /\ writeIdx' \in Nat /\ readIdx' \in Nat
      BY <2>1, <2>2, <2>3, EnqueuedType DEF Typed, Ticked
    <2>5. lapses' \subseteq Lapses
      BY <1>2 DEF Tick, Typed, Lapses
    <2>6. voided' \subseteq Parcels
      BY <1>2 DEF Tick, OnLine, At, Typed
    <2>7. Arrivals(scene', plc')
      <3>1. /\ Tidy(scene) /\ scene' \in Scenes
            /\ Moved(scene, plc'.running, out'.divert, scene')
            /\ Shown.pe2 <=> AtEye(scene) # {}
            /\ Scanned(plc, Shown, plc') /\ ScannedClosely(plc, Shown, plc')
        BY <2>1 DEF Ticked, Typed
      <3>. QED  BY <2>1, <3>1, ArrivalsStep
    <2>8. Fresh(scene', plc')
      <3>1. ASSUME NEW i \in AtEye(scene'), ~plc'.prevPe2
            PROVE  scene'.parcel[i].pos = Pe2
        <4>1. AtEye(scene) = {} /\ i \in Parcels
          BY <2>1, <3>1 DEF Ticked, Scanned, AtEye, OnLine, At
        <4>. QED  BY <1>2, <4>1, TickAlong
      <3>. QED  BY <2>7, <3>1 DEF Fresh
    <2>9. Fresh(scene, plc)'
      BY <2>8 DEF Fresh, Arrivals
    <2>. QED  BY <2>1, <2>4, <2>5, <2>6, <2>9 DEF Ticked, Typed
  <1>3. CASE Event
    <2>1. /\ inputs' \in [Buttons -> BOOLEAN]
          /\ scene' \in Scenes /\ Disturbed(scene, scene') /\ Tidy(scene')
          /\ UNCHANGED <<plc, out, ring, readIdx, writeIdx, voided>>
          /\ lapses' \in {lapses, lapses \cup {"stuck"}}
      BY <1>3, CellEvent
    <2>2. \A i \in AtEye(scene') : i \in AtEye(scene)
                                   /\ scene'.parcel[i].pos = scene.parcel[i].pos
      <3>1. ASSUME NEW i \in AtEye(scene')
            PROVE  \/ scene.parcel[i].place = "unborn" /\ scene'.parcel[i].pos = 0
                   \/ /\ scene.parcel[i].place = "line"
                      /\ scene'.parcel[i].pos = scene.parcel[i].pos
        BY <2>1, DisturbedAtEye DEF Typed, AtEye, OnLine, At
      <3>2. ~(0 >= Pe2)
        BY SceneAssumption
      <3>. QED  BY <3>1, <3>2 DEF AtEye, OnLine, At
    <2>3. Fresh(scene, plc)'
      BY <2>1, <2>2 DEF Typed, Fresh, Arrivals
    <2>4. lapses' \subseteq Lapses
      BY <2>1 DEF Typed, Lapses
    <2>. QED  BY <2>1, <2>3, <2>4 DEF Typed
  <1>. QED  BY <1>1, <1>2, <1>3 DEF Next

LEMMA TypedInvariance == Spec => []Typed
  <1>1. Init => Typed
    <2> SUFFICES ASSUME Init PROVE Typed
      OBVIOUS
    <2>1. \A i \in Parcels : scene.parcel[i].place = "unborn"
      BY DEF Init, EmptyScene, Unborn
    <2>2. Fresh(scene, plc)
      BY <2>1 DEF Fresh, Arrivals, AtEye, OnLine, At
    <2>3. ring \in [Slots -> {0, ToA, ToB}] /\ inputs \in [Buttons -> BOOLEAN]
      BY DEF Init
    <2>4. lapses \subseteq Lapses /\ voided \subseteq Parcels
      BY DEF Init
    <2>. QED  BY <2>2, <2>3, <2>4, EmptyIsTidy, ScanStarts DEF Init, Typed
  <1>2. Typed /\ [Next]_vars => Typed'
    BY TypedKept
  <1>. QED  BY <1>1, <1>2, PTL DEF Spec

-----------------------------------------------------------------------------
(* The two indices.  The writer has a parcel still to scan for each entry  *)
(* it may yet write; the reader leaves an entry for each parcel awaited.   *)
BoundInv == writeIdx + Cardinality(Unscanned(scene)) <= MaxParcels

BacklogInv == readIdx + Cardinality(Awaited) <= writeIdx

(* The difference a tick makes to the sizes. *)
LEMMA SizesStep ==
  ASSUME NEW A \in SUBSET Parcels, NEW B \in SUBSET Parcels, NEW X \in SUBSET Parcels,
         B \subseteq A \cup X
  PROVE  /\ Cardinality(B) <= Cardinality(A) + Cardinality(X)
         /\ \A h \in A : h \notin B /\ h \notin X =>
              Cardinality(B) + 1 <= Cardinality(A) + Cardinality(X)
  <1>1. /\ IsFiniteSet(A) /\ IsFiniteSet(X) /\ IsFiniteSet(A \cup X)
        /\ Cardinality(A) \in Nat /\ Cardinality(X) \in Nat
        /\ Cardinality(A \cup X) \in Nat /\ Cardinality(B) \in Nat
        /\ IsFiniteSet(B) /\ Cardinality(A \cap X) \in Nat
    <2>1. A \cup X \in SUBSET Parcels /\ A \cap X \in SUBSET Parcels
      OBVIOUS
    <2>. QED  BY <2>1, ParcelsAreFinite
  <1>2. Cardinality(A \cup X) = Cardinality(A) + Cardinality(X) - Cardinality(A \cap X)
    BY <1>1, FS_Union
  <1>3. Cardinality(A \cup X) <= Cardinality(A) + Cardinality(X)
    BY <1>1, <1>2
  <1>4. Cardinality(B) <= Cardinality(A \cup X)
    BY <1>1, FS_Subset
  <1>5. ASSUME NEW h \in A, h \notin B, h \notin X
        PROVE  Cardinality(B) + 1 <= Cardinality(A \cup X)
    <2>1. Cardinality(B \cup {h}) = Cardinality(B) + 1
      BY <1>1, <1>5, FS_AddElement
    <2>2. B \cup {h} \in SUBSET (A \cup X)
      BY <1>5
    <2>3. Cardinality(B \cup {h}) <= Cardinality(A \cup X)
      BY <1>1, <2>2, FS_Subset
    <2>. QED  BY <2>1, <2>3
  <1>6. Cardinality(B) <= Cardinality(A) + Cardinality(X)
    BY <1>1, <1>3, <1>4
  <1>7. ASSUME NEW h \in A, h \notin B, h \notin X
        PROVE  Cardinality(B) + 1 <= Cardinality(A) + Cardinality(X)
    <2>1. Cardinality(B) + 1 <= Cardinality(A \cup X)
      BY <1>5, <1>7
    <2>. QED  BY <1>1, <1>3, <2>1
  <1>. QED  BY <1>6, <1>7

(* An event scans nothing and takes nothing off the line but what is stuck.*)
LEMMA EventAlong ==
  ASSUME Typed, Event
  PROVE  /\ Awaited' \subseteq Awaited
         /\ Unscanned(scene') \subseteq Unscanned(scene)
         /\ AtEye(scene') \subseteq AtEye(scene)
         /\ \A i \in Awaited : i \in Awaited' \/ scene.parcel[i].stuck
         /\ \A i \in Parcels : scene.parcel[i].place = "line" =>
              scene'.parcel[i].dest = scene.parcel[i].dest
         /\ \A i \in Parcels : scene'.parcel[i].place \in {"chuteA", "chuteB"} =>
              /\ scene'.parcel[i].place = scene.parcel[i].place
              /\ scene'.parcel[i].dest = scene.parcel[i].dest
  <1>1. scene' \in Scenes /\ Disturbed(scene, scene') /\ Tidy(scene) /\ plc' = plc
    BY CellEvent DEF Typed
  <1>2. ~(0 >= Pe1) /\ ~(0 >= Pe2) /\ ~(0 = Pe2)
    BY SceneAssumption
  <1>3. ASSUME NEW i \in Parcels
        PROVE  \/ scene'.parcel[i] = scene.parcel[i]
               \/ /\ scene.parcel[i].place = "unborn" /\ scene'.parcel[i].place = "line"
                  /\ scene'.parcel[i].pos = 0 /\ ~scene'.parcel[i].scanned
               \/ /\ scene.parcel[i].place = "line" /\ scene'.parcel[i].place = "line"
                  /\ scene'.parcel[i].pos = scene.parcel[i].pos
                  /\ scene'.parcel[i].scanned = scene.parcel[i].scanned
                  /\ scene'.parcel[i].dest = scene.parcel[i].dest
               \/ /\ scene.parcel[i].place = "line" /\ scene.parcel[i].stuck
                  /\ scene'.parcel[i].place = "removed"
                  /\ scene'.parcel[i].dest = scene.parcel[i].dest
    <2>1. ASSUME NEW j \in Parcels, Born(scene, j, scene')
          PROVE  \/ scene'.parcel[i] = scene.parcel[i]
                 \/ /\ scene.parcel[i].place = "unborn" /\ scene'.parcel[i].place = "line"
                    /\ scene'.parcel[i].pos = 0 /\ ~scene'.parcel[i].scanned
      BY <2>1 DEF Born
    <2>2. ASSUME NEW j \in Parcels, GotStuck(scene, j, scene')
          PROVE  \/ scene'.parcel[i] = scene.parcel[i]
                 \/ /\ scene.parcel[i].place = "line" /\ scene'.parcel[i].place = "line"
                    /\ scene'.parcel[i].pos = scene.parcel[i].pos
                    /\ scene'.parcel[i].scanned = scene.parcel[i].scanned
                    /\ scene'.parcel[i].dest = scene.parcel[i].dest
      BY <2>2 DEF GotStuck
    <2>3. ASSUME Cleared(scene, scene')
          PROVE  \/ scene'.parcel[i] = scene.parcel[i]
                 \/ /\ scene.parcel[i].place = "line" /\ scene.parcel[i].stuck
                    /\ scene'.parcel[i].place = "removed"
                    /\ scene'.parcel[i].dest = scene.parcel[i].dest
      BY <2>3 DEF Cleared
    <2>. QED  BY <1>1, <2>1, <2>2, <2>3 DEF Disturbed
  <1>4. Awaited' \subseteq Awaited
    BY <1>1, <1>2, <1>3 DEF Awaited, InFlight, OnLine, At
  <1>5. /\ Unscanned(scene') \subseteq Unscanned(scene)
        /\ AtEye(scene') \subseteq AtEye(scene)
    BY <1>2, <1>3 DEF Unscanned, AtEye, OnLine, At
  <1>6. \A i \in Awaited : i \in Awaited' \/ scene.parcel[i].stuck
    BY <1>1, <1>3 DEF Awaited, InFlight, OnLine, At
  <1>. QED  BY <1>3, <1>4, <1>5, <1>6

LEMMA BoundStep ==
  ASSUME Typed, BoundInv, [Next]_vars
  PROVE  BoundInv'
  <1> DEFINE U == Unscanned(scene)
             V == Unscanned(scene')
             X == ScannedNow
  <1>1. /\ U \in SUBSET Parcels /\ V \in SUBSET Parcels
        /\ IsFiniteSet(U) /\ Cardinality(U) \in Nat /\ Cardinality(V) \in Nat
    <2>1. U \in SUBSET Parcels /\ V \in SUBSET Parcels
      BY DEF Unscanned
    <2> HIDE DEF U, V
    <2>. QED  BY <2>1, ParcelsAreFinite
  <1>2. /\ writeIdx \in Nat /\ MaxParcels \in Nat
        /\ writeIdx + Cardinality(U) <= MaxParcels
    BY SceneAssumption DEF Typed, BoundInv
  <1>3. CASE UNCHANGED vars
    BY <1>3 DEF vars, BoundInv, Unscanned
  <1>4. CASE Event
    <2>1. V \subseteq U /\ writeIdx' = writeIdx
      BY <1>4, EventAlong, CellEvent
    <2>2. Cardinality(V) <= Cardinality(U)
      BY <1>1, <2>1, FS_Subset
    <2> HIDE DEF U, V
    <2>3. writeIdx' + Cardinality(V) <= MaxParcels
      BY <1>1, <1>2, <2>1, <2>2
    <2>. QED  BY <2>3 DEF BoundInv, V
  <1>5. CASE Tick
    <2>1. writeIdx' = writeIdx + Cardinality(X)
      BY <1>5, TickEffect DEF Tick, Ticked, ScannedNow
    <2>2. X \in SUBSET Parcels /\ X \subseteq U /\ V \subseteq U \ X
      <3>1. X \in SUBSET Parcels
        BY <1>5, AwaitedStep
      <3>. QED  BY <1>1, <1>5, <3>1, TickAlong
    <2> HIDE DEF U, V, X
    <2>3. Cardinality(X) \in Nat /\ IsFiniteSet(X) /\ IsFiniteSet(V)
      BY <1>1, <2>2, ParcelsAreFinite
    <2>4. Cardinality(V \cup X) = Cardinality(V) + Cardinality(X)
      <3>1. V \cap X = {}
        BY <2>2
      <3>2. Cardinality(V \cap X) = 0
        BY <3>1, FS_EmptySet
      <3>3. Cardinality(V \cup X)
              = Cardinality(V) + Cardinality(X) - Cardinality(V \cap X)
        BY <2>3, FS_Union
      <3>. QED  BY <1>1, <2>3, <3>2, <3>3
    <2>5. Cardinality(V \cup X) <= Cardinality(U)
      <3>1. V \cup X \in SUBSET U
        BY <2>2
      <3>. QED  BY <1>1, <3>1, FS_Subset
    <2>6. writeIdx' + Cardinality(V) <= MaxParcels
      BY <1>1, <1>2, <2>1, <2>3, <2>4, <2>5
    <2>. QED  BY <2>6 DEF BoundInv, V
  <1>. QED  BY <1>3, <1>4, <1>5 DEF Next

LEMMA BacklogStep ==
  ASSUME Typed, [Next]_vars
  PROVE  Backlog \in Int /\ Backlog' \in Int /\ Backlog' >= Backlog
  <1> DEFINE a == Cardinality(Awaited)
             b == Cardinality(Awaited')
             x == Cardinality(ScannedNow)
             t == IF Takes THEN 1 ELSE 0
  <1>0. Backlog = writeIdx - readIdx - a /\ Backlog' = writeIdx' - readIdx' - b
    BY DEF Backlog
  <1>1. Awaited \in SUBSET Parcels /\ Awaited' \in SUBSET Parcels
    BY DEF Awaited, InFlight, OnLine, At
  <1>2. /\ a \in Nat /\ b \in Nat /\ writeIdx \in Nat /\ readIdx \in Nat
        /\ IsFiniteSet(Awaited)
    BY <1>1, ParcelsAreFinite DEF Typed
  <1>3. CASE UNCHANGED vars
    <2>1. Awaited' = Awaited /\ writeIdx' = writeIdx /\ readIdx' = readIdx
      BY <1>3 DEF vars, Awaited, InFlight
    <2>2. b = a
      BY <2>1
    <2> HIDE DEF a, b
    <2>. QED  BY <1>0, <1>2, <2>1, <2>2
  <1>4. CASE Event
    <2>1. Awaited' \subseteq Awaited /\ writeIdx' = writeIdx /\ readIdx' = readIdx
      BY <1>4, EventAlong, CellEvent
    <2>2. b <= a
      BY <1>2, <2>1, FS_Subset
    <2> HIDE DEF a, b
    <2>. QED  BY <1>0, <1>2, <2>1, <2>2
  <1>5. CASE Tick
    <2>1. writeIdx' = writeIdx + x /\ readIdx' = readIdx + t
      BY <1>2, <1>5, TickEffect DEF Tick, Ticked, ScannedNow
    <2>2. x \in Nat /\ b + t <= a + x
      <3>1. /\ ScannedNow \in SUBSET Parcels /\ Awaited' \subseteq Awaited \cup ScannedNow
            /\ ScannedNow \cap Awaited = {}
            /\ Takes => \E h \in Awaited : h \notin Awaited'
        <4>1. Takes => /\ AtEye(scene) # {}
                       /\ AtEye(scene) \subseteq Awaited
                       /\ AtEye(scene) \cap Awaited' = {}
          BY <1>5, AwaitedStep
        <4>2. Takes => \E h \in Awaited : h \notin Awaited'
          BY <4>1
        <4>. QED  BY <1>5, <4>2, AwaitedStep
      <3>2. x \in Nat
        BY <3>1, ParcelsAreFinite
      <3>3. /\ b <= a + x
            /\ \A h \in Awaited : h \notin Awaited' /\ h \notin ScannedNow => b + 1 <= a + x
        BY <1>1, <3>1, SizesStep
      <3>4. Takes => b + 1 <= a + x
        BY <3>1, <3>3
      <3> HIDE DEF a, b, x
      <3>. QED  BY <1>2, <3>2, <3>3, <3>4
    <2>3. t \in {0, 1}
      OBVIOUS
    <2> HIDE DEF a, b, x, t
    <2>. QED  BY <1>0, <1>2, <2>1, <2>2, <2>3
  <1>. QED  BY <1>3, <1>4, <1>5 DEF Next

LEMMA IndicesInvariance == Spec => [](BoundInv /\ BacklogInv)
  <1>1. Init => BoundInv /\ BacklogInv
    <2> SUFFICES ASSUME Init PROVE BoundInv /\ BacklogInv
      OBVIOUS
    <2>1. \A i \in Parcels : scene.parcel[i].place = "unborn"
      BY DEF Init, EmptyScene, Unborn
    <2>2. Awaited = {}
      BY <2>1 DEF Awaited, InFlight, OnLine, At
    <2>3. Cardinality(Unscanned(scene)) \in Nat
          /\ Cardinality(Unscanned(scene)) <= MaxParcels
      <3>1. Unscanned(scene) \in SUBSET Parcels
        BY DEF Unscanned
      <3>. QED  BY <3>1, ParcelsAreFinite
    <2>. QED  BY <2>2, <2>3, FS_EmptySet DEF Init, BoundInv, BacklogInv
  <1>2. Typed /\ BoundInv /\ BacklogInv /\ [Next]_vars => BoundInv' /\ BacklogInv'
    <2> SUFFICES ASSUME Typed, BoundInv, BacklogInv, [Next]_vars
                 PROVE  BoundInv' /\ BacklogInv'
      OBVIOUS
    <2>1. Backlog >= 0 /\ Backlog \in Int /\ Backlog' \in Int /\ Backlog' >= Backlog
      <3>1. Awaited \in SUBSET Parcels
        BY DEF Awaited, InFlight, OnLine, At
      <3>2. Cardinality(Awaited) \in Nat /\ writeIdx \in Nat /\ readIdx \in Nat
        BY <3>1, ParcelsAreFinite DEF Typed
      <3>3. Backlog >= 0
        BY <3>2 DEF Backlog, BacklogInv
      <3>. QED  BY <3>3, BacklogStep
    <2>2. BacklogInv'
      <3> DEFINE b == Cardinality(Awaited')
      <3>1. Backlog' = writeIdx' - readIdx' - b
        BY DEF Backlog
      <3>2. Awaited' \in SUBSET Parcels
        BY DEF Awaited, InFlight, OnLine, At
      <3>3. writeIdx' \in Nat /\ readIdx' \in Nat
        BY TypedKept DEF Typed
      <3>4. b \in Nat
        BY <3>2, ParcelsAreFinite
      <3> DEFINE w == writeIdx'
                 r == readIdx'
      <3>5. r + b <= w
        <4>1. w - r - b >= 0
          BY <2>1, <3>1
        <4>2. w \in Nat /\ r \in Nat
          BY <3>3
        <4> HIDE DEF b, w, r
        <4>. QED  BY <3>4, <4>1, <4>2
      <3>. QED  BY <3>5 DEF BacklogInv, b
    <2>. QED  BY <2>2, BoundStep
  <1>. QED  BY <1>1, <1>2, TypedInvariance, PTL DEF Spec

(* Whatever the scenario does, the two indices count parcels of the line.  *)
THEOREM TypeCorrect == Spec => []TypeOK
  <1>1. Typed /\ BoundInv /\ BacklogInv => TypeOK
    <2> SUFFICES ASSUME Typed, BoundInv, BacklogInv PROVE TypeOK
      OBVIOUS
    <2>1. Awaited \in SUBSET Parcels /\ Unscanned(scene) \in SUBSET Parcels
      BY DEF Awaited, Unscanned, InFlight, OnLine, At
    <2>2. Cardinality(Awaited) \in Nat /\ Cardinality(Unscanned(scene)) \in Nat
      BY <2>1, ParcelsAreFinite
    <2>3. readIdx \in 0 .. MaxParcels /\ writeIdx \in 0 .. MaxParcels
      BY <2>2, SceneAssumption DEF Typed, BoundInv, BacklogInv
    <2>. QED  BY <2>3 DEF Typed, Tidy, TypeOK
  <1>. QED  BY <1>1, TypedInvariance, IndicesInvariance, PTL

(* The program never takes a destination that was not written.             *)
THEOREM ReaderFollowsWriter == Spec => []NeverReadsAhead
  <1>1. Typed /\ BacklogInv => NeverReadsAhead
    <2> SUFFICES ASSUME Typed, BacklogInv PROVE NeverReadsAhead
      OBVIOUS
    <2>1. Awaited \in SUBSET Parcels
      BY DEF Awaited, InFlight, OnLine, At
    <2>2. Cardinality(Awaited) \in Nat
      BY <2>1, ParcelsAreFinite
    <2>. QED  BY <2>2 DEF Typed, BacklogInv, NeverReadsAhead
  <1>. QED  BY <1>1, TypedInvariance, IndicesInvariance, PTL

(* And no step ever brings the reader nearer than the entries it has left  *)
(* behind: a ring out of step stays so until both sides are restarted.     *)
THEOREM OutOfStepForGood == Spec => BacklogNeverShrinks
  <1>1. Typed /\ [Next]_vars => [Backlog' >= Backlog]_vars
    BY BacklogStep
  <1>. QED  BY <1>1, TypedInvariance, PTL DEF Spec, BacklogNeverShrinks

-----------------------------------------------------------------------------
(* The ring while it is in step.  Places in the list of parcels, and the   *)
(* registers they stand for.                                               *)
LEMMA BeforeIs ==
  ASSUME NEW S \in SUBSET Parcels, NEW i \in Parcels
  PROVE  /\ Before(S, i) \in Nat
         /\ i \in S => Before(S, i) < Cardinality(S)
         /\ \A j \in Parcels : i \in S /\ i < j => Before(S, i) < Before(S, j)
  <1> DEFINE low(k) == {j \in S : j < k}
  <1>0. \A k \in Parcels : k \in Nat
    BY SceneAssumption DEF Parcels
  <1>1. \A k \in Parcels : /\ low(k) \in SUBSET Parcels
                            /\ Before(S, k) = Cardinality(low(k))
    <2>1. ASSUME NEW k \in Parcels PROVE low(k) \in SUBSET Parcels
      OBVIOUS
    <2>2. ASSUME NEW k \in Parcels PROVE Before(S, k) = Cardinality(low(k))
      BY DEF Before
    <2>. QED  BY <2>1, <2>2
  <1>2. /\ IsFiniteSet(S) /\ Cardinality(S) \in Nat
        /\ \A k \in Parcels : IsFiniteSet(low(k)) /\ Before(S, k) \in Nat
    BY <1>1, ParcelsAreFinite
  <1>3. i \in S => Cardinality(low(i) \cup {i}) = Before(S, i) + 1
    <2>1. i \notin low(i)
      BY <1>0
    <2> HIDE DEF low
    <2>2. Cardinality(low(i) \cup {i}) = Cardinality(low(i)) + 1
      BY <1>2, <2>1, FS_AddElement
    <2>. QED  BY <1>1, <2>2
  <1>4. i \in S => Before(S, i) < Cardinality(S)
    <2>1. i \in S => low(i) \cup {i} \in SUBSET S
      OBVIOUS
    <2> HIDE DEF low
    <2>2. i \in S => Cardinality(low(i) \cup {i}) <= Cardinality(S)
      BY <1>2, <2>1, FS_Subset
    <2>. QED  BY <1>2, <1>3, <2>2
  <1>5. ASSUME NEW j \in Parcels, i \in S, i < j PROVE Before(S, i) < Before(S, j)
    <2>1. ASSUME NEW k \in S, k < i PROVE k < j
      <3>1. k \in Nat /\ i \in Nat /\ j \in Nat
        BY <1>0
      <3>. QED  BY <1>5, <2>1, <3>1
    <2>3. low(i) \cup {i} \in SUBSET low(j)
      BY <1>5, <2>1
    <2> HIDE DEF low
    <2>2. Cardinality(low(i) \cup {i}) <= Cardinality(low(j))
      BY <1>2, <2>3, FS_Subset
    <2>. QED  BY <1>1, <1>2, <1>3, <1>5, <2>2
  <1>. QED  BY <1>2, <1>4, <1>5

LEMMA BeforeJoined ==
  ASSUME NEW S \in SUBSET Parcels, NEW X \in SUBSET Parcels,
         \A i \in S, x \in X : i < x
  PROVE  /\ Cardinality(S \cup X) = Cardinality(S) + Cardinality(X)
         /\ \A i \in S : Before(S \cup X, i) = Before(S, i)
         /\ \A x \in X : Before(S \cup X, x) = Cardinality(S) + Before(X, x)
  <1>1. \A i \in Parcels : i \in Nat /\ ~(i < i)
    BY SceneAssumption DEF Parcels
  <1>2. ASSUME NEW Y \in SUBSET X
        PROVE  Cardinality(S \cup Y) = Cardinality(S) + Cardinality(Y)
    <2>1. S \cap Y = {}
      BY <1>1
    <2>2. /\ IsFiniteSet(S) /\ IsFiniteSet(Y) /\ Cardinality(S) \in Nat
          /\ Cardinality(Y) \in Nat
      BY ParcelsAreFinite
    <2>3. Cardinality(S \cap Y) = 0
      BY <2>1, FS_EmptySet
    <2>4. Cardinality(S \cup Y) = Cardinality(S) + Cardinality(Y) - Cardinality(S \cap Y)
      BY <2>2, FS_Union
    <2>. QED  BY <2>2, <2>3, <2>4
  <1>3. ASSUME NEW i \in S PROVE Before(S \cup X, i) = Before(S, i)
    <2>1. {j \in S \cup X : j < i} = {j \in S : j < i}
      <3>1. ASSUME NEW x \in X PROVE ~(x < i)
        <4>1. i < x /\ i \in Nat /\ x \in Nat
          BY <1>1
        <4>. QED  BY <4>1
      <3>. QED  BY <3>1
    <2>. QED  BY <2>1 DEF Before
  <1>4. ASSUME NEW x \in X
        PROVE  Before(S \cup X, x) = Cardinality(S) + Before(X, x)
    <2>1. {j \in S \cup X : j < x} = S \cup {j \in X : j < x}
      OBVIOUS
    <2>2. {j \in X : j < x} \in SUBSET X
      OBVIOUS
    <2>. QED  BY <1>2, <2>1, <2>2 DEF Before
  <1>5. Cardinality(S \cup X) = Cardinality(S) + Cardinality(X)
    BY <1>2
  <1>. QED  BY <1>3, <1>4, <1>5

LEMMA BeforeFirst ==
  ASSUME NEW S \in SUBSET Parcels, NEW h \in S, \A i \in S : i # h => h < i
  PROVE  /\ Before(S, h) = 0
         /\ Cardinality(S) = Cardinality(S \ {h}) + 1
         /\ \A i \in S \ {h} : Before(S, i) = Before(S \ {h}, i) + 1
  <1>1. \A i \in Parcels : i \in Nat /\ ~(i < i)
    BY SceneAssumption DEF Parcels
  <1>2. Before(S, h) = 0
    <2>1. {j \in S : j < h} = {}
      <3>1. ASSUME NEW j \in S PROVE ~(j < h)
        <4>1. j \in Nat /\ h \in Nat /\ (j = h \/ h < j)
          BY <1>1
        <4>. QED  BY <4>1
      <3>. QED  BY <3>1
    <2>. QED  BY <2>1, FS_EmptySet DEF Before
  <1>3. Cardinality(S) = Cardinality(S \ {h}) + 1
    <2>1. S \ {h} \in SUBSET Parcels
      OBVIOUS
    <2>2. IsFiniteSet(S \ {h})
      BY <2>1, ParcelsAreFinite
    <2>3. Cardinality((S \ {h}) \cup {h}) = Cardinality(S \ {h}) + 1
      BY <2>2, FS_AddElement
    <2>4. (S \ {h}) \cup {h} = S
      OBVIOUS
    <2>. QED  BY <2>3, <2>4
  <1>4. ASSUME NEW i \in S \ {h} PROVE Before(S, i) = Before(S \ {h}, i) + 1
    <2> DEFINE L == {j \in S \ {h} : j < i}
    <2>1. {j \in S : j < i} = L \cup {h} /\ h \notin L /\ L \in SUBSET Parcels
      OBVIOUS
    <2>2. Before(S, i) = Cardinality(L \cup {h}) /\ Before(S \ {h}, i) = Cardinality(L)
      BY <2>1 DEF Before
    <2> HIDE DEF L
    <2>3. IsFiniteSet(L)
      BY <2>1, ParcelsAreFinite
    <2>4. Cardinality(L \cup {h}) = Cardinality(L) + 1
      BY <2>1, <2>3, FS_AddElement
    <2>. QED  BY <2>2, <2>4
  <1>. QED  BY <1>2, <1>3, <1>4

(* Two indices less than a round apart stand for two registers. *)
LEMMA SlotsDiffer ==
  ASSUME NEW a \in Nat, NEW b \in Nat, NEW R \in Nat \ {0}, a < b, b - a < R
  PROVE  a % R # b % R
  <1> SUFFICES ASSUME a % R = b % R PROVE FALSE
    OBVIOUS
  <1> DEFINE p == a \div R
             q == b \div R
             m == a % R
  <1>1. a = R * p + m /\ b = R * q + m /\ p \in Int /\ q \in Int /\ m \in Int
    OBVIOUS
  <1> HIDE DEF p, q, m
  <1>2. b - a = R * q - R * p
    BY <1>1
  <1>3. R * q - R * p = R * (q - p)
    BY <1>1
  <1>4. CASE q - p >= 1
    <2>1. R * (q - p) >= R * 1
      BY <1>1, <1>4
    <2>. QED  BY <1>2, <1>3, <2>1
  <1>5. CASE q - p <= 0
    <2>1. R * (q - p) <= R * 0
      BY <1>1, <1>5
    <2>. QED  BY <1>2, <1>3, <2>1
  <1>. QED  BY <1>1, <1>4, <1>5

(* What a tick writes: an entry for each parcel scanned, and none over an  *)
(* entry still owed.                                                       *)
LEMMA EnqueuedEffect ==
  ASSUME Typed, NEW w \in Nat, NEW X \in SUBSET Parcels
  PROVE  /\ \A q \in Nat : q < w /\ w + Cardinality(X) <= q + RingSize =>
              Enqueued(ring, w, X)[q % RingSize] = ring[q % RingSize]
         /\ \A x \in X : Cardinality(X) <= RingSize =>
              Enqueued(ring, w, X)[(w + Before(X, x)) % RingSize] = scene.parcel[x].dest
  <1> DEFINE idx(x) == w + Before(X, x)
             writers(k) == {i \in X : idx(i) % RingSize = k}
  <1>1. \A k \in Slots : Enqueued(ring, w, X)[k] =
          IF writers(k) = {} THEN ring[k] ELSE scene.parcel[Max(writers(k))].dest
    BY DEF Enqueued
  <1>2. /\ RingSize \in Nat \ {0} /\ Cardinality(X) \in Nat
        /\ \A x \in X : /\ idx(x) \in Nat /\ idx(x) >= w
                        /\ idx(x) < w + Cardinality(X)
    <2>1. RingSize \in Nat \ {0} /\ Cardinality(X) \in Nat
      BY RingAssumption, ParcelsAreFinite
    <2>2. ASSUME NEW x \in X
          PROVE  Before(X, x) \in Nat /\ Before(X, x) < Cardinality(X)
      BY BeforeIs
    <2>3. ASSUME NEW x \in X
          PROVE  idx(x) \in Nat /\ idx(x) >= w /\ idx(x) < w + Cardinality(X)
      BY <2>1, <2>2
    <2>. QED  BY <2>1, <2>3
  <1>3. \A x, y \in X : x < y => idx(x) < idx(y)
    <2>1. ASSUME NEW x \in X, NEW y \in X, x < y PROVE idx(x) < idx(y)
      <3>1. /\ Before(X, x) \in Nat /\ Before(X, y) \in Nat
            /\ Before(X, x) < Before(X, y)
        BY <2>1, BeforeIs
      <3>. QED  BY <3>1
    <2>. QED  BY <2>1
  <1> HIDE DEF idx
  <1>4. ASSUME NEW q \in Nat, q < w, w + Cardinality(X) <= q + RingSize
        PROVE  Enqueued(ring, w, X)[q % RingSize] = ring[q % RingSize]
    <2>1. ASSUME NEW x \in X PROVE idx(x) % RingSize # q % RingSize
      <3>1. idx(x) \in Nat /\ q < idx(x) /\ idx(x) - q < RingSize
        BY <1>2, <1>4
      <3>. QED  BY <1>2, <3>1, SlotsDiffer
    <2>2. writers(q % RingSize) = {}
      BY <2>1
    <2>. QED  BY <1>1, <2>2, SlotsAre
  <1>5. ASSUME NEW x \in X, Cardinality(X) <= RingSize
        PROVE  Enqueued(ring, w, X)[idx(x) % RingSize] = scene.parcel[x].dest
    <2>1. ASSUME NEW y \in X, y # x PROVE idx(y) % RingSize # idx(x) % RingSize
      <3>1. x \in Nat /\ y \in Nat
        BY SceneAssumption DEF Parcels
      <3>2. CASE x < y
        <4>1. /\ idx(x) \in Nat /\ idx(y) \in Nat /\ idx(x) < idx(y)
              /\ idx(y) - idx(x) < RingSize
          BY <1>2, <1>3, <1>5, <3>2
        <4>. QED  BY <1>2, <4>1, SlotsDiffer
      <3>3. CASE y < x
        <4>1. /\ idx(x) \in Nat /\ idx(y) \in Nat /\ idx(y) < idx(x)
              /\ idx(x) - idx(y) < RingSize
          BY <1>2, <1>3, <1>5, <3>3
        <4>. QED  BY <1>2, <4>1, SlotsDiffer
      <3>. QED  BY <2>1, <3>1, <3>2, <3>3
    <2> DEFINE W == writers(idx(x) % RingSize)
    <2>2. W = {x} /\ W \in SUBSET Parcels
      BY <2>1
    <2>3. idx(x) % RingSize \in Slots
      BY <1>2, SlotsAre
    <2>4. Enqueued(ring, w, X)[idx(x) % RingSize] =
            IF W = {} THEN ring[idx(x) % RingSize] ELSE scene.parcel[Max(W)].dest
      BY <1>1, <2>3
    <2> HIDE DEF W
    <2>5. Max(W) \in W
      BY <2>2, MaxIsGreatest, SceneAssumption DEF Parcels
    <2>. QED  BY <2>2, <2>4, <2>5
  <1>. QED  BY <1>4, <1>5 DEF idx

(* In step: the ring holds the destinations of the parcels awaited, none   *)
(* of which is stuck, and at most one parcel is between pe_002 and the     *)
(* diverter.                                                               *)
InStep ==
  lapses = {} =>
    /\ writeIdx = readIdx + Cardinality(Awaited)
    /\ writeIdx <= readIdx + RingSize
    /\ \A i \in Awaited :
         /\ ~scene.parcel[i].stuck
         /\ ring[(readIdx + Before(Awaited, i)) % RingSize] = scene.parcel[i].dest
    /\ \A i, j \in AtEye(scene) : i = j

Arriving == InFlight(scene) \ InFlight(scene')

LEMMA NoLapse ==
  ASSUME Typed, Tick, lapses' = {}
  PROVE  /\ lapses = {}
         /\ AtEye(scene) # {} /\ ~plc.prevPe2 => Takes
         /\ Arriving # {} => AtEye(scene) = {}
         /\ \A i, j \in Arriving : i = j
         /\ ~(writeIdx' - readIdx' > RingSize)
  <1> DEFINE s == Supervise(plc, Written)
  <1>1. /\ lapses = {}
        /\ ~(EyeRises(s, Written) /\ ~MotorOn(s, Written))
        /\ ~(Arriving # {} /\ (Written.pe2 \/ Cardinality(Arriving) > 1))
        /\ ~(writeIdx' - readIdx' > RingSize)
    BY DEF Tick, Arriving
  <1>2. Written.pe2 <=> AtEye(scene) # {}
    BY TickEffect, ShownIs DEF Ticked
  <1>3. s.prevPe2 = plc.prevPe2
    <2>1. s = Supervise(plc, Shown)
      BY ShownIs, SuperviseIgnoresDest
    <2>2. Shown \in ScanInputs
      BY TickEffect DEF Ticked
    <2>. QED  BY <2>1, <2>2, SuperviseEffect DEF Supervised, Typed
  <1>4. AtEye(scene) # {} /\ ~plc.prevPe2 => Takes
    BY <1>1, <1>2, <1>3 DEF EyeRises, Takes, Dequeues
  <1>5. Arriving \in SUBSET Parcels
    BY DEF Arriving, InFlight, OnLine, At
  <1>6. \A i, j \in Arriving : i = j
    BY <1>1, <1>5, AloneInSet
  <1>. QED  BY <1>1, <1>2, <1>4, <1>6

(* While in step, a tick takes the parcel at the eye, which is the first   *)
(* of the parcels awaited, and adds those it scans behind the others.      *)
LEMMA InStepTick ==
  ASSUME Typed, Tick, InStep, lapses' = {}
  PROVE  /\ \A i \in Awaited, x \in ScannedNow : i < x
         /\ \A h \in AtEye(scene) : ~plc.prevPe2 =>
              h \in Awaited /\ \A i \in Awaited : i # h => h < i
         /\ Takes => \E h \in AtEye(scene) : Awaited' = (Awaited \ {h}) \cup ScannedNow
         /\ ~Takes => Awaited' = Awaited \cup ScannedNow
         /\ \A i, j \in AtEye(scene') : i = j
         /\ \A i \in Awaited' : ~scene'.parcel[i].stuck
  <1>1. /\ lapses = {}
        /\ AtEye(scene) # {} /\ ~plc.prevPe2 => Takes
        /\ Arriving # {} => AtEye(scene) = {}
        /\ \A i, j \in Arriving : i = j
    BY NoLapse
  <1>2. /\ \A i \in Awaited : ~scene.parcel[i].stuck
        /\ \A i, j \in AtEye(scene) : i = j
    BY <1>1 DEF InStep
  <1>3. /\ plc'.prevPe2 <=> AtEye(scene) # {}
        /\ Takes => AtEye(scene) # {} /\ ~plc.prevPe2
    BY TickEffect DEF Ticked, Scanned
  <1>4. /\ ScannedNow \in SUBSET Parcels /\ Awaited \in SUBSET Parcels
        /\ Awaited' \in SUBSET Parcels
        /\ Awaited' \subseteq Awaited \cup ScannedNow
        /\ ScannedNow \subseteq Awaited' /\ ScannedNow \cap Awaited = {}
        /\ Takes => AtEye(scene) \cap Awaited' = {}
    BY AwaitedStep
  <1>5. ASSUME NEW i \in Parcels
        PROVE  /\ i \in Nat /\ scene.parcel[i].pos \in Nat
               /\ \A j \in Parcels : i \in OnLine(scene) /\ j \in OnLine(scene)
                    /\ i < j /\ ~scene.parcel[i].stuck =>
                      scene.parcel[j].pos <= scene.parcel[i].pos
    BY SceneAssumption DEF Typed, Tidy, TidyParcel, ParcelRecords, Parcels
  <1>6. /\ Pe1 \in Nat /\ Pe2 \in Nat /\ Pe1 < Pe2
    BY SceneAssumption
  <1>7. \A i \in Awaited : /\ i \in InFlight(scene) \/ (i \in AtEye(scene) /\ ~plc.prevPe2)
                           /\ i \in OnLine(scene)
    BY <1>6 DEF Awaited, InFlight, AtEye
  <1>8. ASSUME NEW i \in Awaited, NEW x \in ScannedNow PROVE i < x
    <2>1. /\ i \in Parcels /\ x \in Parcels /\ i # x
      BY <1>4
    <2>2. /\ x \in OnLine(scene) /\ scene.parcel[x].pos < Pe1 /\ ~scene.parcel[x].stuck
          /\ i \in OnLine(scene) /\ scene.parcel[i].pos >= Pe1
      BY <1>7, <2>1, TickAlong
    <2>3. /\ i \in Nat /\ x \in Nat /\ scene.parcel[x].pos \in Nat
          /\ scene.parcel[i].pos \in Nat
          /\ x < i => scene.parcel[i].pos <= scene.parcel[x].pos
      BY <1>5, <2>1, <2>2
    <2>. QED  BY <1>6, <2>1, <2>2, <2>3
  <1>9. ASSUME NEW h \in AtEye(scene), ~plc.prevPe2
        PROVE  h \in Awaited /\ \A i \in Awaited : i # h => h < i
    <2>1. h \in Parcels /\ h \in OnLine(scene) /\ scene.parcel[h].pos = Pe2
      BY <1>9 DEF Typed, Fresh, AtEye, OnLine, At
    <2>2. h \in Awaited
      BY <1>9, <2>1 DEF Awaited
    <2>3. ASSUME NEW i \in Awaited, i # h PROVE h < i
      <3>1. i \in InFlight(scene) /\ i \in Parcels
        BY <1>2, <1>4, <1>7, <2>3
      <3>2. i \in OnLine(scene) /\ scene.parcel[i].pos < Pe2 /\ ~scene.parcel[i].stuck
        BY <1>2, <3>1 DEF InFlight
      <3>3. /\ i \in Nat /\ h \in Nat /\ scene.parcel[i].pos \in Nat
            /\ i < h => scene.parcel[h].pos <= scene.parcel[i].pos
        BY <1>5, <2>1, <3>1, <3>2
      <3>. QED  BY <1>6, <2>1, <2>3, <3>2, <3>3
    <2>. QED  BY <2>2, <2>3
  <1>10. ASSUME NEW i \in InFlight(scene) PROVE i \in Awaited'
    <2>1. i \in Parcels
      BY DEF InFlight, OnLine, At
    <2>2. CASE i \in InFlight(scene')
      BY <2>2 DEF Awaited
    <2>3. CASE i \notin InFlight(scene')
      <3>1. i \in AtEye(scene') /\ scene'.parcel[i].pos = Pe2
        BY <2>1, <2>3, TickAlong
      <3>2. ~plc'.prevPe2
        BY <1>1, <1>3, <2>3 DEF Arriving
      <3>. QED  BY <3>1, <3>2 DEF Awaited, AtEye
    <2>. QED  BY <2>2, <2>3
  <1>11. ASSUME ~Takes PROVE Awaited' = Awaited \cup ScannedNow
    <2>1. \A i \in Awaited : i \in InFlight(scene)
      BY <1>1, <1>7, <1>11
    <2>. QED  BY <1>4, <1>10, <2>1
  <1>12. ASSUME Takes
         PROVE  \E h \in AtEye(scene) : Awaited' = (Awaited \ {h}) \cup ScannedNow
    <2>1. PICK h \in AtEye(scene) : TRUE
      BY <1>3, <1>12
    <2>2. h \notin Awaited'
      BY <1>4, <1>12
    <2>3. \A i \in Awaited : i # h => i \in Awaited'
      BY <1>2, <1>7, <1>10
    <2>4. Awaited' = (Awaited \ {h}) \cup ScannedNow
      BY <1>4, <2>2, <2>3
    <2>. QED  BY <2>4
  <1>13. ASSUME NEW i \in AtEye(scene'), NEW j \in AtEye(scene') PROVE i = j
    <2>1. i \in Parcels /\ j \in Parcels
      BY DEF AtEye, OnLine, At
    <2>2. \A k \in {i, j} : k \in AtEye(scene) \/ k \in Arriving
      <3> SUFFICES ASSUME NEW k \in {i, j}, k \notin AtEye(scene) PROVE k \in Arriving
        OBVIOUS
      <3>1. k \in InFlight(scene) /\ scene'.parcel[k].pos = Pe2
        BY <2>1, TickAlong
      <3>2. k \notin InFlight(scene')
        BY <1>6, <3>1 DEF InFlight
      <3>. QED  BY <3>1, <3>2 DEF Arriving
    <2>. QED  BY <1>1, <1>2, <2>2
  <1>14. ASSUME NEW i \in Awaited' PROVE ~scene'.parcel[i].stuck
    <2>1. i \in Parcels /\ (i \in Awaited \/ i \in ScannedNow)
      BY <1>4
    <2>2. ~scene.parcel[i].stuck
      BY <1>2, <2>1, TickAlong
    <2>. QED  BY <2>1, <2>2, TickAlong
  <1>. QED  BY <1>8, <1>9, <1>11, <1>12, <1>13, <1>14

(* A move of the two indices over a ring in step, in terms of the parcels  *)
(* that stay awaited (B) and of those a tick scans (X).                    *)
LEMMA RingMoves ==
  ASSUME Typed, NEW B \in SUBSET Parcels, NEW X \in SUBSET Parcels,
         \A i \in B, x \in X : i < x,
         NEW r \in Nat, writeIdx = r + Cardinality(B),
         writeIdx + Cardinality(X) <= r + RingSize,
         \A i \in B : ring[(r + Before(B, i)) % RingSize] = scene.parcel[i].dest
  PROVE  /\ writeIdx + Cardinality(X) = r + Cardinality(B \cup X)
         /\ \A i \in B \cup X :
              Enqueued(ring, writeIdx, X)[(r + Before(B \cup X, i)) % RingSize]
                = scene.parcel[i].dest
  <1> DEFINE w == writeIdx
             b == Cardinality(B)
             n == Cardinality(X)
             e == Enqueued(ring, w, X)
  <1>1. /\ Cardinality(B \cup X) = b + n
        /\ \A i \in B : Before(B \cup X, i) = Before(B, i)
        /\ \A x \in X : Before(B \cup X, x) = b + Before(X, x)
    BY BeforeJoined
  <1>2. /\ b \in Nat /\ n \in Nat /\ w \in Nat /\ RingSize \in Nat
        /\ w = r + b /\ w + n <= r + RingSize
    BY ParcelsAreFinite, RingAssumption DEF Typed
  <1>3. /\ \A q \in Nat : q < w /\ w + n <= q + RingSize =>
             e[q % RingSize] = ring[q % RingSize]
        /\ \A x \in X : n <= RingSize =>
             e[(w + Before(X, x)) % RingSize] = scene.parcel[x].dest
    BY <1>2, EnqueuedEffect
  <1>4. /\ \A i \in B : Before(B, i) \in Nat /\ Before(B, i) < b
        /\ \A x \in X : Before(X, x) \in Nat
    BY BeforeIs
  <1>5. w + n = r + Cardinality(B \cup X)
    <2> HIDE DEF w, b, n
    <2>. QED  BY <1>1, <1>2
  <1>6. ASSUME NEW i \in B
        PROVE  e[(r + Before(B \cup X, i)) % RingSize] = scene.parcel[i].dest
    <2> DEFINE q == r + Before(B, i)
    <2>1. q \in Nat /\ q < w /\ w + n <= q + RingSize
      <3>1. Before(B, i) \in Nat /\ Before(B, i) < b
        BY <1>4
      <3> HIDE DEF w, b, n
      <3>. QED  BY <1>2, <3>1
    <2>2. e[q % RingSize] = ring[q % RingSize]
      BY <1>3, <2>1
    <2>. QED  BY <1>1, <2>2
  <1>7. ASSUME NEW x \in X
        PROVE  e[(r + Before(B \cup X, x)) % RingSize] = scene.parcel[x].dest
    <2> DEFINE k == Before(X, x)
               l == Before(B \cup X, x)
    <2>1. r + l = w + k /\ n <= RingSize
      <3>1. k \in Nat /\ l = b + k
        BY <1>1, <1>4
      <3> HIDE DEF w, b, n, k, l
      <3>. QED  BY <1>2, <3>1
    <2>2. e[(w + k) % RingSize] = scene.parcel[x].dest
      BY <1>3, <2>1
    <2>. QED  BY <2>1, <2>2
  <1>. QED  BY <1>5, <1>6, <1>7

LEMMA InStepKeptByTick ==
  ASSUME Typed, Tick, InStep
  PROVE  InStep'
  <1> SUFFICES ASSUME lapses' = {} PROVE InStep'
    BY DEF InStep
  <1> DEFINE X == ScannedNow
             A == Awaited
  <1>1. /\ lapses = {} /\ ~(writeIdx' - readIdx' > RingSize)
        /\ AtEye(scene) # {} /\ ~plc.prevPe2 => Takes
    BY NoLapse
  <1>2. /\ writeIdx = readIdx + Cardinality(A)
        /\ \A i \in A : /\ ring[(readIdx + Before(A, i)) % RingSize] = scene.parcel[i].dest
                        /\ ~scene.parcel[i].stuck
    BY <1>1 DEF InStep
  <1>3. /\ \A i \in A, x \in X : i < x
        /\ \A h \in AtEye(scene) : ~plc.prevPe2 =>
             h \in A /\ \A i \in A : i # h => h < i
        /\ Takes => \E h \in AtEye(scene) : Awaited' = (A \ {h}) \cup X
        /\ ~Takes => Awaited' = A \cup X
        /\ \A i, j \in AtEye(scene') : i = j
        /\ \A i \in Awaited' : ~scene'.parcel[i].stuck
    BY InStepTick
  <1>4. /\ ring' = Enqueued(ring, writeIdx, X)
        /\ writeIdx' = writeIdx + Cardinality(X)
        /\ readIdx' = IF Takes THEN readIdx + 1 ELSE readIdx
        /\ Takes => ~plc.prevPe2
    BY TickEffect DEF Tick, Ticked, ScannedNow
  <1>5. /\ A \in SUBSET Parcels /\ X \in SUBSET Parcels /\ Awaited' \in SUBSET Parcels
        /\ writeIdx \in Nat /\ readIdx \in Nat /\ writeIdx' \in Nat /\ readIdx' \in Nat
        /\ Cardinality(A) \in Nat /\ Cardinality(X) \in Nat /\ RingSize \in Nat
    <2>1. A \in SUBSET Parcels /\ X \in SUBSET Parcels /\ Awaited' \in SUBSET Parcels
      BY AwaitedStep
    <2>2. Cardinality(A) \in Nat /\ Cardinality(X) \in Nat
      BY <2>1, ParcelsAreFinite
    <2>. QED  BY <2>1, <2>2, <1>4, RingAssumption DEF Typed
  <1>6. writeIdx' <= readIdx' + RingSize
    <2> DEFINE w == writeIdx'
               r == readIdx'
    <2>1. w \in Nat /\ r \in Nat /\ RingSize \in Nat
      BY <1>5
    <2>2. ~(w - r > RingSize)
      BY <1>1
    <2> HIDE DEF w, r
    <2>3. w <= r + RingSize
      BY <2>1, <2>2
    <2>. QED  BY <2>3 DEF w, r
  <1>7. \E B \in SUBSET A :
          /\ Awaited' = B \cup X
          /\ writeIdx = readIdx' + Cardinality(B)
          /\ \A i \in B : ring[(readIdx' + Before(B, i)) % RingSize] = scene.parcel[i].dest
    <2>1. CASE ~Takes
      BY <1>2, <1>3, <1>4, <2>1
    <2>2. CASE Takes
      <3>1. PICK h \in AtEye(scene) : Awaited' = (A \ {h}) \cup X
        BY <1>3, <2>2
      <3>2. h \in A /\ \A i \in A : i # h => h < i
        BY <1>3, <1>4, <2>2
      <3> DEFINE B == A \ {h}
      <3>3. /\ Cardinality(A) = Cardinality(B) + 1
            /\ \A i \in B : Before(A, i) = Before(B, i) + 1
        BY <1>5, <3>2, BeforeFirst
      <3>4. B \in SUBSET Parcels /\ Cardinality(B) \in Nat
            /\ \A i \in B : Before(B, i) \in Nat
        <4>1. B \in SUBSET Parcels
          BY <1>5
        <4> HIDE DEF B
        <4>. QED  BY <4>1, ParcelsAreFinite, BeforeIs
      <3>5. writeIdx = readIdx' + Cardinality(B)
        <4> DEFINE n == Cardinality(B)
                   m == Cardinality(A)
        <4>1. n \in Nat /\ m = n + 1 /\ writeIdx = readIdx + m /\ readIdx' = readIdx + 1
          BY <1>2, <1>4, <2>2, <3>3, <3>4
        <4> HIDE DEF n, m
        <4>2. writeIdx = readIdx' + n
          BY <1>5, <4>1
        <4>. QED  BY <4>2 DEF n
      <3>6. ASSUME NEW i \in B
            PROVE  ring[(readIdx' + Before(B, i)) % RingSize] = scene.parcel[i].dest
        <4> DEFINE n == Before(B, i)
                   m == Before(A, i)
        <4>1. n \in Nat /\ m = n + 1 /\ readIdx' = readIdx + 1
          BY <1>4, <2>2, <3>3, <3>4
        <4> HIDE DEF n, m
        <4>2. readIdx' + n = readIdx + m
          BY <1>5, <4>1
        <4>. QED  BY <1>2, <4>2 DEF n, m
      <3>7. B \in SUBSET A /\ Awaited' = B \cup X
        BY <3>1
      <3> HIDE DEF B
      <3>. QED  BY <3>5, <3>6, <3>7
    <2>. QED  BY <2>1, <2>2
  <1>8. PICK B \in SUBSET A :
          /\ Awaited' = B \cup X
          /\ writeIdx = readIdx' + Cardinality(B)
          /\ \A i \in B : ring[(readIdx' + Before(B, i)) % RingSize] = scene.parcel[i].dest
    BY <1>7
  <1>9. /\ writeIdx' = readIdx' + Cardinality(Awaited')
        /\ \A i \in Awaited' :
             ring'[(readIdx' + Before(Awaited', i)) % RingSize] = scene.parcel[i].dest
    <2>1. B \in SUBSET Parcels /\ \A i \in B, x \in X : i < x
      BY <1>3, <1>5
    <2>2. writeIdx + Cardinality(X) <= readIdx' + RingSize
      BY <1>4, <1>6
    <2> DEFINE r == readIdx'
    <2>3. r \in Nat /\ X \in SUBSET Parcels
      BY <1>5
    <2>4. /\ writeIdx = r + Cardinality(B)
          /\ \A i \in B : ring[(r + Before(B, i)) % RingSize] = scene.parcel[i].dest
          /\ writeIdx + Cardinality(X) <= r + RingSize
      BY <1>8, <2>2
    <2> HIDE DEF r, X, A
    <2>5. /\ writeIdx + Cardinality(X) = r + Cardinality(B \cup X)
          /\ \A i \in B \cup X :
               Enqueued(ring, writeIdx, X)[(r + Before(B \cup X, i)) % RingSize]
                 = scene.parcel[i].dest
      BY <2>1, <2>3, <2>4, RingMoves
    <2>. QED  BY <1>4, <1>8, <2>5 DEF r
  <1>10. \A i \in Awaited' :
           ring'[(readIdx' + Before(Awaited', i)) % RingSize] = scene'.parcel[i].dest
    BY <1>5, <1>9, TickAlong
  <1>11. (\A i \in Awaited : ring[(readIdx + Before(Awaited, i)) % RingSize]
                               = scene.parcel[i].dest)'
    BY <1>10 DEF Before
  <1>. QED  BY <1>3, <1>6, <1>9, <1>11 DEF InStep

LEMMA InStepKeptByEvent ==
  ASSUME Typed, Event, InStep
  PROVE  InStep'
  <1> SUFFICES ASSUME lapses' = {} PROVE InStep'
    BY DEF InStep
  <1>1. /\ lapses = {}
        /\ \A i \in Awaited' : ~scene'.parcel[i].stuck
    BY DEF Event
  <1>2. /\ UNCHANGED <<plc, ring, readIdx, writeIdx>>
    BY CellEvent
  <1>3. /\ \A i \in Awaited : ~scene.parcel[i].stuck
        /\ writeIdx = readIdx + Cardinality(Awaited)
        /\ writeIdx <= readIdx + RingSize
        /\ \A i \in Awaited :
             ring[(readIdx + Before(Awaited, i)) % RingSize] = scene.parcel[i].dest
        /\ \A i, j \in AtEye(scene) : i = j
    BY <1>1 DEF InStep
  <1>4. Awaited' = Awaited /\ AtEye(scene') \subseteq AtEye(scene)
    BY <1>3, EventAlong
  <1>5. \A i \in Awaited : scene'.parcel[i].dest = scene.parcel[i].dest
    <2>1. \A i \in Awaited : i \in Parcels /\ scene.parcel[i].place = "line"
      BY DEF Awaited, InFlight, OnLine, At
    <2>. QED  BY <2>1, EventAlong
  <1>6. \A i \in Awaited' :
          ring'[(readIdx' + Before(Awaited', i)) % RingSize] = scene'.parcel[i].dest
    BY <1>2, <1>3, <1>4, <1>5
  <1>7. (\A i \in Awaited : ring[(readIdx + Before(Awaited, i)) % RingSize]
                              = scene.parcel[i].dest)'
    BY <1>6 DEF Before
  <1>. QED  BY <1>1, <1>2, <1>3, <1>4, <1>7 DEF InStep

(* The decision the program holds is for the parcel at the eye.            *)
DecisionInv ==
  lapses = {} /\ plc.prevPe2 =>
    \A i \in AtEye(scene) : DecidedFor(plc, scene.parcel[i].dest, i \in voided)

(* The entry a tick takes is that of the parcel it sees, which is the      *)
(* first of the parcels awaited.                                           *)
LEMMA TickDecides ==
  ASSUME Typed, Tick, InStep, DecisionInv, lapses' = {}, NEW i \in AtEye(scene)
  PROVE  /\ DecidedFor(plc', scene.parcel[i].dest, i \in voided')
         /\ plc'.divert => scene.parcel[i].dest = ToA
         /\ ~plc'.divert => scene.parcel[i].dest = ToB \/ i \in voided'
  <1> DEFINE in == Shown
             d == scene.parcel[i].dest
             v == i \in voided
             w == i \in voided'
             r == plc'
  <1>1. /\ in \in ScanInputs /\ in.pe2 /\ r \in ControlState
        /\ Scanned(plc, in, r) /\ ScannedClosely(plc, in, r)
        /\ plc \in ControlState /\ Coherent(plc)
    BY TickEffect DEF Ticked, Typed
  <1>2. i \in Parcels /\ i \in OnLine(scene) /\ lapses = {}
    BY NoLapse DEF AtEye, OnLine, At
  <1>3. d \in {ToA, ToB}
    BY <1>2 DEF Typed, Tidy, TidyParcel, ParcelRecords
  <1>4. ~plc.prevPe2 => plc.running /\ plc.jamTimer = 0 /\ in.dest = d
    <2> SUFFICES ASSUME ~plc.prevPe2
                 PROVE  plc.running /\ plc.jamTimer = 0 /\ in.dest = d
      OBVIOUS
    <2>1. i \in Awaited /\ \A j \in Awaited : j # i => i < j
      BY InStepTick
    <2>2. Before(Awaited, i) = 0
      <3>1. Awaited \in SUBSET Parcels
        BY AwaitedStep
      <3>. QED  BY <2>1, <3>1, BeforeFirst
    <2>3. ring[(readIdx + Before(Awaited, i)) % RingSize] = d
      BY <1>2, <2>1 DEF InStep
    <2>4. readIdx + Before(Awaited, i) = readIdx
      BY <2>2 DEF Typed
    <2>5. in.dest = d
      BY <2>3, <2>4, ShownIs DEF NextDest
    <2>. QED  BY <2>5 DEF Typed, Fresh, Arrivals
  <1>5. plc.prevPe2 => DecidedFor(plc, d, v)
    BY <1>2 DEF DecisionInv
  <1>6. ~w => ~v /\ r.running /\ ~in.stop /\ ~ResetEdge(plc, in)
    <2>1. Blocks(scene, i, Pe2)
      BY <1>2, EyeSees, RingAssumption DEF Typed
    <2>2. out'.motor = r.running
      BY TickEffect DEF Ticked
    <2>3. voided' = IF ~out'.motor \/ Written.stop \/ ResetEdge(plc, Written)
                    THEN voided \cup {h \in OnLine(scene) : Blocks(scene, h, Pe2)}
                    ELSE voided
      BY DEF Tick
    <2>4. in.stop = Written.stop /\ (ResetEdge(plc, in) <=> ResetEdge(plc, Written))
      BY ShownIs DEF ResetEdge
    <2> HIDE DEF in, r
    <2>. QED  BY <1>2, <2>1, <2>2, <2>3, <2>4
  <1>7. v \in BOOLEAN /\ w \in BOOLEAN
    OBVIOUS
  <1> HIDE DEF in, d, v, w, r
  <1>8. /\ DecidedFor(r, d, w)
        /\ r.divert => d = ToA
        /\ ~r.divert => d = ToB \/ w
    BY <1>1, <1>3, <1>4, <1>5, <1>6, <1>7, DecisionStep
  <1>. QED  BY <1>8 DEF d, w, r

RoutingInv == InStep /\ DecisionInv /\ RoutedByOwnLabel

LEMMA RoutingTick ==
  ASSUME Typed, Tick, RoutingInv
  PROVE  DecisionInv' /\ RoutedByOwnLabel'
  <1> SUFFICES ASSUME lapses' = {} PROVE DecisionInv' /\ RoutedByOwnLabel'
    BY DEF DecisionInv, RoutedByOwnLabel
  <1>1. InStep /\ DecisionInv /\ RoutedByOwnLabel /\ lapses = {}
    BY NoLapse DEF RoutingInv
  <1>2. \A i \in AtEye(scene) :
          /\ DecidedFor(plc', scene.parcel[i].dest, i \in voided')
          /\ plc'.divert => scene.parcel[i].dest = ToA
          /\ ~plc'.divert => scene.parcel[i].dest = ToB \/ i \in voided'
    BY <1>1, TickDecides
  <1>3. DecisionInv'
    <2> SUFFICES ASSUME plc'.prevPe2, NEW i \in AtEye(scene')
                 PROVE  DecidedFor(plc', scene'.parcel[i].dest, i \in voided')
      BY DEF DecisionInv
    <2>1. AtEye(scene) # {} /\ i \in Parcels
      BY TickEffect DEF Ticked, Scanned, AtEye, OnLine, At
    <2>2. i \in AtEye(scene)
      <3> SUFFICES ASSUME i \notin AtEye(scene) PROVE FALSE
        OBVIOUS
      <3>1. i \in InFlight(scene) /\ scene'.parcel[i].pos = Pe2
        BY <2>1, TickAlong
      <3>2. i \notin InFlight(scene')
        BY <3>1, SceneAssumption DEF InFlight
      <3>. QED  BY <2>1, <3>1, <3>2, NoLapse DEF Arriving
    <2>3. scene'.parcel[i].dest = scene.parcel[i].dest
      BY <2>1, TickAlong
    <2>. QED  BY <1>2, <2>2, <2>3
  <1>4. RoutedByOwnLabel'
    <2> SUFFICES ASSUME NEW i \in Parcels
                 PROVE  /\ scene'.parcel[i].place = "chuteA" => scene'.parcel[i].dest = ToA
                        /\ scene'.parcel[i].place = "chuteB" =>
                             scene'.parcel[i].dest = ToB \/ i \in voided'
      BY DEF RoutedByOwnLabel, At
    <2>1. voided \subseteq voided'
      BY DEF Tick
    <2>2. scene'.parcel[i].dest = scene.parcel[i].dest
      BY TickAlong
    <2>3. CASE scene'.parcel[i].place = scene.parcel[i].place
      BY <1>1, <2>1, <2>2, <2>3 DEF RoutedByOwnLabel, At
    <2>4. CASE scene'.parcel[i].place # scene.parcel[i].place
      <3>1. /\ Moved(scene, plc'.running, out'.divert, scene') /\ scene' \in Scenes
            /\ Tidy(scene) /\ plc'.running \in BOOLEAN /\ out'.divert \in BOOLEAN
            /\ out'.divert <=> plc'.divert /\ plc'.running
        BY TickEffect DEF Ticked, Typed
      <3>2. /\ i \in AtEye(scene) /\ plc'.running
            /\ scene'.parcel[i].place = IF out'.divert THEN "chuteA" ELSE "chuteB"
        BY <2>4, <3>1, MovesAtEye
      <3>. QED  BY <1>2, <2>2, <3>1, <3>2
    <2>. QED  BY <2>3, <2>4
  <1>. QED  BY <1>3, <1>4

LEMMA RoutingEvent ==
  ASSUME Typed, Event, RoutingInv
  PROVE  DecisionInv' /\ RoutedByOwnLabel'
  <1> SUFFICES ASSUME lapses' = {} PROVE DecisionInv' /\ RoutedByOwnLabel'
    BY DEF DecisionInv, RoutedByOwnLabel
  <1>1. plc' = plc /\ voided' = voided
    BY CellEvent
  <1>2. DecisionInv /\ RoutedByOwnLabel /\ lapses = {}
    BY DEF Event, RoutingInv
  <1>3. DecisionInv'
    <2>1. \A i \in AtEye(scene) : i \in Parcels /\ scene.parcel[i].place = "line"
      BY DEF AtEye, OnLine, At
    <2>2. \A i \in AtEye(scene') : /\ i \in AtEye(scene)
                                   /\ scene'.parcel[i].dest = scene.parcel[i].dest
      BY <2>1, EventAlong
    <2>. QED  BY <1>1, <1>2, <2>2 DEF DecisionInv
  <1>4. RoutedByOwnLabel'
    BY <1>1, <1>2, EventAlong DEF RoutedByOwnLabel, At
  <1>. QED  BY <1>3, <1>4

LEMMA RoutingInvariance == Spec => []RoutingInv
  <1>1. Init => RoutingInv
    <2> SUFFICES ASSUME Init PROVE RoutingInv
      OBVIOUS
    <2>1. \A i \in Parcels : scene.parcel[i].place = "unborn"
      BY DEF Init, EmptyScene, Unborn
    <2>2. Awaited = {} /\ AtEye(scene) = {}
      BY <2>1 DEF Awaited, AtEye, InFlight, OnLine, At
    <2>3. InStep
      BY <2>2, FS_EmptySet, RingAssumption DEF Init, InStep
    <2>4. DecisionInv /\ RoutedByOwnLabel
      BY <2>1, <2>2 DEF DecisionInv, RoutedByOwnLabel, At
    <2>. QED  BY <2>3, <2>4 DEF RoutingInv
  <1>2. Typed /\ RoutingInv /\ [Next]_vars => RoutingInv'
    <2> SUFFICES ASSUME Typed, RoutingInv, [Next]_vars PROVE RoutingInv'
      OBVIOUS
    <2>1. CASE UNCHANGED vars
      <3>1. /\ scene' = scene /\ plc' = plc /\ ring' = ring /\ lapses' = lapses
            /\ readIdx' = readIdx /\ writeIdx' = writeIdx /\ voided' = voided
        BY <2>1 DEF vars
      <3>2. Awaited' = Awaited
        BY <3>1 DEF Awaited, InFlight
      <3>3. InStep'
        BY <3>1, <3>2 DEF RoutingInv, InStep
      <3>4. DecisionInv' /\ RoutedByOwnLabel'
        BY <3>1 DEF RoutingInv, DecisionInv, RoutedByOwnLabel
      <3>. QED  BY <3>3, <3>4 DEF RoutingInv
    <2>2. CASE Tick
      BY <2>2, RoutingTick, InStepKeptByTick DEF RoutingInv
    <2>3. CASE Event
      BY <2>3, RoutingEvent, InStepKeptByEvent DEF RoutingInv
    <2>. QED  BY <2>1, <2>2, <2>3 DEF Next
  <1>. QED  BY <1>1, <1>2, TypedInvariance, PTL DEF Spec

(* Until a lapse, the registers between the two indices are a picture of   *)
(* the line, for any number of parcels and any size of the ring.           *)
THEOREM RingIsTheLine == Spec => []RingMirrorsLine
  <1>1. Typed /\ RoutingInv => RingMirrorsLine
    <2> SUFFICES ASSUME Typed, RoutingInv, lapses = {} PROVE RingMirrorsLine
      BY DEF RingMirrorsLine
    <2> DEFINE n == Cardinality(Awaited)
    <2>1. Awaited \in SUBSET Parcels
      BY DEF Awaited, InFlight, OnLine, At
    <2>2. n \in Nat /\ writeIdx = readIdx + n /\ readIdx \in Nat
      BY <2>1, ParcelsAreFinite DEF RoutingInv, InStep, Typed
    <2>3. writeIdx - readIdx = n
      <3> HIDE DEF n
      <3>. QED  BY <2>2
    <2>. QED  BY <2>3 DEF RoutingInv, InStep, RingMirrorsLine
  <1>. QED  BY <1>1, TypedInvariance, RoutingInvariance, PTL

(* And every parcel reaches the chute of its own label, but for one whose  *)
(* decision a stop or a reset voided at the eye.                           *)
THEOREM ParcelsFollowTheirLabels == Spec => []RoutedByOwnLabel
  <1>1. RoutingInv => RoutedByOwnLabel
    BY DEF RoutingInv
  <1>. QED  BY <1>1, RoutingInvariance, PTL
=============================================================================
