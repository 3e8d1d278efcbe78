-------------------------- MODULE SortingCellProofs --------------------------
(***************************************************************************)
(* Theorems about SortingCell, for any number of parcels, any events in    *)
(* any order, and every geometry of the line in which the eye sees a       *)
(* parcel up to the diverter.                                              *)
(***************************************************************************)
EXTENDS SortingCell, ScanPlantProofs

Typed ==
  /\ Tidy(scene)
  /\ inputs \in [Buttons -> BOOLEAN]
  /\ plc \in ControlState /\ Coherent(plc)
  /\ out \in OutputStates /\ out.jam = plc.jam
  /\ calm \in BOOLEAN /\ crowded \in BOOLEAN
  /\ voided \subseteq Parcels

(* What a tick does, in the terms of the scan's lemmas and the plant's.    *)
Ticked ==
  /\ Written \in ScanInputs
  /\ Written.pe2 <=> AtEye(scene) # {}
  /\ Scanned(plc, Written, plc')
  /\ ScannedClosely(plc, Written, plc')
  /\ out' \in OutputStates /\ out'.motor = plc'.running /\ out'.jam = plc'.jam
  /\ out'.divert <=> plc'.divert /\ plc'.running
  /\ scene' \in Scenes
  /\ Moved(scene, plc'.running, out'.divert, scene')
  /\ inputs' = inputs /\ calm' = calm

LEMMA TickEffect ==
  ASSUME Typed, Tick
  PROVE  Ticked /\ Tidy(scene') /\ plc' \in ControlState /\ Coherent(plc')
  <1> DEFINE in == Written
  <1>1. in \in ScanInputs /\ in.pe2 = SensorBlocked(scene, Pe2)
    <2>1. scene.published \in Destinations
      BY CellAssumption DEF Typed, Tidy, Scenes
    <2>2. SensorBlocked(scene, Pe2) \in BOOLEAN
      BY DEF SensorBlocked
    <2>. QED  BY <2>1, <2>2 DEF Typed, Written, ScanInputs, Buttons
  <1>2. in.pe2 <=> AtEye(scene) # {}
    BY <1>1, EyeSees, CellAssumption DEF Typed
  <1>3. /\ plc' = Scan(plc, in) /\ out' = Outputs(plc', in)
        /\ scene' = Step(scene, out'.motor, out'.divert)
        /\ inputs' = inputs /\ calm' = calm
    BY DEF Tick
  <1> HIDE DEF in
  <1>4. Scanned(plc, in, plc') /\ ScannedClosely(plc, in, plc')
    BY <1>1, <1>3, ScanEffect, ScanCloselyEffect DEF Typed
  <1>5. plc' \in ControlState /\ Coherent(plc') /\ (plc'.running => ~in.estop)
    BY <1>4 DEF Scanned
  <1>6. /\ out' \in OutputStates /\ out'.motor = plc'.running
        /\ out'.divert <=> plc'.divert /\ plc'.running
        /\ out'.jam = plc'.jam
    BY <1>1, <1>3, <1>5, OutputsEffect
  <1>7. plc'.running \in BOOLEAN /\ out'.divert \in BOOLEAN
    BY <1>5, <1>6 DEF ControlState, OutputStates
  <1>8. /\ scene' \in Scenes /\ Moved(scene, plc'.running, out'.divert, scene')
        /\ Tidy(scene')
    <2>1. scene' = Step(scene, plc'.running, out'.divert) /\ scene \in Scenes
      BY <1>3, <1>6 DEF Typed, Tidy
    <2>2. /\ scene' \in Scenes
          /\ Moved(scene, plc'.running, out'.divert, scene')
      BY <1>7, <2>1, StepEffect
    <2>. QED  BY <1>7, <2>2, StepTidy DEF Typed
  <1>. QED  BY <1>1, <1>2, <1>3, <1>4, <1>5, <1>6, <1>8 DEF Ticked, in

(* What an event leaves: the levels typed, and the parcels as one event may *)
(* disturb them.                                                           *)
LEMMA EventEffect ==
  ASSUME Tidy(scene), inputs \in [Buttons -> BOOLEAN], QuietEvent \/ Disturbance
  PROVE  /\ inputs' \in [Buttons -> BOOLEAN]
         /\ scene' \in Scenes /\ Disturbed(scene, scene')
         /\ QuietEvent => scene' = scene \/ \E i \in Parcels : Born(scene, i, scene')
  <1>1. inputs' \in [Buttons -> BOOLEAN]
    BY DEF QuietEvent, Disturbance, Press, Release, SetEstop, SpawnParcel, InjectJam,
           ClearJamEvent, Buttons
  <1>2. \/ scene' = scene \/ scene' = ClearJam(scene)
        \/ CanSpawn(scene) /\ \E d \in {ToA, ToB} : scene' = Spawn(scene, d)
        \/ \E i \in OnLine(scene) : scene' = Stick(scene, i)
    BY DEF QuietEvent, Disturbance, Press, Release, SetEstop, SpawnParcel, InjectJam,
           ClearJamEvent
  <1>3. QuietEvent => scene' = scene \/ \E i \in Parcels : Born(scene, i, scene')
    <2>1. QuietEvent =>
            \/ scene' = scene
            \/ CanSpawn(scene) /\ \E d \in {ToA, ToB} : scene' = Spawn(scene, d)
      BY DEF QuietEvent, Press, Release, SpawnParcel
    <2>. QED  BY <2>1, SpawnEffect
  <1>. QED  BY <1>1, <1>2, <1>3, EventsDisturb

LEMMA CellEvent ==
  ASSUME Typed, Event
  PROVE  /\ inputs' \in [Buttons -> BOOLEAN]
         /\ scene' \in Scenes /\ Disturbed(scene, scene') /\ Tidy(scene')
         /\ UNCHANGED <<plc, out, crowded, voided>>
         /\ \/ /\ calm' = FALSE
            \/ /\ calm' = calm /\ QuietEvent
               /\ scene' = scene \/ \E i \in Parcels : Born(scene, i, scene')
  <1>1. QuietEvent \/ Disturbance
    BY DEF Event
  <1>2. /\ inputs' \in [Buttons -> BOOLEAN]
        /\ scene' \in Scenes /\ Disturbed(scene, scene')
        /\ QuietEvent => scene' = scene \/ \E i \in Parcels : Born(scene, i, scene')
    BY <1>1, EventEffect DEF Typed
  <1>3. Tidy(scene')
    BY <1>2, DisturbedTidy DEF Typed
  <1>4. /\ UNCHANGED <<plc, out, crowded, voided>>
        /\ calm' = FALSE \/ (calm' = calm /\ QuietEvent)
    BY DEF Event
  <1>. QED  BY <1>2, <1>3, <1>4

LEMMA TypedInvariance == Spec => []Typed
  <1>1. Init => Typed
    <2>1. OutputsOff.jam = InitialState.jam
      BY DEF InitialState, OutputsOff
    <2>. QED  BY <2>1, EmptyIsTidy, ScanStarts DEF Init, Typed
  <1>2. Typed /\ [Next]_vars => Typed'
    <2> SUFFICES ASSUME Typed, [Next]_vars PROVE Typed'
      OBVIOUS
    <2>1. CASE UNCHANGED vars
      BY <2>1 DEF vars, Typed
    <2>2. CASE Tick
      <3>1. /\ Ticked /\ Tidy(scene') /\ plc' \in ControlState /\ Coherent(plc')
        BY <2>2, TickEffect
      <3>2. crowded' \in BOOLEAN
        BY <2>2 DEF Tick
      <3>3. voided' \subseteq Parcels
        BY <2>2 DEF Tick, Zone, OnLine, At, Typed
      <3>. QED  BY <3>1, <3>2, <3>3 DEF Ticked, Typed
    <2>3. CASE Event
      BY <2>3, CellEvent DEF Typed
    <2>. QED  BY <2>1, <2>2, <2>3 DEF Next
  <1>. QED  BY <1>1, <1>2, PTL DEF Spec

(* Whatever the scenario does, the plant stays a plant, the jam timer and  *)
(* the counters keep their width, and the outputs are a scan's outputs.    *)
THEOREM TypeCorrect == Spec => []TypeOK
  <1>1. Typed => TypeOK
    BY DEF Typed, Tidy, TypeOK
  <1>. QED  BY <1>1, TypedInvariance, PTL

-----------------------------------------------------------------------------
(* The counters and the chutes.  A decision whose parcel has left the eye  *)
(* is as good as counted: the parcel is in the chute, or was taken.        *)
ChuteOf(c) == IF c = ChuteA THEN "chuteA" ELSE "chuteB"
CountOf(s, c) == IF c = ChuteA THEN s.countA ELSE s.countB
Owed(c) == IF plc.pending = c /\ AtEye(scene) = {} THEN 1 ELSE 0

NeverAhead(c) ==
  CountOf(plc, c) + Owed(c)
    <= Cardinality(At(scene, ChuteOf(c))) + Cardinality(At(scene, "removed"))

LEMMA PlacesAreFinite ==
  ASSUME NEW sc, NEW a, NEW b
  PROVE  /\ IsFiniteSet(At(sc, a)) /\ Cardinality(At(sc, a)) \in Nat
         /\ a # b => Cardinality(At(sc, a)) + Cardinality(At(sc, b)) <= MaxParcels
  <1>2. /\ IsFiniteSet(At(sc, a)) /\ Cardinality(At(sc, a)) \in Nat
        /\ IsFiniteSet(At(sc, b)) /\ Cardinality(At(sc, b)) \in Nat
    BY ParcelsAreFinite DEF At
  <1>3. ASSUME a # b
        PROVE  Cardinality(At(sc, a)) + Cardinality(At(sc, b)) <= MaxParcels
    <2>1. At(sc, a) \cap At(sc, b) = {}
      BY <1>3 DEF At
    <2>2. Cardinality(At(sc, a) \cup At(sc, b))
            = Cardinality(At(sc, a)) + Cardinality(At(sc, b))
      <3>1. Cardinality(At(sc, a) \cap At(sc, b)) = 0
        BY <2>1, FS_EmptySet
      <3>2. Cardinality(At(sc, a) \cup At(sc, b))
              = Cardinality(At(sc, a)) + Cardinality(At(sc, b))
                - Cardinality(At(sc, a) \cap At(sc, b))
        BY <1>2, FS_Union
      <3>. QED  BY <1>2, <3>1, <3>2
    <2>3. At(sc, a) \cup At(sc, b) \in SUBSET Parcels
      BY DEF At
    <2>. QED  BY <2>2, <2>3, ParcelsAreFinite
  <1>. QED  BY <1>2, <1>3

LEMMA PlacesGrow ==
  ASSUME NEW sc, NEW r, NEW a, At(sc, a) \subseteq At(r, a)
  PROVE  /\ Cardinality(At(sc, a)) <= Cardinality(At(r, a))
         /\ \A i \in At(r, a) \ At(sc, a) :
              Cardinality(At(sc, a)) + 1 <= Cardinality(At(r, a))
  <1>1. IsFiniteSet(At(sc, a)) /\ IsFiniteSet(At(r, a)) /\ Cardinality(At(sc, a)) \in Nat
    BY PlacesAreFinite
  <1>2. Cardinality(At(sc, a)) <= Cardinality(At(r, a))
    BY <1>1, FS_Subset
  <1>3. ASSUME NEW i \in At(r, a) \ At(sc, a)
        PROVE  Cardinality(At(sc, a)) + 1 <= Cardinality(At(r, a))
    <2>1. Cardinality(At(sc, a) \cup {i}) = Cardinality(At(sc, a)) + 1
      BY <1>1, FS_AddElement
    <2>2. At(sc, a) \cup {i} \in SUBSET At(r, a)
      OBVIOUS
    <2>. QED  BY <1>1, <2>1, <2>2, FS_Subset
  <1>. QED  BY <1>2, <1>3

(* A tick takes nothing out of a chute or off the line, and puts into the  *)
(* chute the diverter shows what leaves the eye.                           *)
LEMMA TickMoves ==
  ASSUME Typed, Tick
  PROVE  /\ At(scene', "removed") = At(scene, "removed")
         /\ At(scene, "chuteA") \subseteq At(scene', "chuteA")
         /\ At(scene, "chuteB") \subseteq At(scene', "chuteB")
         /\ \A i \in AtEye(scene) \ AtEye(scene') :
              /\ plc'.running
              /\ scene'.parcel[i].place = IF out'.divert THEN "chuteA" ELSE "chuteB"
              /\ scene.parcel[i].place = "line"
         /\ \A i \in Parcels : scene'.parcel[i].place # scene.parcel[i].place =>
              i \in AtEye(scene) \ AtEye(scene')
  <1>1. /\ Ticked /\ plc'.running \in BOOLEAN /\ out'.divert \in BOOLEAN
    BY TickEffect DEF Ticked, ControlState, OutputStates
  <1>2. ASSUME NEW i \in Parcels
        PROVE  /\ i \in AtEye(scene) =>
                    \/ i \in AtEye(scene')
                    \/ /\ plc'.running
                       /\ scene'.parcel[i].place = IF out'.divert THEN "chuteA" ELSE "chuteB"
               /\ scene'.parcel[i].place # scene.parcel[i].place =>
                    /\ i \in AtEye(scene) /\ plc'.running
                    /\ scene'.parcel[i].place = IF out'.divert THEN "chuteA" ELSE "chuteB"
    <2>1. Moved(scene, plc'.running, out'.divert, scene') /\ scene' \in Scenes /\ Tidy(scene)
      BY <1>1 DEF Ticked, Typed
    <2>. QED  BY <1>1, <2>1, MovesAtEye
  <1>. QED  BY <1>2 DEF At, AtEye, OnLine

LEMMA NeverAheadTick ==
  ASSUME Typed, Tick, NEW c \in {ChuteA, ChuteB}, NeverAhead(c)
  PROVE  NeverAhead(c)'
  <1> DEFINE n == Cardinality(At(scene, ChuteOf(c)))
             m == Cardinality(At(scene', ChuteOf(c)))
             k == Cardinality(At(scene, "removed"))
             x == CountOf(plc, c)
             y == CountOf(plc', c)
  <1>1. /\ Ticked /\ plc' \in ControlState /\ Coherent(plc')
        /\ Scanned(plc, Written, plc') /\ ScannedClosely(plc, Written, plc')
        /\ Written.pe2 <=> AtEye(scene) # {}
        /\ plc \in ControlState
    BY TickEffect DEF Ticked, Typed
  <1>2. /\ n \in Nat /\ k \in Nat /\ m \in Nat /\ n <= m /\ n + k <= MaxParcels
        /\ Cardinality(At(scene', "removed")) = k
        /\ \A i \in At(scene', ChuteOf(c)) \ At(scene, ChuteOf(c)) : n + 1 <= m
    <2>1. At(scene, ChuteOf(c)) \subseteq At(scene', ChuteOf(c))
      BY TickMoves DEF ChuteOf
    <2>2. ChuteOf(c) # "removed"
      BY DEF ChuteOf
    <2>3. n \in Nat /\ k \in Nat /\ m \in Nat /\ n + k <= MaxParcels
      BY <2>2, PlacesAreFinite
    <2>4. n <= m /\ \A i \in At(scene', ChuteOf(c)) \ At(scene, ChuteOf(c)) : n + 1 <= m
      BY <2>1, PlacesGrow
    <2>. QED  BY <2>3, <2>4, TickMoves
  <1>3. /\ x \in Nat /\ y \in Nat
        /\ NoDecision # c /\ CounterModulus > MaxParcels
        /\ CounterModulus \in Nat /\ MaxParcels \in Nat
    BY <1>1, ScanAssumption, SceneAssumption, CellAssumption
       DEF CountOf, ControlState, NoDecision, ChuteA, ChuteB
  <1>4. CountsUnchanged(plc, plc') => y = x
    BY DEF CountsUnchanged, CountOf
  <1>5. Delivers(plc, plc') => IF plc.pending = c THEN y = (x + 1) % CounterModulus ELSE y = x
    <2>1. plc.pending \in {ChuteA, ChuteB} \/ plc.pending = NoDecision
      BY <1>1 DEF ControlState
    <2>. QED  BY <2>1 DEF Delivers, CountOf, ChuteA, ChuteB
  <1>6. Owed(c) \in {0, 1} /\ Owed(c)' \in {0, 1} /\ x + Owed(c) <= n + k
    BY DEF Owed, NeverAhead
  <1>7. /\ plc.pending = c /\ AtEye(scene) = {} => Owed(c) = 1
        /\ Owed(c)' = 1 => plc'.pending = c /\ AtEye(scene') = {}
    BY DEF Owed
  <1> HIDE DEF n, m, k, x, y
  <1>8. y + Owed(c)' <= m + k
    <2>1. CASE Owed(c)' = 1 /\ plc'.running
      <3>1. AtEye(scene) # {}
        BY <1>1, <1>3, <1>7, <2>1 DEF Coherent, Scanned
      <3>2. PICK i \in AtEye(scene) : TRUE
        BY <3>1
      <3>3. out'.divert <=> plc'.pending = ChuteA
        BY <1>1, <1>3, <1>7, <2>1 DEF Coherent, Ticked
      <3>4. i \in At(scene', ChuteOf(c)) \ At(scene, ChuteOf(c))
        <4>1. /\ scene'.parcel[i].place = IF out'.divert THEN "chuteA" ELSE "chuteB"
              /\ scene.parcel[i].place = "line" /\ i \in Parcels
          BY <1>7, <2>1, TickMoves DEF AtEye, OnLine, At
        <4>. QED  BY <1>7, <2>1, <3>3, <4>1 DEF At, ChuteOf, ChuteA, ChuteB
      <3>5. n + 1 <= m
        BY <1>2, <3>4
      <3>6. y = x
        BY <1>1, <1>3, <1>4, <1>7, <2>1 DEF Scanned, Delivers
      <3>. QED  BY <1>2, <1>3, <1>6, <2>1, <3>5, <3>6
    <2>2. CASE Owed(c)' = 1 /\ ~plc'.running
      <3>1. plc'.jam /\ plc.pending = c
        BY <1>1, <1>3, <1>7, <2>2 DEF Coherent, Scanned
      <3>2. AtEye(scene) = {}
        BY <1>7, <2>2, TickMoves
      <3>3. y = x
        BY <1>1, <1>4, <3>1 DEF Scanned, Delivers
      <3>. QED  BY <1>2, <1>3, <1>6, <1>7, <2>2, <3>1, <3>2, <3>3
    <2>3. CASE Owed(c)' = 0 /\ CountsUnchanged(plc, plc')
      BY <1>2, <1>3, <1>4, <1>6, <2>3
    <2>4. CASE Owed(c)' = 0 /\ ~CountsUnchanged(plc, plc')
      <3>1. Delivers(plc, plc') /\ AtEye(scene) = {}
        BY <1>1, <2>4 DEF Scanned, ScannedClosely
      <3>2. CASE plc.pending = c
        <4>1. x + 1 <= n + k /\ x + 1 < CounterModulus
          BY <1>2, <1>3, <1>6, <1>7, <3>1, <3>2
        <4>2. y = x + 1
          BY <1>3, <1>5, <3>1, <3>2, <4>1
        <4>. QED  BY <1>2, <1>3, <2>4, <4>1, <4>2
      <3>3. CASE plc.pending # c
        BY <1>2, <1>3, <1>5, <1>6, <2>4, <3>1, <3>3
      <3>. QED  BY <3>2, <3>3
    <2>. QED  BY <1>6, <2>1, <2>2, <2>3, <2>4
  <1>. QED  BY <1>2, <1>8 DEF NeverAhead, m, y

LEMMA NeverAheadEvent ==
  ASSUME Typed, Event, NEW c \in {ChuteA, ChuteB}, NeverAhead(c)
  PROVE  NeverAhead(c)'
  <1> DEFINE n == Cardinality(At(scene, ChuteOf(c)))
             k == Cardinality(At(scene, "removed"))
             l == Cardinality(At(scene', "removed"))
             x == CountOf(plc, c)
  <1>1. /\ plc' = plc /\ scene' \in Scenes /\ Disturbed(scene, scene')
        /\ Tidy(scene) /\ x \in Nat
    <2>1. plc' = plc /\ scene' \in Scenes /\ Disturbed(scene, scene')
      BY CellEvent
    <2>2. plc.countA \in Nat /\ plc.countB \in Nat
      BY ScanAssumption DEF Typed, ControlState
    <2>. QED  BY <2>1, <2>2 DEF Typed, CountOf
  <1>2. At(scene', ChuteOf(c)) = At(scene, ChuteOf(c))
    <2>1. \A i \in Parcels : scene'.parcel[i].place = ChuteOf(c)
                              <=> scene.parcel[i].place = ChuteOf(c)
      BY <1>1, DisturbedAtEye DEF ChuteOf
    <2>. QED  BY <2>1 DEF At
  <1>3. /\ n \in Nat /\ k \in Nat /\ l \in Nat /\ k <= l
        /\ \A i \in At(scene', "removed") \ At(scene, "removed") : k + 1 <= l
    <2>1. At(scene, "removed") \subseteq At(scene', "removed")
      BY <1>1, DisturbedAtEye DEF At
    <2>2. n \in Nat /\ k \in Nat /\ l \in Nat
      BY PlacesAreFinite
    <2>. QED  BY <2>1, <2>2, PlacesGrow
  <1>4. /\ Owed(c) \in {0, 1} /\ Owed(c)' \in {0, 1}
        /\ x + Owed(c) <= n + k
    BY DEF Owed, NeverAhead
  <1> HIDE DEF n, k, l, x
  <1>5. CASE Owed(c)' = 1 /\ Owed(c) = 0
    <2>1. AtEye(scene') = {} /\ AtEye(scene) # {}
      BY <1>1, <1>5 DEF Owed
    <2>2. PICK i \in AtEye(scene) : TRUE
      BY <2>1
    <2>3. i \in Parcels /\ scene.parcel[i].place = "line" /\ scene.parcel[i].pos >= Pe2
      BY DEF AtEye, OnLine, At
    <2>4. i \in At(scene', "removed") \ At(scene, "removed")
      <3>1. \/ /\ scene'.parcel[i].place = "line"
               /\ scene'.parcel[i].pos = scene.parcel[i].pos
            \/ scene'.parcel[i].place = "removed"
        BY <1>1, <2>3, DisturbedAtEye
      <3>. QED  BY <2>1, <2>3, <3>1 DEF AtEye, OnLine, At
    <2>. QED  BY <1>1, <1>2, <1>3, <1>4, <1>5, <2>4 DEF NeverAhead, n, k, l, x
  <1>6. CASE ~(Owed(c)' = 1 /\ Owed(c) = 0)
    <2>1. x + Owed(c)' <= n + l
      BY <1>1, <1>3, <1>4, <1>6
    <2>. QED  BY <1>1, <1>2, <2>1 DEF NeverAhead, n, l, x
  <1>. QED  BY <1>5, <1>6

LEMMA NeverAheadInvariance == Spec => [](Typed /\ NeverAhead(ChuteA) /\ NeverAhead(ChuteB))
  <1> DEFINE Inv == Typed /\ NeverAhead(ChuteA) /\ NeverAhead(ChuteB)
  <1>1. Init => NeverAhead(ChuteA) /\ NeverAhead(ChuteB)
    <2> SUFFICES ASSUME Init, NEW c \in {ChuteA, ChuteB} PROVE NeverAhead(c)
      OBVIOUS
    <2>1. CountOf(plc, c) = 0 /\ Owed(c) = 0
      BY DEF Init, InitialState, CountOf, Owed, NoDecision, ChuteA, ChuteB
    <2>2. /\ Cardinality(At(scene, ChuteOf(c))) \in Nat
          /\ Cardinality(At(scene, "removed")) \in Nat
      BY PlacesAreFinite
    <2>. QED  BY <2>1, <2>2 DEF NeverAhead
  <1>2. Typed /\ NeverAhead(ChuteA) /\ NeverAhead(ChuteB) /\ [Next]_vars
          => NeverAhead(ChuteA)' /\ NeverAhead(ChuteB)'
    <2> SUFFICES ASSUME Typed, [Next]_vars, NEW c \in {ChuteA, ChuteB}, NeverAhead(c)
                 PROVE  NeverAhead(c)'
      OBVIOUS
    <2>1. CASE UNCHANGED vars
      BY <2>1 DEF vars, NeverAhead, Owed
    <2>. QED  BY <2>1, NeverAheadTick, NeverAheadEvent DEF Next
  <1>. QED  BY <1>1, <1>2, TypedInvariance, PTL DEF Spec

(* The counters never run ahead of the plant, whatever is pressed, stuck   *)
(* or removed, and whenever.                                               *)
THEOREM CountersFollowThePlant == Spec => []CountersNeverAhead
  <1>1. Typed /\ NeverAhead(ChuteA) /\ NeverAhead(ChuteB) => CountersNeverAhead
    <2> SUFFICES ASSUME Typed, NeverAhead(ChuteA), NeverAhead(ChuteB)
                 PROVE  CountersNeverAhead
      OBVIOUS
    <2>1. /\ Owed(ChuteA) \in {0, 1} /\ Owed(ChuteB) \in {0, 1}
          /\ plc.countA \in Nat /\ plc.countB \in Nat
          /\ CountOf(plc, ChuteA) = plc.countA /\ CountOf(plc, ChuteB) = plc.countB
          /\ ChuteOf(ChuteA) = "chuteA" /\ ChuteOf(ChuteB) = "chuteB"
      BY ScanAssumption DEF Owed, Typed, ControlState, CountOf, ChuteOf, ChuteA, ChuteB
    <2>2. /\ Cardinality(At(scene, "removed")) \in Nat
          /\ Cardinality(At(scene, "chuteA")) \in Nat
          /\ Cardinality(At(scene, "chuteB")) \in Nat
      BY PlacesAreFinite
    <2>. QED  BY <2>1, <2>2 DEF NeverAhead, CountersNeverAhead
  <1>. QED  BY <1>1, NeverAheadInvariance, PTL

-----------------------------------------------------------------------------
(* Routing.  While the zone holds one parcel at a time, the destination    *)
(* published is that parcel's, and so is the decision taken at the eye.    *)
ZoneInv ==
  ~crowded => \A i \in Zone : /\ scene.published = scene.parcel[i].dest
                             /\ \A j \in Zone : j = i

DecisionInv ==
  ~crowded /\ plc.prevPe2 =>
    \A i \in AtEye(scene) : DecidedFor(plc, scene.parcel[i].dest, i \in voided)

RoutingInv ==
  /\ Arrivals(scene, plc) /\ ZoneInv /\ DecisionInv
  /\ RoutedAsScanned

(* A tick brings a parcel to the zone by scanning it, and to the eye out   *)
(* of the zone.                                                            *)
LEMMA TickInZone ==
  ASSUME Typed, Tick, NEW i \in Parcels
  PROVE  /\ i \in AtEye(scene) \/ i \in AtEye(scene') => i \in Zone
         /\ i \in Zone' => i \in Zone \/ i \in Crossing(scene, plc'.running)
         /\ i \in Crossing(scene, plc'.running) => i \in Zone'
         /\ scene'.parcel[i].dest = scene.parcel[i].dest
  <1> DEFINE p == scene.parcel[i]
             q == scene'.parcel[i]
             m == plc'.running
  <1>1. /\ Ticked /\ Tidy(scene') /\ m \in BOOLEAN /\ out'.divert \in BOOLEAN
    BY TickEffect DEF Ticked, ControlState, OutputStates
  <1>2. /\ MovedTo(p, m, out'.divert, q) /\ TidyParcel(p) /\ p \in ParcelRecords
    BY <1>1 DEF Ticked, Moved, Typed, Tidy, TidyParcel
  <1>3. i \in AtEye(scene') =>
          i \in AtEye(scene) \/ (p.place = "line" /\ p.pos = Pe2 - 1)
    BY <1>1, MovesAtEye DEF Ticked, Typed
  <1>4. /\ p.pos \in Nat /\ Pe1 \in Nat /\ Pe2 \in Nat /\ Divert \in Nat
        /\ Pe1 < Pe2 /\ Pe2 < Divert
    BY <1>2, SceneAssumption DEF ParcelRecords
  <1>5. /\ i \in Zone <=> p.place = "line" /\ p.pos >= Pe1
        /\ i \in Zone' <=> q.place = "line" /\ q.pos >= Pe1
        /\ i \in AtEye(scene) <=> p.place = "line" /\ p.pos >= Pe2
    BY DEF Zone, AtEye, OnLine, At
  <1>6. i \in Crossing(scene, m) <=>
          p.place = "line" /\ ~p.scanned /\ Where(p, m) >= Pe1
    BY <1>1, CrossingIs DEF Typed, Tidy
  <1> HIDE DEF p, q, m
  <1>7. i \in AtEye(scene) \/ i \in AtEye(scene') => i \in Zone
    BY <1>3, <1>4, <1>5
  <1>8. i \in Zone' => i \in Zone \/ i \in Crossing(scene, m)
    BY <1>2, <1>4, <1>5, <1>6 DEF MovedTo, TidyParcel, Where
  <1>9. i \in Crossing(scene, m) => i \in Zone'
    <2> SUFFICES ASSUME i \in Crossing(scene, m) PROVE i \in Zone'
      OBVIOUS
    <2>1. p.place = "line" /\ p.pos < Pe1 /\ Where(p, m) >= Pe1
      BY <1>2, <1>4, <1>6 DEF TidyParcel
    <2>2. ~(Where(p, m) >= Divert)
      BY <1>4, <2>1 DEF Where
    <2>. QED  BY <1>2, <1>5, <2>1, <2>2 DEF MovedTo
  <1>10. q.dest = p.dest
    BY <1>2 DEF MovedTo
  <1>. QED  BY <1>7, <1>8, <1>9, <1>10 DEF p, q, m

LEMMA ZoneStep ==
  ASSUME Typed, Tick, ZoneInv
  PROVE  ZoneInv' /\ (crowded => crowded')
  <1>1. crowded' = (crowded \/ Cardinality(Zone') > 1)
    BY DEF Tick
  <1> SUFFICES ASSUME ~crowded', NEW i \in Zone'
               PROVE  /\ scene'.published = scene'.parcel[i].dest
                      /\ \A j \in Zone' : j = i
    BY <1>1 DEF ZoneInv
  <1>2. ~crowded /\ ~(Cardinality(Zone') > 1)
    BY <1>1
  <1>4. ASSUME NEW j \in Zone', j # i PROVE FALSE
    <2>1. Zone' \in SUBSET Parcels
      BY DEF Zone, OnLine, At
    <2>. QED  BY <1>2, <1>4, <2>1, AloneInSet
  <1>5. i \in Parcels
    BY DEF Zone, OnLine, At
  <1>6. scene'.published = scene'.parcel[i].dest
    <2> DEFINE X == Crossing(scene, plc'.running)
    <2>0. X \in SUBSET Parcels
      <3>1. plc'.running \in BOOLEAN /\ scene \in Scenes
        BY TickEffect DEF ControlState, Typed, Tidy
      <3>. QED  BY <3>1, CrossingIs
    <2>1. /\ X = {} => scene'.published = scene.published
          /\ X # {} => \E k \in X : scene'.published = scene.parcel[k].dest
      BY TickEffect DEF Ticked, Moved
    <2>2. CASE X = {}
      BY <1>2, <1>5, <2>1, <2>2, TickInZone DEF ZoneInv
    <2>3. CASE X # {}
      <3>1. PICK k \in X : scene'.published = scene.parcel[k].dest
        BY <2>1, <2>3
      <3>2. k \in Parcels /\ k \in Zone'
        BY <2>0, TickInZone
      <3>3. k = i
        BY <1>4, <3>2
      <3>. QED  BY <1>5, <3>1, <3>3, TickInZone
    <2>. QED  BY <2>2, <2>3
  <1>. QED  BY <1>4, <1>6

(* The scan of a tick decides for the parcel it sees at the eye.           *)
LEMMA TickDecides ==
  ASSUME Typed, Tick, Arrivals(scene, plc), ZoneInv, DecisionInv, ~crowded,
         NEW i \in AtEye(scene)
  PROVE  /\ DecidedFor(plc', scene.parcel[i].dest, i \in voided')
         /\ plc'.divert => scene.parcel[i].dest = ToA
         /\ ~plc'.divert => scene.parcel[i].dest = ToB \/ i \in voided'
  <1> DEFINE in == Written
             d == scene.parcel[i].dest
  <1>1. /\ in \in ScanInputs /\ in.pe2 /\ plc' \in ControlState
        /\ Scanned(plc, in, plc') /\ ScannedClosely(plc, in, plc')
        /\ plc \in ControlState /\ Coherent(plc)
    BY TickEffect DEF Ticked, Typed
  <1>2. i \in Parcels /\ i \in OnLine(scene) /\ i \in Zone
    BY TickInZone DEF AtEye, OnLine, At
  <1>3. d \in {ToA, ToB}
    BY <1>2 DEF Typed, Tidy, TidyParcel, ParcelRecords
  <1>4. ~plc.prevPe2 => plc.running /\ plc.jamTimer = 0 /\ in.dest = d
    BY <1>2 DEF Arrivals, ZoneInv, Written
  <1>5. plc.prevPe2 => DecidedFor(plc, d, i \in voided)
    BY DEF DecisionInv
  <1>6. i \notin voided' =>
          i \notin voided /\ plc'.running /\ ~in.stop /\ ~ResetEdge(plc, in)
    <2>1. Blocks(scene, i, Pe2)
      BY <1>2, EyeSees, CellAssumption DEF Typed
    <2>2. out'.motor = plc'.running
      BY TickEffect DEF Ticked
    <2>3. voided' = IF ~out'.motor \/ in.stop \/ ResetEdge(plc, in)
                    THEN voided \cup {h \in Zone : Blocks(scene, h, Pe2)} ELSE voided
      BY DEF Tick
    <2> HIDE DEF in
    <2>. QED  BY <1>2, <2>1, <2>2, <2>3
  <1> HIDE DEF in, d
  <1> DEFINE v == i \in voided
             w == i \in voided'
             r == plc'
  <1>7. /\ DecidedFor(r, d, w)
        /\ r.divert => d = ToA
        /\ ~r.divert => d = ToB \/ w
    <2>1. /\ plc.prevPe2 => DecidedFor(plc, d, v)
          /\ ~w => ~v /\ r.running /\ ~in.stop /\ ~ResetEdge(plc, in)
      BY <1>5, <1>6
    <2>2. /\ in \in ScanInputs /\ in.pe2 /\ r \in ControlState
          /\ Scanned(plc, in, r) /\ ScannedClosely(plc, in, r)
          /\ plc \in ControlState /\ Coherent(plc)
      BY <1>1
    <2>3. v \in BOOLEAN /\ w \in BOOLEAN
      OBVIOUS
    <2> HIDE DEF v, w, r
    <2>. QED  BY <1>3, <1>4, <2>1, <2>2, <2>3, DecisionStep
  <1>. QED  BY <1>7 DEF d

LEMMA RoutingTick ==
  ASSUME Typed, Tick, RoutingInv
  PROVE  RoutingInv'
  <1>1. /\ Arrivals(scene, plc) /\ ZoneInv /\ DecisionInv /\ RoutedAsScanned
    BY DEF RoutingInv
  <1>2. ZoneInv' /\ (~crowded' => ~crowded)
    BY <1>1, ZoneStep
  <1>3. Arrivals(scene, plc)'
    <2>1. /\ Ticked /\ plc' \in ControlState /\ out'.divert \in BOOLEAN /\ Tidy(scene)
      BY TickEffect DEF Ticked, OutputStates, Typed
    <2>2. Arrivals(scene', plc')
      BY <2>1, ArrivalsStep DEF Ticked
    <2>. QED  BY <2>2 DEF Arrivals
  <1>4. DecisionInv'
    <2> SUFFICES ASSUME ~crowded', plc'.prevPe2, NEW i \in AtEye(scene')
                 PROVE  DecidedFor(plc', scene'.parcel[i].dest, i \in voided')
      BY DEF DecisionInv
    <2>1. AtEye(scene) # {}
      BY TickEffect DEF Ticked, Scanned
    <2>2. PICK h \in AtEye(scene) : TRUE
      BY <2>1
    <2>3. i \in Parcels /\ h \in Parcels
      BY DEF AtEye, OnLine, At
    <2>4. i = h /\ scene'.parcel[i].dest = scene.parcel[i].dest
      BY <1>1, <1>2, <2>3, TickInZone DEF ZoneInv
    <2>. QED  BY <1>1, <1>2, <2>4, TickDecides
  <1>5. RoutedAsScanned'
    <2> SUFFICES ASSUME ~crowded', NEW i \in Parcels
                 PROVE  /\ scene'.parcel[i].place = "chuteA" => scene'.parcel[i].dest = ToA
                        /\ scene'.parcel[i].place = "chuteB" =>
                             scene'.parcel[i].dest = ToB \/ i \in voided'
      BY DEF RoutedAsScanned, At
    <2>1. voided \subseteq voided'
      BY DEF Tick
    <2>2. scene'.parcel[i].dest = scene.parcel[i].dest
      BY TickInZone
    <2>3. CASE scene'.parcel[i].place = scene.parcel[i].place
      BY <1>1, <1>2, <2>1, <2>2, <2>3 DEF RoutedAsScanned, At
    <2>4. CASE scene'.parcel[i].place # scene.parcel[i].place
      <3>1. i \in AtEye(scene) \ AtEye(scene')
        BY <2>4, TickMoves
      <3>2. plc'.running /\ scene'.parcel[i].place = IF out'.divert THEN "chuteA" ELSE "chuteB"
        BY <3>1, TickMoves
      <3>3. out'.divert <=> plc'.divert
        BY <3>2, TickEffect DEF Ticked
      <3>. QED  BY <1>1, <1>2, <2>2, <3>1, <3>2, <3>3, TickDecides
    <2>. QED  BY <2>3, <2>4
  <1>. QED  BY <1>2, <1>3, <1>4, <1>5 DEF RoutingInv

(* An event brings nothing into the zone, and takes nothing into a chute.  *)
LEMMA EventAtEye ==
  ASSUME Typed, Event, NEW i \in Parcels
  PROVE  /\ i \in AtEye(scene') => i \in AtEye(scene)
         /\ i \in Zone' => i \in Zone
         /\ i \in Zone => scene'.parcel[i].dest = scene.parcel[i].dest
         /\ scene'.parcel[i].place \in {"chuteA", "chuteB"} =>
              scene'.parcel[i].place = scene.parcel[i].place
              /\ scene'.parcel[i].dest = scene.parcel[i].dest
         /\ scene'.published = scene.published
  <1>1. scene' \in Scenes /\ Disturbed(scene, scene') /\ Tidy(scene)
    BY CellEvent DEF Typed
  <1>2. ~(0 >= Pe1) /\ ~(0 >= Pe2)
    BY SceneAssumption
  <1>3. /\ scene'.parcel[i].place = "line" =>
             \/ scene.parcel[i].place = "unborn" /\ scene'.parcel[i].pos = 0
             \/ /\ scene.parcel[i].place = "line"
                /\ scene'.parcel[i].pos = scene.parcel[i].pos
        /\ scene.parcel[i].place = "line" =>
             scene'.parcel[i].dest = scene.parcel[i].dest
        /\ scene'.parcel[i].place # "line" =>
             scene'.parcel[i].dest = scene.parcel[i].dest
        /\ scene'.parcel[i].place \in {"chuteA", "chuteB"} =>
             scene'.parcel[i].place = scene.parcel[i].place
    BY <1>1, DisturbedAtEye
  <1>4. scene'.published = scene.published
    BY <1>1 DEF Disturbed
  <1>. QED  BY <1>2, <1>3, <1>4 DEF AtEye, Zone, OnLine, At

LEMMA RoutingEvent ==
  ASSUME Typed, Event, RoutingInv
  PROVE  RoutingInv'
  <1>1. UNCHANGED <<plc, crowded, voided>>
    BY CellEvent
  <1>2. Arrivals(scene, plc)'
    <2>1. \A i \in AtEye(scene') : i \in AtEye(scene)
      BY EventAtEye DEF AtEye, OnLine, At
    <2>. QED  BY <1>1, <2>1 DEF RoutingInv, Arrivals
  <1>3. ZoneInv'
    <2>1. \A i \in Zone' : /\ i \in Zone /\ scene'.published = scene.published
                           /\ scene'.parcel[i].dest = scene.parcel[i].dest
      BY EventAtEye DEF Zone, OnLine, At
    <2>. QED  BY <1>1, <2>1 DEF RoutingInv, ZoneInv
  <1>4. DecisionInv'
    <2>1. \A i \in AtEye(scene') : /\ i \in AtEye(scene)
                                   /\ scene'.parcel[i].dest = scene.parcel[i].dest
      <3>1. \A i \in AtEye(scene') : i \in Parcels /\ i \in AtEye(scene)
        BY EventAtEye DEF AtEye, OnLine, At
      <3>2. \A i \in AtEye(scene) : scene.parcel[i].place = "line"
        BY DEF AtEye, OnLine, At
      <3>3. Tidy(scene) /\ scene' \in Scenes /\ Disturbed(scene, scene')
        BY CellEvent DEF Typed
      <3>. QED  BY <3>1, <3>2, <3>3, DisturbedAtEye
    <2>. QED  BY <1>1, <2>1 DEF RoutingInv, DecisionInv
  <1>5. RoutedAsScanned'
    BY <1>1, EventAtEye DEF RoutingInv, RoutedAsScanned, At
  <1>. QED  BY <1>2, <1>3, <1>4, <1>5 DEF RoutingInv

LEMMA RoutingInvariance == Spec => [](Typed /\ RoutingInv)
  <1>1. Init => RoutingInv
    <2> SUFFICES ASSUME Init PROVE RoutingInv
      OBVIOUS
    <2>1. \A i \in Parcels : scene.parcel[i].place = "unborn"
      BY DEF Init, EmptyScene, Unborn
    <2>. QED
      BY <2>1 DEF RoutingInv, Arrivals, ZoneInv, DecisionInv, RoutedAsScanned,
                  AtEye, Zone, OnLine, At
  <1>2. Typed /\ RoutingInv /\ [Next]_vars => RoutingInv'
    <2> SUFFICES ASSUME Typed, RoutingInv, [Next]_vars PROVE RoutingInv'
      OBVIOUS
    <2>1. CASE UNCHANGED vars
      BY <2>1 DEF vars, RoutingInv, Arrivals, ZoneInv, DecisionInv, RoutedAsScanned, Zone
    <2>. QED  BY <2>1, RoutingTick, RoutingEvent DEF Next
  <1>. QED  BY <1>1, <1>2, TypedInvariance, PTL DEF Spec

(* As long as the zone held one parcel at a time, no parcel for CHUTE_B    *)
(* was diverted, and one for CHUTE_A went straight on only if the line was *)
(* halted or reset while it was under the eye.                             *)
THEOREM ParcelsGoWhereScanned == Spec => []RoutedAsScanned
  <1>1. RoutingInv => RoutedAsScanned
    BY DEF RoutingInv
  <1>. QED  BY <1>1, RoutingInvariance, PTL

-----------------------------------------------------------------------------
(* The line nobody disturbed: no button but Start is down, nothing is      *)
(* stuck and nothing was taken off it.                                     *)
CalmInv ==
  calm => /\ ~inputs["stop"] /\ ~inputs["reset"] /\ ~inputs["estop"]
          /\ \A i \in Parcels : /\ ~scene.parcel[i].stuck
                                /\ scene.parcel[i].place # "removed"

(* If it kept its parcels apart too, the one at the eye moves with every   *)
(* scan that sees it, so the jam timer never gets ahead of its position.   *)
SteadyInv ==
  calm /\ ~crowded =>
    /\ ~plc.jam
    /\ \A i \in AtEye(scene) :
         /\ plc.running
         /\ plc.prevPe2 => /\ plc.pending = ChuteFor(scene.parcel[i].dest)
                           /\ plc.jamTimer <= scene.parcel[i].pos - Pe2

LEMMA CalmStep ==
  ASSUME Typed, [Next]_vars, CalmInv
  PROVE  CalmInv' /\ (calm' => calm)
  <1>1. CASE UNCHANGED vars
    BY <1>1 DEF vars, CalmInv
  <1>2. CASE Tick
    <2>1. /\ Ticked /\ plc'.running \in BOOLEAN /\ out'.divert \in BOOLEAN
          /\ inputs' = inputs /\ calm' = calm
      BY <1>2, TickEffect DEF Ticked, ControlState, OutputStates
    <2>2. ASSUME NEW i \in Parcels
          PROVE  /\ scene'.parcel[i].stuck => scene.parcel[i].stuck
                 /\ scene'.parcel[i].place = "removed" =>
                      scene.parcel[i].place = "removed"
      <3>1. /\ Moved(scene, plc'.running, out'.divert, scene') /\ scene' \in Scenes
            /\ Tidy(scene)
        BY <2>1 DEF Ticked, Typed
      <3>. QED  BY <2>1, <3>1, MovesAtEye
    <2>. QED  BY <2>1, <2>2 DEF CalmInv
  <1>3. CASE Event
    <2> SUFFICES ASSUME calm' PROVE CalmInv' /\ calm
      BY DEF CalmInv
    <2>1. /\ calm /\ QuietEvent
          /\ scene' = scene \/ \E i \in Parcels : Born(scene, i, scene')
      BY <1>3, CellEvent
    <2>2. ~inputs'["stop"] /\ ~inputs'["reset"] /\ ~inputs'["estop"]
      BY <2>1 DEF CalmInv, QuietEvent, Press, Release, SpawnParcel, Typed, Buttons
    <2>3. \A i \in Parcels : ~scene'.parcel[i].stuck /\ scene'.parcel[i].place # "removed"
      BY <2>1 DEF CalmInv, Born
    <2>. QED  BY <2>1, <2>2, <2>3 DEF CalmInv
  <1>. QED  BY <1>1, <1>2, <1>3 DEF Next

(* What a scan does on such a line: it keeps the motor on for the parcel   *)
(* at the eye, and decides for it.                                         *)
LEMMA SteadyScan ==
  ASSUME Typed, Tick, RoutingInv, CalmInv, SteadyInv, calm, ~crowded
  PROVE  /\ Untroubled(plc, Written) /\ ~plc'.jam
         /\ plc.running => plc'.running
         /\ \A i \in AtEye(scene) :
              /\ plc'.running /\ plc'.pending = ChuteFor(scene.parcel[i].dest)
              /\ plc'.jamTimer <= scene.parcel[i].pos + 1 - Pe2
  <1> DEFINE in == Written
  <1>1. /\ in \in ScanInputs /\ (in.pe2 <=> AtEye(scene) # {})
        /\ Scanned(plc, in, plc') /\ ScannedClosely(plc, in, plc')
        /\ plc \in ControlState /\ plc' \in ControlState
    BY TickEffect DEF Ticked, Typed
  <1>2. Untroubled(plc, in) /\ in.dest = scene.published
    BY DEF CalmInv, Untroubled, ResetEdge, Written
  <1>3. /\ plc.jamTimer \in Nat /\ plc'.jamTimer \in Nat
        /\ Pe2 \in Nat /\ Divert \in Nat /\ JamScanLimit \in Nat
        /\ JamScanLimit > 1 /\ JamScanLimit > Divert - Pe2
    BY <1>1, ScanAssumption, SceneAssumption, CellAssumption DEF ControlState
  <1>4. ASSUME NEW i \in AtEye(scene)
        PROVE  /\ plc.running
               /\ i \in Zone /\ scene.published = scene.parcel[i].dest
               /\ scene.parcel[i].pos \in Nat /\ scene.parcel[i].pos >= Pe2
               /\ scene.parcel[i].pos < Divert
               /\ plc.prevPe2 => plc.pending = ChuteFor(scene.parcel[i].dest)
               /\ plc.jamTimer <= scene.parcel[i].pos - Pe2
    <2>1. i \in Parcels /\ scene.parcel[i].pos >= Pe2
      BY DEF AtEye, OnLine, At
    <2>2. scene.parcel[i].pos \in Nat /\ scene.parcel[i].pos < Divert
      BY <2>1, <1>3 DEF Typed, Tidy, TidyParcel, ParcelRecords
    <2>3. i \in Zone /\ scene.published = scene.parcel[i].dest
      BY <2>1, TickInZone DEF RoutingInv, ZoneInv
    <2>4. CASE plc.prevPe2
      BY <2>1, <2>2, <2>3, <2>4 DEF SteadyInv
    <2>5. CASE ~plc.prevPe2
      <3>1. plc.running /\ plc.jamTimer = 0
        BY <2>5 DEF RoutingInv, Arrivals
      <3>2. 0 <= scene.parcel[i].pos - Pe2
        BY <1>3, <2>1, <2>2
      <3>. QED  BY <2>1, <2>2, <2>3, <2>5, <3>1, <3>2
    <2>. QED  BY <2>4, <2>5
  <1> HIDE DEF in
  <1>5. ~plc'.jam
    <2> SUFFICES ASSUME plc'.jam PROVE FALSE
      OBVIOUS
    <2>1. in.pe2 /\ plc.jamTimer + 1 >= JamScanLimit
      BY <1>1 DEF ScannedClosely, SteadyInv
    <2>2. PICK i \in AtEye(scene) : TRUE
      BY <1>1, <2>1
    <2>. QED  BY <1>3, <1>4, <2>1, <2>2
  <1>6. plc.running => plc'.running
    BY <1>1, <1>2, <1>5 DEF ScannedClosely, Untroubled
  <1>7. ASSUME NEW i \in AtEye(scene)
        PROVE  /\ plc'.running /\ plc'.pending = ChuteFor(scene.parcel[i].dest)
               /\ plc'.jamTimer <= scene.parcel[i].pos + 1 - Pe2
    <2>1. plc'.running /\ in.pe2
      BY <1>1, <1>4, <1>6
    <2>2. plc'.pending = ChuteFor(scene.parcel[i].dest)
      BY <1>1, <1>2, <1>4, <2>1 DEF ScannedClosely
    <2>3. plc'.jamTimer <= plc.jamTimer + 1
      BY <1>1 DEF ScannedClosely
    <2>. QED  BY <1>3, <1>4, <2>1, <2>2, <2>3
  <1>. QED  BY <1>2, <1>5, <1>6, <1>7 DEF in

LEMMA SteadyTick ==
  ASSUME Typed, Tick, RoutingInv, CalmInv, SteadyInv
  PROVE  SteadyInv'
  <1> SUFFICES ASSUME calm', ~crowded' PROVE SteadyInv'
    BY DEF SteadyInv
  <1>1. calm /\ ~crowded
    BY CalmStep, ZoneStep DEF RoutingInv, Next
  <1>2. /\ ~plc'.jam
        /\ \A i \in AtEye(scene) :
              /\ plc'.running /\ plc'.pending = ChuteFor(scene.parcel[i].dest)
              /\ plc'.jamTimer <= scene.parcel[i].pos + 1 - Pe2
    BY <1>1, SteadyScan
  <1>3. ASSUME NEW i \in AtEye(scene')
        PROVE  /\ plc'.running
               /\ plc'.prevPe2 => /\ plc'.pending = ChuteFor(scene'.parcel[i].dest)
                                  /\ plc'.jamTimer <= scene'.parcel[i].pos - Pe2
    <2>0. /\ Moved(scene, plc'.running, out'.divert, scene') /\ scene' \in Scenes
          /\ plc'.running \in BOOLEAN /\ out'.divert \in BOOLEAN /\ Tidy(scene)
          /\ plc'.prevPe2 <=> AtEye(scene) # {}
      BY TickEffect DEF Ticked, Typed, Scanned, ControlState, OutputStates
    <2>1. /\ i \in Parcels /\ scene'.parcel[i].place = "line"
      BY DEF AtEye, OnLine, At
    <2>2. CASE i \in AtEye(scene)
      <3>1. /\ scene'.parcel[i].dest = scene.parcel[i].dest
            /\ scene'.parcel[i].pos = Where(scene.parcel[i], plc'.running)
        <4>1. ~(scene'.parcel[i].place = IF out'.divert THEN "chuteA" ELSE "chuteB")
          BY <2>1
        <4>. QED  BY <2>0, <2>1, <2>2, <4>1, MovesAtEye
      <3>2. ~scene.parcel[i].stuck
        BY <1>1, <2>1 DEF CalmInv
      <3>3. scene'.parcel[i].pos = scene.parcel[i].pos + 1
        BY <1>2, <2>2, <3>1, <3>2 DEF Where
      <3>4. /\ plc'.running /\ plc'.pending = ChuteFor(scene.parcel[i].dest)
            /\ plc'.jamTimer <= scene.parcel[i].pos + 1 - Pe2
        BY <1>2, <2>2
      <3>5. plc'.jamTimer <= scene'.parcel[i].pos - Pe2
        <4>1. scene.parcel[i].pos \in Nat /\ Pe2 \in Nat /\ plc'.jamTimer \in Nat
          <5>1. plc' \in ControlState /\ scene.parcel[i] \in ParcelRecords
            BY <2>1, TickEffect DEF Typed, Tidy, TidyParcel
          <5>. QED  BY <5>1, SceneAssumption, ScanAssumption DEF ControlState, ParcelRecords
        <4> DEFINE a == scene.parcel[i].pos
                   b == scene'.parcel[i].pos
                   t == plc'.jamTimer
        <4>2. a \in Nat /\ t \in Nat /\ b = a + 1 /\ t <= a + 1 - Pe2
          BY <3>3, <3>4, <4>1
        <4> HIDE DEF a, b, t
        <4>3. t <= b - Pe2
          BY <4>1, <4>2
        <4>. QED  BY <4>3 DEF b, t
      <3>. QED  BY <3>1, <3>4, <3>5
    <2>3. CASE i \notin AtEye(scene)
      <3>1. plc'.running
        BY <2>0, <2>1, <2>3, MovesAtEye
      <3>2. ~plc'.prevPe2
        <4> SUFFICES ASSUME NEW h \in AtEye(scene) PROVE FALSE
          BY <2>0
        <4>1. h \in Parcels
          BY DEF AtEye, OnLine, At
        <4>2. h \in Zone /\ i \in Zone
          BY <2>1, <4>1, TickInZone
        <4>. QED  BY <1>1, <2>3, <4>2 DEF RoutingInv, ZoneInv
      <3>. QED  BY <3>1, <3>2
    <2>. QED  BY <2>2, <2>3
  <1>. QED  BY <1>2, <1>3 DEF SteadyInv

LEMMA SteadyEvent ==
  ASSUME Typed, Event, SteadyInv
  PROVE  SteadyInv'
  <1>1. /\ plc' = plc /\ crowded' = crowded
        /\ calm' => calm
        /\ Tidy(scene) /\ scene' \in Scenes /\ Disturbed(scene, scene')
    <2>1. calm' = FALSE \/ calm' = calm
      BY CellEvent
    <2>2. plc' = plc /\ crowded' = crowded /\ Disturbed(scene, scene') /\ scene' \in Scenes
      BY CellEvent
    <2>. QED  BY <2>1, <2>2 DEF Typed
  <1>2. ASSUME NEW i \in AtEye(scene')
        PROVE  /\ i \in AtEye(scene)
               /\ scene'.parcel[i].dest = scene.parcel[i].dest
               /\ scene'.parcel[i].pos = scene.parcel[i].pos
    <2>1. i \in Parcels /\ scene'.parcel[i].place = "line"
      BY DEF AtEye, OnLine, At
    <2>2. i \in AtEye(scene)
      BY <2>1, EventAtEye
    <2>3. scene.parcel[i].place = "line"
      BY <2>2 DEF AtEye, OnLine, At
    <2>. QED  BY <1>1, <2>1, <2>2, <2>3, DisturbedAtEye
  <1>. QED  BY <1>1, <1>2 DEF SteadyInv

LEMMA SteadyInvariance == Spec => [](CalmInv /\ SteadyInv)
  <1>1. Init => CalmInv /\ SteadyInv
    <2> SUFFICES ASSUME Init PROVE CalmInv /\ SteadyInv
      OBVIOUS
    <2>1. /\ \A i \in Parcels : /\ scene.parcel[i].place = "unborn"
                                /\ ~scene.parcel[i].stuck
          /\ ~inputs["stop"] /\ ~inputs["reset"] /\ ~inputs["estop"]
          /\ ~plc.jam
      BY DEF Init, EmptyScene, Unborn, Buttons, InitialState
    <2>. QED  BY <2>1 DEF CalmInv, SteadyInv, AtEye, OnLine, At
  <1>2. Typed /\ RoutingInv /\ CalmInv /\ SteadyInv /\ [Next]_vars
          => CalmInv' /\ SteadyInv'
    <2> SUFFICES ASSUME Typed, RoutingInv, CalmInv, SteadyInv, [Next]_vars
                 PROVE  CalmInv' /\ SteadyInv'
      OBVIOUS
    <2>1. CASE UNCHANGED vars
      BY <2>1, CalmStep DEF vars, SteadyInv
    <2>. QED  BY <2>1, CalmStep, SteadyTick, SteadyEvent DEF Next
  <1>. QED  BY <1>1, <1>2, RoutingInvariance, PTL DEF Spec

(* A line nobody disturbed, whose parcels kept apart, never trips the jam  *)
(* alarm.                                                                  *)
THEOREM MovingLineNeverJams == Spec => []NoFalseJam
  <1>1. Typed /\ SteadyInv => NoFalseJam
    BY DEF Typed, SteadyInv, NoFalseJam
  <1>. QED  BY <1>1, TypedInvariance, SteadyInvariance, PTL

-----------------------------------------------------------------------------
(* And its counters are exact. *)
Exact(c) ==
  calm /\ ~crowded =>
    CountOf(plc, c) + Owed(c) = Cardinality(At(scene, ChuteOf(c)))

(* A scan that sees nothing at the eye counts what it owes.                *)
LEMMA ExactWhenEyeClear ==
  ASSUME Typed, Tick, RoutingInv, CalmInv, SteadyInv, calm, ~crowded,
         NEW c \in {ChuteA, ChuteB}, Exact(c), AtEye(scene) = {}
  PROVE  Exact(c)'
  <1> DEFINE n == Cardinality(At(scene, ChuteOf(c)))
             x == CountOf(plc, c)
             y == CountOf(plc', c)
  <1>1. /\ plc \in ControlState /\ Coherent(plc) /\ ~Written.pe2 /\ Coherent(plc')
        /\ Scanned(plc, Written, plc') /\ ScannedClosely(plc, Written, plc')
    BY TickEffect DEF Ticked, Typed
  <1>2. /\ Untroubled(plc, Written) /\ ~plc.jam /\ ~plc'.jam
        /\ plc.running => plc'.running
    BY SteadyScan DEF SteadyInv
  <1>3. At(scene', ChuteOf(c)) = At(scene, ChuteOf(c))
    BY TickMoves DEF At
  <1>4. n \in Nat /\ n <= MaxParcels
    <2>1. /\ n \in Nat /\ Cardinality(At(scene, "line")) \in Nat
          /\ n + Cardinality(At(scene, "line")) <= MaxParcels
      BY PlacesAreFinite DEF ChuteOf
    <2> HIDE DEF n
    <2>. QED  BY <2>1, SceneAssumption
  <1>5. plc'.pending = NoDecision
    BY <1>1, <1>2 DEF Coherent, Scanned
  <1>6. Owed(c)' = 0
    BY <1>5 DEF Owed, ChuteA, ChuteB, NoDecision
  <1>7. x + Owed(c) = n
    BY DEF Exact
  <1>8. x \in Nat /\ CounterModulus \in Nat /\ CounterModulus > MaxParcels
        /\ MaxParcels \in Nat
    BY <1>1, ScanAssumption, SceneAssumption, CellAssumption DEF CountOf, ControlState
  <1> SUFFICES y = n
    BY <1>3, <1>4, <1>6 DEF Exact
  <1>9. CASE plc.pending = c
    <2>1. Delivers(plc, plc')
      BY <1>1, <1>2, <1>9
         DEF Coherent, ScannedClosely, NoDecision, ChuteA, ChuteB
    <2>2. y = (x + 1) % CounterModulus
      BY <1>9, <2>1 DEF Delivers, CountOf, ChuteA, ChuteB
    <2>3. Owed(c) = 1
      BY <1>9 DEF Owed
    <2> HIDE DEF n, x, y
    <2>4. x + 1 = n /\ x + 1 < CounterModulus
      BY <1>4, <1>7, <1>8, <2>3
    <2>. QED  BY <1>4, <1>8, <2>2, <2>4
  <1>10. CASE plc.pending # c
    <2>1. Owed(c) = 0
      BY <1>10 DEF Owed
    <2>2. y = x
      BY <1>1, <1>10
         DEF Scanned, Delivers, CountsUnchanged, CountOf, ControlState,
             ChuteA, ChuteB, NoDecision
    <2> HIDE DEF n, x, y
    <2>. QED  BY <1>4, <1>7, <1>8, <2>1, <2>2
  <1>. QED  BY <1>9, <1>10

(* While the eye is blocked nothing is counted; the parcel that leaves is  *)
(* the one decided for, and it is owed.                                    *)
LEMMA ExactWhenEyeBlocked ==
  ASSUME Typed, Tick, RoutingInv, CalmInv, SteadyInv, calm, ~crowded,
         NEW c \in {ChuteA, ChuteB}, Exact(c), NEW h \in AtEye(scene)
  PROVE  Exact(c)'
  <1> DEFINE n == Cardinality(At(scene, ChuteOf(c)))
             m == Cardinality(At(scene', ChuteOf(c)))
             x == CountOf(plc, c)
             y == CountOf(plc', c)
  <1>1. /\ plc \in ControlState /\ Coherent(plc') /\ Written.pe2
        /\ Scanned(plc, Written, plc') /\ ScannedClosely(plc, Written, plc')
        /\ out'.divert <=> plc'.divert /\ plc'.running
    BY TickEffect DEF Ticked, Typed, Scanned
  <1>2. plc'.running /\ plc'.pending \in {ChuteA, ChuteB}
    BY SteadyScan DEF ChuteFor
  <1>3. y = x
    BY <1>1 DEF ScannedClosely, CountsUnchanged, CountOf
  <1>4. Owed(c) = 0
    BY DEF Owed
  <1>5. x = n /\ x \in Nat /\ n \in Nat
    <2>1. x + Owed(c) = n
      BY DEF Exact
    <2>2. x \in Nat
      BY <1>1, ScanAssumption DEF CountOf, ControlState
    <2> HIDE DEF x, n
    <2>. QED  BY <1>4, <2>1, <2>2
  <1>6. \A i \in Parcels : i \in AtEye(scene) \/ i \in AtEye(scene') => i = h
    <2>1. h \in Zone /\ h \in Parcels
      BY TickInZone DEF AtEye, OnLine, At
    <2>. QED  BY <2>1, TickInZone DEF RoutingInv, ZoneInv
  <1>7. CASE h \in AtEye(scene')
    <2>1. At(scene', ChuteOf(c)) = At(scene, ChuteOf(c))
      BY <1>6, <1>7, TickMoves DEF At
    <2>2. Owed(c)' = 0
      BY <1>7 DEF Owed
    <2>3. y + 0 = n
      BY <1>3, <1>5
    <2>. QED  BY <2>1, <2>2, <2>3 DEF Exact
  <1>8. CASE h \notin AtEye(scene')
    <2>1. AtEye(scene') = {}
      <3>1. \A i \in AtEye(scene') : i \in Parcels
        BY DEF AtEye, OnLine, At
      <3>. QED  BY <1>6, <1>8, <3>1
    <2>2. /\ scene'.parcel[h].place = IF out'.divert THEN "chuteA" ELSE "chuteB"
          /\ scene.parcel[h].place = "line" /\ h \in Parcels
      BY <1>8, TickMoves DEF AtEye, OnLine, At
    <2>3. out'.divert <=> plc'.pending = ChuteA
      BY <1>1, <1>2 DEF Coherent, NoDecision, ChuteA, ChuteB
    <2>4. \A i \in Parcels : i # h => scene'.parcel[i].place = scene.parcel[i].place
      BY <1>6, TickMoves
    <2>5. CASE plc'.pending = c
      <3>1. At(scene', ChuteOf(c)) = At(scene, ChuteOf(c)) \cup {h}
        <4>1. scene'.parcel[h].place = ChuteOf(c)
          BY <1>2, <2>2, <2>3, <2>5 DEF ChuteOf
        <4>. QED  BY <2>2, <2>4, <4>1 DEF At
      <3>2. h \notin At(scene, ChuteOf(c)) /\ IsFiniteSet(At(scene, ChuteOf(c)))
        <4>1. scene.parcel[h].place # ChuteOf(c)
          BY <2>2 DEF ChuteOf
        <4>2. h \notin At(scene, ChuteOf(c))
          BY <4>1 DEF At
        <4>. QED  BY <4>2, PlacesAreFinite
      <3>3. m = n + 1
        BY <3>1, <3>2, FS_AddElement
      <3>4. Owed(c)' = 1
        BY <2>1, <2>5 DEF Owed
      <3>. QED  BY <1>3, <1>5, <3>3, <3>4 DEF Exact
    <2>6. CASE plc'.pending # c
      <3>1. At(scene', ChuteOf(c)) = At(scene, ChuteOf(c))
        <4>1. scene'.parcel[h].place # ChuteOf(c)
          BY <1>2, <2>2, <2>3, <2>6 DEF ChuteOf, ChuteA, ChuteB
        <4>2. scene.parcel[h].place # ChuteOf(c)
          BY <2>2 DEF ChuteOf
        <4>. QED  BY <2>2, <2>4, <4>1, <4>2 DEF At
      <3>2. Owed(c)' = 0
        BY <2>6 DEF Owed
      <3>3. y + 0 = n
        BY <1>3, <1>5
      <3>. QED  BY <3>1, <3>2, <3>3 DEF Exact
    <2>. QED  BY <2>5, <2>6
  <1>. QED  BY <1>7, <1>8

LEMMA ExactEvent ==
  ASSUME Typed, Event, CalmInv, NEW c \in {ChuteA, ChuteB}, Exact(c)
  PROVE  Exact(c)'
  <1> SUFFICES ASSUME calm', ~crowded' PROVE Exact(c)'
    BY DEF Exact
  <1>1. /\ plc' = plc /\ crowded' = crowded
        /\ scene' \in Scenes /\ Disturbed(scene, scene') /\ Tidy(scene)
    BY CellEvent DEF Typed
  <1>2. calm
    BY CalmStep DEF Next
  <1>3. At(scene', ChuteOf(c)) = At(scene, ChuteOf(c))
    <2>1. \A i \in Parcels : scene'.parcel[i].place = ChuteOf(c)
                              <=> scene.parcel[i].place = ChuteOf(c)
      BY <1>1, DisturbedAtEye DEF ChuteOf
    <2>. QED  BY <2>1 DEF At
  <1>4. AtEye(scene') = AtEye(scene)
    <2>1. scene' = scene \/ \E i \in Parcels : Born(scene, i, scene')
      BY CellEvent
    <2>2. ASSUME NEW i \in Parcels, Born(scene, i, scene')
          PROVE  AtEye(scene') = AtEye(scene)
      <3>1. ~(0 >= Pe2)
        BY SceneAssumption
      <3>. QED  BY <2>2, <3>1 DEF Born, AtEye, OnLine, At
    <2>. QED  BY <2>1, <2>2
  <1>5. Owed(c)' = Owed(c)
    BY <1>1, <1>4 DEF Owed
  <1>. QED  BY <1>1, <1>2, <1>3, <1>5 DEF Exact

LEMMA ExactInvariance == Spec => [](Exact(ChuteA) /\ Exact(ChuteB))
  <1>1. Init => Exact(ChuteA) /\ Exact(ChuteB)
    <2> SUFFICES ASSUME Init, NEW c \in {ChuteA, ChuteB} PROVE Exact(c)
      OBVIOUS
    <2>1. CountOf(plc, c) = 0 /\ Owed(c) = 0
      BY DEF Init, InitialState, CountOf, Owed, NoDecision, ChuteA, ChuteB
    <2>2. At(scene, ChuteOf(c)) = {}
      BY DEF Init, EmptyScene, Unborn, At, ChuteOf
    <2>. QED  BY <2>1, <2>2, FS_EmptySet DEF Exact
  <1>2. Typed /\ RoutingInv /\ CalmInv /\ SteadyInv /\ Exact(ChuteA) /\ Exact(ChuteB)
          /\ [Next]_vars => Exact(ChuteA)' /\ Exact(ChuteB)'
    <2> SUFFICES ASSUME Typed, RoutingInv, CalmInv, SteadyInv, [Next]_vars,
                        NEW c \in {ChuteA, ChuteB}, Exact(c)
                 PROVE  Exact(c)'
      OBVIOUS
    <2>1. CASE UNCHANGED vars
      BY <2>1 DEF vars, Exact, Owed
    <2>2. CASE Tick
      <3> SUFFICES ASSUME calm', ~crowded' PROVE Exact(c)'
        BY DEF Exact
      <3>1. calm /\ ~crowded
        BY <2>2, CalmStep, ZoneStep DEF RoutingInv
      <3>. QED  BY <2>2, <3>1, ExactWhenEyeClear, ExactWhenEyeBlocked
    <2>. QED  BY <2>1, <2>2, ExactEvent DEF Next
  <1>. QED  BY <1>1, <1>2, RoutingInvariance, SteadyInvariance, PTL DEF Spec

(* On such a line the counters are the chutes, but for the parcel that     *)
(* left with the last step and is counted by the next scan.                *)
THEOREM CountersAreTheChutes == Spec => []CountersExact
  <1>1. Typed /\ Exact(ChuteA) /\ Exact(ChuteB) => CountersExact
    <2> SUFFICES ASSUME Typed, Exact(ChuteA), Exact(ChuteB), calm, ~crowded
                 PROVE  CountersExact
      BY DEF CountersExact
    <2>1. SensorBlocked(scene, Pe2) <=> AtEye(scene) # {}
      BY EyeSees, CellAssumption DEF Typed
    <2>2. /\ CountOf(plc, ChuteA) = plc.countA /\ CountOf(plc, ChuteB) = plc.countB
          /\ ChuteOf(ChuteA) = "chuteA" /\ ChuteOf(ChuteB) = "chuteB"
      BY DEF CountOf, ChuteOf, ChuteA, ChuteB
    <2>. QED  BY <2>1, <2>2 DEF Exact, Owed, CountersExact
  <1>. QED  BY <1>1, TypedInvariance, ExactInvariance, PTL
=============================================================================
