----------------------------- MODULE SceneModel -----------------------------
(***************************************************************************)
(* The plant of simulation/scene_model.py: a one-dimensional line on which *)
(* every parcel not stuck moves one unit a tick while the motor runs.  The *)
(* unit is speed * dt, an exact 2.5 cm at the runner's default dt.         *)
(*                                                                         *)
(* Parcels are numbered in the order they are spawned, which is the order  *)
(* of the list SceneModel.parcels; a parcel that has left the line keeps   *)
(* its record and says where it went.  The float position of a parcel that *)
(* is no longer on the line is read by nothing and is set to 0.            *)
(*                                                                         *)
(* StepPublishesFirst is a mutant of the operator it precedes; nothing     *)
(* else uses it.                                                           *)
(***************************************************************************)
EXTENDS Integers, FiniteSets, FiniteSetsExt

CONSTANTS
  MaxParcels,   \* bound: parcels ever spawned
  Pe1, Pe2,     \* the two photo-eyes, in units from the infeed
  Divert,       \* the diverter, where a parcel leaves the line
  Length        \* of a parcel

ASSUME SceneAssumption ==
  /\ MaxParcels \in Nat \ {0}
  /\ {Pe1, Pe2, Divert, Length} \subseteq Nat \ {0}
  /\ Pe1 < Pe2 /\ Pe2 < Divert

ToA == 1
ToB == 2

Parcels == 1 .. MaxParcels
Places == {"unborn", "line", "chuteA", "chuteB", "removed"}

Scenes ==
  [parcel : [Parcels -> [place : Places, dest : {ToA, ToB}, pos : 0 .. Divert - 1,
                         scanned : BOOLEAN, stuck : BOOLEAN]],
   published : {0, ToA, ToB}]

Unborn == [place |-> "unborn", dest |-> ToA, pos |-> 0,
           scanned |-> FALSE, stuck |-> FALSE]

EmptyScene == [parcel |-> [i \in Parcels |-> Unborn], published |-> 0]

At(sc, place) == {i \in Parcels : sc.parcel[i].place = place}
OnLine(sc) == At(sc, "line")

(* A parcel is at an eye while it spans it. *)
Blocks(sc, i, eye) == /\ sc.parcel[i].pos - Length <= eye
                      /\ eye <= sc.parcel[i].pos
SensorBlocked(sc, eye) == \E i \in OnLine(sc) : Blocks(sc, i, eye)

-----------------------------------------------------------------------------
CanSpawn(sc) == At(sc, "unborn") # {}
Spawn(sc, dest) ==
  LET new == Min(At(sc, "unborn"))
  IN  [sc EXCEPT !.parcel[new].place = "line", !.parcel[new].dest = dest]

(* inject_jam sticks the parcel it names, or else the leading one. *)
Stick(sc, i) == [sc EXCEPT !.parcel[i].stuck = TRUE]

ClearJam(sc) ==
  [sc EXCEPT !.parcel = [i \in Parcels |->
     IF sc.parcel[i].place = "line" /\ sc.parcel[i].stuck
     THEN [sc.parcel[i] EXCEPT !.place = "removed", !.pos = 0,
                               !.scanned = FALSE, !.stuck = FALSE]
     ELSE sc.parcel[i]]]

-----------------------------------------------------------------------------
(* step: move, scan at pe_001, route at the diverter, in this order.       *)
NewPos(sc, i, motor) ==
  IF motor /\ ~sc.parcel[i].stuck THEN sc.parcel[i].pos + 1 ELSE sc.parcel[i].pos

(* The parcels whose barcode this step reads; the last of them in the list *)
(* is the one whose destination stays published.                           *)
Crossing(sc, motor) ==
  {i \in OnLine(sc) : ~sc.parcel[i].scanned /\ NewPos(sc, i, motor) >= Pe1}

Stepped(sc, i, motor, extended) ==
  LET p == sc.parcel[i]
      x == NewPos(sc, i, motor)
  IN  IF p.place # "line" THEN p
      ELSE IF x >= Divert
      THEN [p EXCEPT !.place = IF extended THEN "chuteA" ELSE "chuteB",
                     !.pos = 0, !.scanned = FALSE, !.stuck = FALSE]
      ELSE [p EXCEPT !.pos = x, !.scanned = p.scanned \/ x >= Pe1]

StepPublishesFirst(sc, motor, extended) ==
  [parcel |-> [i \in Parcels |-> Stepped(sc, i, motor, extended)],
   published |-> IF Crossing(sc, motor) = {} \/ sc.published # 0 THEN sc.published
                 ELSE sc.parcel[Max(Crossing(sc, motor))].dest]

Step(sc, motor, extended) ==
  [parcel |-> [i \in Parcels |-> Stepped(sc, i, motor, extended)],
   published |-> IF Crossing(sc, motor) = {} THEN sc.published
                 ELSE sc.parcel[Max(Crossing(sc, motor))].dest]
=============================================================================
