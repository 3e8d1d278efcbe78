--------------------------- MODULE SortingPromise ---------------------------
(***************************************************************************)
(* What a sorting program promises, without scans, edges, timers or tags.  *)
(* A cell is stopped, running or jammed.  It holds at most one routing     *)
(* decision at a time.  A decision is redeemed at most once, by one        *)
(* delivery to the chute decided, from a cell that was running before and  *)
(* runs on; it is never replaced by another one, only delivered or voided. *)
(* A stopped cell holds none; a jam may keep one, which clearing voids.    *)
(***************************************************************************)
EXTENDS Integers

CONSTANT TallyModulus   \* the tallies wrap, as the registers they stand for

Chutes == {1, 2}
NoChute == 0

VARIABLES mode, held, tally

vars == <<mode, held, tally>>

Init == /\ mode = "stopped"
        /\ held = NoChute
        /\ tally = [c \in Chutes |-> 0]

(* A cell that is not jammed stops, voiding what it holds. *)
Stop == /\ mode # "jammed"
        /\ mode' = "stopped"
        /\ held' = NoChute
        /\ UNCHANGED tally

(* The cell starts, perhaps with a parcel arriving at the same moment. *)
Start == /\ mode = "stopped"
         /\ mode' = "running"
         /\ held' \in Chutes \cup {NoChute}
         /\ UNCHANGED tally

(* A parcel reaches the eye of a running cell that holds no decision. *)
Decide(c) == /\ mode = "running"
             /\ held = NoChute
             /\ held' = c
             /\ UNCHANGED <<mode, tally>>

(* One delivery for one decision. *)
Deliver(c) == /\ mode = "running"
              /\ held = c
              /\ held' = NoChute
              /\ tally' = [tally EXCEPT ![c] = (@ + 1) % TallyModulus]
              /\ UNCHANGED mode

(* The operator voids the decision of a running or jammed cell. *)
Void == /\ mode # "stopped"
        /\ held' = NoChute
        /\ UNCHANGED <<mode, tally>>

(* A parcel overstays at the eye; only a running cell can jam. *)
Jam == /\ mode = "running"
       /\ mode' = "jammed"
       /\ held' \in {held, NoChute}
       /\ UNCHANGED tally

(* The jam is cleared, and the cell may be started by the same step. *)
Clear == /\ mode = "jammed"
         /\ \/ mode' = "stopped" /\ held' = NoChute
            \/ mode' = "running" /\ held' \in Chutes \cup {NoChute}
         /\ UNCHANGED tally

Next == \/ Stop \/ Start \/ Void \/ Jam \/ Clear
        \/ \E c \in Chutes : Decide(c) \/ Deliver(c)

Spec == Init /\ [][Next]_vars
=============================================================================
