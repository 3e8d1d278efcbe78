----------------------------- MODULE Phase0Scan -----------------------------
(***************************************************************************)
(* The Phase 0 control program, plc/control_logic.py: one scan as a        *)
(* function of the inputs and the state.  No code of Phase 0 ever latches  *)
(* the jam ("auto-set logic is a Phase 1 TODO"), so that jam_latched stays *)
(* FALSE; the scan obeys it all the same.                                  *)
(*                                                                         *)
(* ForgetsTheEye and LatchesTheEye are mutants of NextState.               *)
(***************************************************************************)
EXTENDS Naturals

InitialState == [prev_preDivert |-> FALSE, throughput |-> 0, jam_latched |-> FALSE]

Running(in, s) == ~in.estop /\ ~s.jam_latched

Counts(in, s) == Running(in, s) /\ in.preDivert /\ ~s.prev_preDivert

(* The new state: the eye is remembered even by a scan that returns early. *)
ForgetsTheEye(in, s) ==
  IF Running(in, s)
  THEN [s EXCEPT !.prev_preDivert = in.preDivert,
                 !.throughput = IF Counts(in, s) THEN @ + 1 ELSE @]
  ELSE [s EXCEPT !.prev_preDivert = FALSE]
LatchesTheEye(in, s) ==
  [s EXCEPT !.prev_preDivert = @ \/ in.preDivert,
            !.throughput = IF Counts(in, s) THEN @ + 1 ELSE @]
NextState(in, s) ==
  [s EXCEPT !.prev_preDivert = in.preDivert,
            !.throughput = IF Counts(in, s) THEN @ + 1 ELSE @]

Outputs(in, s) ==
  [motor |-> Running(in, s),
   armA |-> Running(in, s) /\ in.preDivert /\ in.destination = 1,
   armB |-> Running(in, s) /\ in.preDivert /\ in.destination = 2,
   jam |-> s.jam_latched,
   running |-> Running(in, s),
   count |-> NextState(in, s).throughput]
=============================================================================
