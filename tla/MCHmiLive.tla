----------------------------- MODULE MCHmiLive ------------------------------
(***************************************************************************)
(* One client that jams the twin, and one that resets it with a message of *)
(* two fragments, a ping in between, sends a continuation of nothing,      *)
(* which must not jam the twin, pings once more and then closes.           *)
(***************************************************************************)
EXTENDS HmiLive, TLC

CONSTANTS S1, S2

MCSessions == {S1, S2}

Frame(op, fin, part) == [op |-> op, fin |-> fin, part |-> part]
Ping == Frame("ping", TRUE, "")

MCScript ==
  (S1 :> << Frame("text", TRUE, "jam") >>)
    @@ (S2 :> << Frame("text", FALSE, "re"), Ping, Frame("continuation", TRUE, "set"),
                 Frame("continuation", TRUE, "jam"), Ping, Frame("close", TRUE, "") >>)
=============================================================================
