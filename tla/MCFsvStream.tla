---------------------------- MODULE MCFsvStream ----------------------------
(***************************************************************************)
(* An instance of FsvStream for TLC.                                       *)
(***************************************************************************)
EXTENDS FsvStream

CONSTANT b1

NoReads == {}
NoRequests(t) == {}
DefaultPrio == [a \in Actors |-> IF a = RThread THEN 15 ELSE 81]
=============================================================================
