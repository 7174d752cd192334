---------------------------- MODULE MCStreaming ----------------------------
(***************************************************************************)
(* Instances of Streaming for TLC.                                         *)
(***************************************************************************)
EXTENDS Streaming

CONSTANTS game, b1

NoReads == {}
NoRequests(t) == {}
\* The game reads one sector of its own.
GameRequests(t) ==
  IF t = game THEN {[lsn |-> 100, sectors |-> 1, buf |-> b1, off |-> 0, aligned |-> TRUE]} ELSE {}

DefaultPrio == [a \in Actors |-> IF a = RThread THEN 15 ELSE 81]
\* A game thread between the read thread and the streaming RPC thread.
GamePrio == [a \in Actors |-> IF a = RThread THEN 15 ELSE IF a = game THEN 64 ELSE 81]

\* The view of runs whose properties do not mention the data: no guard reads
\* the memory or a history variable, so states that differ only in them have
\* the same behaviours.
WithoutData == <<locks, regs, cbs, accu_alarm, Stm0Callback, pc, arg, searching, rd, ring, stlocal>>
=============================================================================
