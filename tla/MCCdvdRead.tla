---------------------------- MODULE MCCdvdRead ----------------------------
(***************************************************************************)
(* Instances of CdvdRead for TLC: which reads the threads ask for, and the *)
(* priorities.                                                             *)
(***************************************************************************)
EXTENDS CdvdReadImpl

CONSTANTS t1, t2, b1, b2, b3

Req(l, n, b, o, al) == [lsn |-> l, sectors |-> n, buf |-> b, off |-> o, aligned |-> al]

\* t1 reads three sectors; t2 reads one.
AlignedRequests(t) == IF t = t1 THEN {Req(4, 3, b1, 0, TRUE)} ELSE {Req(1, 1, b2, 1, TRUE)}
\* t1's buffer is misaligned, so its read takes two bounce-buffer chunks.
MisalignedRequests(t) == IF t = t1 THEN {Req(4, 3, b1, 0, FALSE)} ELSE {Req(1, 1, b2, 1, TRUE)}

\* t1's read is one transfer per sector when AccuMax is 1; t2 only gives
\* commands.  The callback reads one of the same sectors to the same place,
\* for fewer contents of memory.
PacedRequests(t) == IF t = t1 THEN {Req(4, 2, b1, 0, TRUE)} ELSE {}
PacedCallback == {Req(5, 1, b1, 1, TRUE)}
CallbackRead == {Req(9, 1, b3, 0, TRUE)}
NoReads == {}

\* All threads of equal priority: they interleave freely.
EqualPrio == [a \in Actors |-> 0]
\* The read thread at 0x0f, the clients below it (CDVDFSV's default 0x51).
DefaultPrio == [a \in Actors |-> IF a = RThread THEN 15 ELSE 81]
\* A game thread t1 between the read thread and the RPC thread t2.
GamePrio == [a \in Actors |-> IF a = RThread THEN 15 ELSE IF a = t1 THEN 64 ELSE 81]
=============================================================================
