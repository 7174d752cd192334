------------------------------- MODULE Drive -------------------------------
(***************************************************************************)
(* What the users of sceCdRead see of the read path (module CdvdRead, and  *)
(* the service ReadSlot it implements): the drive serves one read at a     *)
(* time, a call on a busy drive is refused, the data arrives later, and    *)
(* sceCdSync(0) goes on when the drive is idle.                            *)
(***************************************************************************)
CONSTANT NoRead

VARIABLE drive      \* the read that has been accepted and is not over

DriveIdle == drive = NoRead

\* sceCdRead accepted (result 1) and refused (result 0).
Accepted(r) == DriveIdle /\ drive' = r
Refused == ~DriveIdle /\ UNCHANGED drive

\* The read ends: sync_flag = 0.
Finished == ~DriveIdle /\ drive' = NoRead
=============================================================================
