----------------------------- MODULE MCCdromFs -----------------------------
(***************************************************************************)
(* Instances of CdromFs for TLC: a file of two and a half sectors, one     *)
(* directory, and a name that is not on the disc.                          *)
(***************************************************************************)
EXTENDS CdromFs

CONSTANTS movie, dir, absent

DiscLsn == [p \in {movie, dir} |-> IF p = movie THEN 30 ELSE 20]
DiscSize == [p \in {movie, dir} |-> IF p = movie THEN 5 ELSE 2]
Offsets == {-1, 1}

CONSTANTS t1, t2
SomeCalls == [t \in Threads |->
  IF t = t1 THEN {"open", "close", "read", "lseek", "devctl"}
            ELSE {"open", "close", "read", "dread", "init", "getstat", "search", "raw"}]
SomePaths == [t \in Threads |-> IF t = t1 THEN {movie, absent} ELSE {movie, dir}]
=============================================================================
