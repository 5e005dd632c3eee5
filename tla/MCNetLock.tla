----------------------------- MODULE MCNetLock ------------------------------
(* Instances of NetLock: two sessions, two files and a table of two        *)
(* entries, so that a session can fill its table and two sessions can wait *)
(* for each other.  Three commands are enough to unlock and to lock again  *)
(* with a watchdog that was cancelled and still runs, two to lock a file   *)
(* and to use it.                                                          *)
EXTENDS NetLock

CONSTANT s1

Traffic == [s \in Sessions |-> IF s = s1 THEN 6 ELSE 4]
=============================================================================
