----------------------------- MODULE RecordLock -----------------------------
(***************************************************************************)
(* The POSIX record lock that crtlock() (src/src/util.c) takes with        *)
(* fcntl(): always a write lock over the whole file (l_start = 0,          *)
(* l_len = 0), so one owner per file is its complete state.                *)
(*                                                                         *)
(* A record lock belongs to the PROCESS.  Asking again for a lock the      *)
(* process already has succeeds at once, and the process loses it as soon  *)
(* as it closes ANY of its descriptors of that file, and when it exits.    *)
(***************************************************************************)
CONSTANT NoProc    \* no process: the owner of a file that is not locked

(* F_SETLKW returns, and F_SETLK succeeds, only when no other process owns *)
(* the lock.                                                               *)
Lockable(owner, f, p) == owner[f] \in {NoProc, p}

(* crtlock(fd, BLK) once it returns, crtlock(fd, NONBLK) when it succeeds. *)
Locked(owner, f, p) == [owner EXCEPT ![f] = p]

(* crtlock(fd, UNLOCK): nothing happens to a lock of another process.      *)
Unlocked(owner, f, p) == [owner EXCEPT ![f] = IF @ = p THEN NoProc ELSE @]

(* close() of any descriptor of f in process p.                            *)
AfterClose(owner, f, p) == Unlocked(owner, f, p)

(* exit of process p, wherever it was.                                     *)
AfterExit(owner, p) == [f \in DOMAIN owner |->
                          IF owner[f] = p THEN NoProc ELSE owner[f]]
=============================================================================
