------------------------------ MODULE IntFile -------------------------------
(***************************************************************************)
(* INTREAD and INTWRITE (src/src/cmd.c).  INTREAD sends a file with its    *)
(* SHA-256; INTWRITE replaces the file if it still has the SHA-256 that    *)
(* the client sends, so that a client that read, edited and wrote back a   *)
(* file does not overwrite what another one wrote in between.              *)
(*                                                                         *)
(* Both handlers take the record lock of the file with crtlock(fd, BLK)    *)
(* and then call sha256sum(path), which opens and CLOSES the same file: by *)
(* the rules of record locks (module RecordLock) the lock is gone from     *)
(* there on.  A file's content stands for its SHA-256.                     *)
(***************************************************************************)
EXTENDS Naturals, Sequences

CONSTANTS
    Clients,     \* the parties that read and write the file
    Sessions,    \* the server's processes
    NoProc,      \* no process
    Payloads,    \* what clients may upload
    MaxWrites,   \* INTWRITEs that are sent
    First,       \* what the file holds at first
    Killable,    \* the handler states in which a session may be killed
    Faults       \* whether calls of the operating system may fail

VARIABLES
    content,   \* what the file holds
    owner,     \* the process that has the record lock of each file
    h,         \* the handler each session is in
    seen,      \* the hash each client got from its last INTREAD
    pend,      \* the session from which each client awaits a reply
    sent,      \* INTWRITEs sent so far
    acked      \* the updates the server answered 0 to: the hash, the version
               \* that went, the payload, the version that came

vars == <<content, owner, h, seen, pend, sent, acked>>

RL == INSTANCE RecordLock

File == "data"
None == <<"none">>          \* no content, and no hash

(* A handler: where it is, its command, its client, the hash the client    *)
(* sent or the server computed, the payload; old and new are history, the  *)
(* version that ftruncate() removed and the one that the write left.       *)
Idle == [pc |-> "idle", op |-> "read", cl |-> CHOOSE c \in Clients : TRUE,
         exp |-> None, hash |-> None, bytes |-> None, size |-> 0,
         old |-> None, new |-> None]

Init ==
    /\ content = First
    /\ owner = [f \in {File} |-> NoProc]
    /\ h = [s \in Sessions |-> Idle]
    /\ seen = [c \in Clients |-> None]
    /\ pend = [c \in Clients |-> NoProc]
    /\ sent = 0
    /\ acked = {}

(* The handler returns, after its reply.                                   *)
Return(s) ==
    /\ h' = [h EXCEPT ![s] = Idle]
    /\ pend' = [pend EXCEPT ![h[s].cl] = NoProc]
    /\ owner' = RL!AfterClose(owner, File, s)

-----------------------------------------------------------------------------
(* The client sends INTREAD and the handler opens the file.                *)
Read(c, s) ==
    /\ pend[c] = NoProc /\ h[s].pc = "idle"
    /\ pend' = [pend EXCEPT ![c] = s]
    /\ h' = [h EXCEPT ![s] = [Idle EXCEPT !.pc = "opened", !.cl = c]]
    /\ UNCHANGED <<content, owner, seen, sent, acked>>

(* The client sends INTWRITE with the hash it has seen and a new payload;  *)
(* the handler has received all of it and opens the file.                  *)
Write(c, s, b) ==
    /\ pend[c] = NoProc /\ h[s].pc = "idle"
    /\ seen[c] # None
    /\ sent < MaxWrites /\ sent' = sent + 1
    /\ pend' = [pend EXCEPT ![c] = s]
    /\ h' = [h EXCEPT ![s] = [Idle EXCEPT !.pc = "opened", !.op = "write",
                              !.cl = c, !.exp = seen[c], !.bytes = b]]
    /\ UNCHANGED <<content, owner, seen, acked>>

(* crtlock(fd, BLK) returns.                                               *)
Lock(s) ==
    /\ h[s].pc = "opened"
    /\ RL!Lockable(owner, File, s)
    /\ owner' = RL!Locked(owner, File, s)
    /\ h' = [h EXCEPT ![s].pc = "locked"]
    /\ UNCHANGED <<content, seen, pend, sent, acked>>

(* INTREAD: stat(path, &st), and a buffer of that size.                    *)
Stat(s) ==
    /\ h[s].pc = "locked" /\ h[s].op = "read"
    /\ h' = [h EXCEPT ![s].pc = "sized", ![s].size = Len(content)]
    /\ UNCHANGED <<content, owner, seen, pend, sent, acked>>

(* Where a handler calls sha256sum().                                      *)
AtHash(s) == h[s].pc = (IF h[s].op = "read" THEN "sized" ELSE "locked")

(* sha256sum(path) opens the file, reads it and closes it.                 *)
Hash(s) ==
    /\ AtHash(s)
    /\ h' = [h EXCEPT ![s].pc = "hashed", ![s].hash = content]
    /\ owner' = RL!AfterClose(owner, File, s)
    /\ UNCHANGED <<content, seen, pend, sent, acked>>

(* INTREAD: readchunk(fd, bytes, st.st_size), crtlock(UNLOCK), close.      *)
ReadBytes(s) ==
    /\ h[s].pc = "hashed" /\ h[s].op = "read"
    /\ LET rc == IF Len(content) < h[s].size THEN Len(content)
                 ELSE h[s].size
       IN h' = [h EXCEPT ![s].pc = "replying",
                         ![s].bytes = SubSeq(content, 1, rc)]
    /\ owner' = RL!AfterClose(owner, File, s)
    /\ UNCHANGED <<content, seen, pend, sent, acked>>

(* INTREAD: the header, the hash and the bytes reach the client.           *)
ReadReply(s) ==
    /\ h[s].pc = "replying" /\ h[s].op = "read"
    /\ seen' = [seen EXCEPT ![h[s].cl] = h[s].hash]
    /\ Return(s)
    /\ UNCHANGED <<content, sent, acked>>

(* Mutant of Check: the hash that the client sent is not compared.         *)
BugCheckAlwaysPasses(s) ==
    /\ h[s].pc = "hashed" /\ h[s].op = "write"
    /\ h' = [h EXCEPT ![s].pc = "checked"]
    /\ UNCHANGED <<content, owner, seen, pend, sent, acked>>

(* INTWRITE: strcmp(sha256_src, sha256_dst); on a mismatch -1 is sent, the *)
(* file is unlocked and closed.                                            *)
Check(s) ==
    /\ h[s].pc = "hashed" /\ h[s].op = "write"
    /\ IF h[s].exp = h[s].hash
       THEN h' = [h EXCEPT ![s].pc = "checked"]
            /\ UNCHANGED <<owner, pend>>
       ELSE Return(s)
    /\ UNCHANGED <<content, seen, sent, acked>>

(* INTWRITE: ftruncate(fd, 0)                                              *)
Truncate(s) ==
    /\ h[s].pc = "checked"
    /\ content' = <<>>
    /\ h' = [h EXCEPT ![s].pc = "truncated", ![s].old = content]
    /\ UNCHANGED <<owner, seen, pend, sent, acked>>

(* write() at offset 0 leaves what the file has after the last byte        *)
(* written.                                                                *)
Over(b) == b \o SubSeq(content, Len(b) + 1, Len(content))

(* INTWRITE: writechunk(fd, bytes, byteslen)                               *)
WriteBytes(s) ==
    /\ h[s].pc = "truncated"
    /\ content' = Over(h[s].bytes)
    /\ h' = [h EXCEPT ![s].pc = "written", ![s].new = content']
    /\ UNCHANGED <<owner, seen, pend, sent, acked>>

(* INTWRITE: 0 is sent, then the file is unlocked and closed.              *)
WriteReply(s) ==
    /\ h[s].pc = "written"
    /\ acked' = acked \cup {[exp |-> h[s].exp, old |-> h[s].old,
                              bytes |-> h[s].bytes, new |-> h[s].new]}
    /\ seen' = [seen EXCEPT ![h[s].cl] = h[s].bytes]
    /\ Return(s)
    /\ UNCHANGED <<content, sent>>

(* malloc(), jaildir(), open(), crtlock(), sha256sum(), readchunk() or     *)
(* ftruncate() fails: -1 is sent and the file is left as it is.            *)
CallFails(s) ==
    /\ Faults
    /\ \/ h[s].pc \in {"opened", "locked", "sized", "checked"}
       \/ h[s].pc = "hashed" /\ h[s].op = "read"
    /\ Return(s)
    /\ UNCHANGED <<content, seen, sent, acked>>

(* writechunk() fails after a part of the payload, or it needed more than  *)
(* one write() and returns the length of the last: -1 is sent.             *)
WriteFails(s) ==
    /\ Faults
    /\ h[s].pc = "truncated"
    /\ \E n \in 0 .. Len(h[s].bytes) :
          /\ n = Len(h[s].bytes) => n > 1
          /\ content' = Over(SubSeq(h[s].bytes, 1, n))
    /\ Return(s)
    /\ UNCHANGED <<seen, sent, acked>>

(* The process ends inside the handler.                                    *)
Kill(s) ==
    /\ h[s].pc \in Killable
    /\ h' = [h EXCEPT ![s] = Idle]
    /\ owner' = RL!AfterExit(owner, s)
    /\ pend' = [pend EXCEPT ![h[s].cl] = NoProc]
    /\ UNCHANGED <<content, seen, sent, acked>>

-----------------------------------------------------------------------------
Step(s) ==
    \/ Lock(s) \/ Stat(s) \/ Hash(s) \/ ReadBytes(s) \/ ReadReply(s)
    \/ Check(s) \/ Truncate(s) \/ WriteBytes(s) \/ WriteReply(s)
    \/ CallFails(s) \/ WriteFails(s)

Next ==
    \/ \E c \in Clients, s \in Sessions :
          Read(c, s) \/ (\E b \in Payloads : Write(c, s, b))
    \/ \E s \in Sessions : Step(s) \/ Kill(s)

Spec == Init /\ [][Next]_vars

-----------------------------------------------------------------------------
(* "Write file if integrity hash matches": an INTWRITE that cmd_intwrite() *)
(* answers 0 to has replaced the version whose hash the client sent, and   *)
(* no other one, by its payload, and nothing else.                         *)
NoLostUpdate ==
    \A a \in acked : a.old = a.exp /\ a.new = a.bytes

(* "Read file with integrity hash": the bytes that cmd_intread() sends are *)
(* the ones it sends the hash of.                                          *)
ReadConsistent ==
    \A s \in Sessions :
        h[s].pc = "replying" => h[s].hash = h[s].bytes

=============================================================================
