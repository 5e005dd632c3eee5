# A TLA+ model of TFProtocol

TFProtocol is a file server. A daemon accepts TCP connections and forks one
process per connection, the *session*. A session shakes hands (version, key,
hash), lets the client pass the gates the administrator configured, and then
serves one command at a time until the client leaves. Sessions share nothing but
the file system, and the only tool they have against each other is the POSIX
record lock that `crtlock()` (`src/src/util.c`) takes. The hard behaviours are
of four kinds: independent processes over shared files (interleaved handlers,
locks that are lost by closing a file, sessions that die half way, files that are
rewritten in place); a session and its client that must agree on where a stream
of blocks and codes ends; threads of one session that share its socket (GET, ACE,
IME); and the processes of the daemon under signals and failing forks.

## Parts of the system

| Part | State | Operations | What is hard | Module |
|---|---|---|---|---|
| Record locks | owner of each file | `crtlock`, `close`, `exit` | belong to the process, lost at any close | `RecordLock` |
| Network mutex | a file with a token | NETMUTACQ_TRY, NETMUTREL | check and write under one lock, crash, lost replies | `NetMutex`, `TokenMutex` |
| Integrity files | a file and its SHA-256 | INTREAD, INTWRITE | compare-and-write, crash inside the write | `IntFile`, `GuardedUpdate` |
| Network locks | table of locks, watchdog threads | NETLOCK, NETLOCK_TRY, NETUNLOCK | timeouts against activity, waiters | `NetLock` |
| Secure filesystem | three metadata files per directory | SETFSID, SETFSPERM, REMFSPERM, the checks | two renames, unlocked readers | `SecureFs` |
| Session | phase, gates, user, directory | handshake, LOGIN, INJAIL, LOCKSYS, FLYCONTEXT, KEEPALIVE, END | order of gates, half-failed steps, end with the peer | `Session` |
| Fast Access Interface | token files | FAITOK, `FAI://token` | key renewal, overlapping sessions | `FaiToken` |
| Streams | open file, cancel flags, thread of GET | PUT, GET, PUTCAN, GETCAN, SUP, SDOWN, SNDFILE, RCVFILE | end, cancel and error codes that cross | `Wire`, `Upload`, `Download`, `Streams` |
| Daemon | processes, signals, listening socket | accept loop, double fork, reload | fork failures, reaping, a reload that races | `Daemon` |
| ACE | module, pipes, two threads | RUN_NL, RUN_BUF | threads, module and client that wait for each other | `Ace` |
| IME | folders, time stamps, login lock, two threads | SETUP, UNIT, USR, SNDMSG, EXIT, the scan | scans against arrivals, unique logins | `Ime` |

The proofs about a module `M` are in `MProofs`; `MCM` holds the values of the
constants for a run, where the configuration file cannot state them.
`PROJECT.json` lists every part with its sources, the lines behind each
definition, and the hazards with the property that covers each.

## Modules and code

**RecordLock** has no state of its own. It gives the effect of `crtlock()`,
`close()` and `exit()` on the function from files to owning processes, and the
four lock users instantiate it.

**NetMutex** models `cmd_netmutacqtry()` and `cmd_netmutrel()`. The record `h[s]`
is the handler of session `s`: `opened` (file open), `locked` (`crtlock`
returned), `free` or `taken` (what `stat()` said), `done` (result decided, lock
held), `replying` (file closed). Each system call that changes or reads shared
state is one action. `Faults` lets any call fail, `writechunk()` after any prefix
of the token; `Kill` ends a session anywhere; `Drop` loses a connection whose
request goes on. `holding[c]` is what the client believes. A token is a sequence
of characters, as its length and prefixes matter. The one byte that
`tok[rb] = '\0'` writes behind the buffer for a full read is not modelled.

**TokenMutex** is the abstract mutex. NetMutex implements it with
`inside <- {c : holding[c]}`.

**IntFile** models `cmd_intread()` and `cmd_intwrite()`; a file's content stands
for its hash. `sha256sum()` opens and closes the file, and `RecordLock` then takes
the lock away. `writechunk()` returns the length of its last `write()` only, so a
payload written in two pieces is answered -1 although it is complete:
`WriteFails` includes it. `old` and `new` of a handler are history: the version
its `ftruncate()` removed and the one its write left; `acked` collects both for
each INTWRITE that was answered 0.

**GuardedUpdate** extends NetMutex with an instance `F` of IntFile over the same
sessions: clients use the integrity commands only while they hold the mutex.

**NetLock** models the table `netlck[]`, `netlock_switch()`, `cmd_netunlock()` and
`netlock_wdg()`. `io[s]` counts network operations and `comm.act` is
`io % ActMod`. One message counts as one operation (the code makes two calls or
more). `stale` holds what cancelled watchdogs that have not stopped yet saw last.
A session in `FreeUse` has a client that also uses a locked file with other
commands, which drops the lock.

**SecureFs** models the files `.securefs_metadata`, `.rd` and the swap file of one
directory. SETFSPERM and REMFSPERM take ten steps under the lock of a third file;
a check (`secfs_proc()`) reads `.rd` once or twice without a lock. Masks are sets
of three bits: set, remove, and one for all uses. `First` is the line of an
identity that `getfsidperm()` stops at, as a set of one position or none.
`could` and `chg` are history
variables of a check, `granted` and `short` of the directory.

**Session** models one session from `chkproto()` to its end. The set `closed`
stands for `logged`, `injail`, `locksys` and `flycontext`, and `Order` for the
order in which `cmd_parse()` asks for them; `dbdir` is a sequence
of names. All commands after the gates are one action, `Command`.

**FaiToken** models `cmd_faitok()`, `chkfaitok()` and `renewfaikey()` over the
token files, with a clock in minutes. `hurt` remembers the tokens whose renewal
was cut short by a lost connection or a dead session.

**Wire, Upload, Download, Streams.** `Wire` holds the two directions of the
connection, bounded by `Cap` messages, the file as a sequence of blocks, the place
of the session (`srv`) and of the client (`cli`). `Upload` and `Download` have one
action per wait of the handlers in `src/src/cmd.c`; the client, which is external,
may do whatever the documentation lets it do. A block and its header are one
message, as one thread writes both. `writechunk()` writes a block at once, in
pieces (and then returns the length of the last piece), in part, or not at all.
`rc` of `cmd_sup()` starts with any value. `Streams` composes the two, so that a
transfer that goes wrong shows in the next one.

**Daemon** has the processes of a server: `rl` is `main()` in `rlwait()`,
`acc[g][i]` the acceptors of the server `g` (each reload starts a new one), `mid`
and `ses` the two processes of a connection. `usr` and `int` are the processes
with a pending signal. `Listening(g)` is derived from who holds the socket.

**Ace** has one variable per thread (`main`, `rd`, `wr`), the module as a process
(`run`, `zombie`, `reaped`) that reads, writes, closes its output and exits as it
likes, pipes of `PipeCap` lines and sockets of `Cap` messages. The header and the
payload of an output line are two messages, as two threads write to the socket.
RUN_NL and RUN_BUF differ in how lines are delimited and share the model.

**Ime** has a record per session with both threads (`rd`, `wr`), `ready`, the
options, `tmstmp` and the list a scan works through; folders are sequences in the
order of arrival. `exmut` is held while `wr` is `"scan"`. `got`, `raced` and `sole`
are history variables. Clients keep the documented order of opcodes.

## Runs

| Run | Instance | Shows |
|---|---|---|
| `netmutex` | 2 clients, 2 sessions, all faults | exclusion, persistence, refinement, every command ends |
| `guarded_update` | 2 clients, 2 sessions, all faults | no lost update, consistent reads under the mutex |
| `netlock` | 2 sessions, 2 files, table of 2 | ownership, no orphan lock, only idle holders expire, waits end |
| `securefs` | 2 sessions, 2 identities, all faults | no lost line, whole publication, only granters add, checks sound against one edit |
| `session` | 2 users, every configuration, depth 3 | gates in order, user, failures change nothing, end with the peer |
| `faitoken` | 2 sessions, 2 tokens, 4 keys, 4 minutes | entry in time, agreed key, no wrong denial |
| `streams` | 2 transfers of 3 blocks, sockets of 2, all faults | both sides in step, vouched data stored, cancelled data removed, whole downloads, every transfer ends |
| `daemon` | 2 acceptors, 1 worker, 2 connections, 1 signal | sessions survive a reload, exit, the queue is served, the daemon is up or wholly down |
| `ace` | 2 runs, 3 lines in and out, pipes of 1, sockets of 2 | runs in step, signals hit the module, whole output, runs end |
| `ime` | 2 sessions of one user, 2 messages, 2 seconds | unique login, no message passed over but for known reasons, nothing due for ever, sessions end |

Two more runs find a violation of what a document says: `intfile_cas` (an
INTWRITE is answered 0 although it replaced a version other than the one whose
hash it named, as `sha256sum()` drops the lock) and
`daemon_reload` (a SIGUSR1 that takes the daemon down, as the new server binds
while the old one has not let go of the port). `PROJECT.json` lists these and
further disagreements between documents and code under `findings`.

Some properties name an exception, a case in which the code does not do what one
would expect: `Spins` (GET of a client that is gone before its FIN), a short write
of SNDFILE in `StoredIsSent`, `Deaf` (ACE), `stuck` (IME), `Alone` (an acceptor
that waits for workers), and the three reasons in `PassedOver`. The run shows that
there is no other.

**Bounds.** Every race between handlers is between two processes, so two sessions
exhibit each of them; the theorems cover any number. Two files and a table of two
let a session fill its table and two sessions wait in a cycle. Tokens are one
letter and STDSTR is 2, so a prefix of a token exists. `MaxIO` gives one session
three commands and the other two: enough to lock, unlock and lock again with the
old watchdog still running. `MaxLines` = 1 in `SecureFs` limits requests, not
files: two requests sent while the file is empty make two lines. `MaxWrites` = 2
in `IntFile` lets two updates name the same version. `MaxKey` = 4 and
`MaxTime` = 4 let a token of the maximum 2 minutes be renewed twice and expire.
Transfers of three blocks over sockets of two messages fill both directions, pass
a cancellation point and end between two; two transfers show what the first left
behind. Three lines and pipes of one block the reading thread, the writing thread
and the module at the same time. Two acceptors make the chain, where the first
waits for the second; one signal suffices for a reload, and each process takes it
when it likes. Two messages in two seconds share a second, follow each other, or
arrive late.

`Session`, `FaiToken`, `Streams`, `Daemon`, `Ace` and `Ime` set `CHECK_DEADLOCK
FALSE`: sessions, modules and daemons end for good, and keys, commands and the
clock run out. That nothing waits for ever is a liveness property of each of
`Streams`, `Daemon`, `Ace` and `Ime` instead.

**Fairness.** Sessions, threads and watchdogs are scheduled by the operating
system, so their enabled steps happen (WF); `sleep()` ends; the kernel does not
starve a process waiting in `F_SETLKW` (SF on the grant). A read from a connection
that is closed, or whose keepalive probes fail, returns. In `Streams` and `Ace` a
client that is there reads what it is sent and ends a transfer it has begun, but
need not begin or cancel anything; it may vanish at any time. In `Ace` the module
need not do anything. In `Daemon` processes take pending signals; connections and
signals are finite in number, so that WF on the system as a whole is enough. In
`Ime` only the two threads are fair. Nothing forces a client or an operator to act
otherwise.

## Proofs

All proofs hold for every value of the constants that the named assumptions
allow, with all faults and deaths of the modelled sessions. None of the invariants
below is inductive alone, except where that is said. Each strengthened invariant
was first checked with TLC on the instance of the run.

**`NetMutexProofs`**, for any clients and sessions:

* `Typing`: `Spec => []TypeOK`;
* `Recorded`: the file holds the token of the client that holds the mutex;
* `Exclusion`: at most one client holds it;
* `Refinement`: `Spec` implements `TokenMutex`;
* `GuardedWrites` (`NoLostUpdate`) and `GuardedReads` (`ReadConsistent`) about
  `GuardedUpdate`, for any bytes, payloads and number of writes.

All but the first assume `Discipline`: tokens fit in STDSTR bytes, and a client
awaits the reply of its NETMUTREL or the end of that session. Both are needed: a
longer token is read back cut and never released, and a NETMUTREL carried out
after its client has acquired the mutex again frees a mutex that is held.

`MutualExclusion` follows from `HolderRecorded`, as two holders would find two
tokens in one file. To keep `HolderRecorded` the invariant `IInv` adds that a
handler inside the file owns its lock (`LockHeld`), that what `stat()` found is
still true (`FreeIsFree`), that the content is never longer than what is read back
(`FileFits`), that a client waits only for a session that works for it
(`PendServed`), that a release is awaited by a client outside its critical section
(`RelAwaited`), and that an OK on its way to a client is backed by the file
(`OkRecorded`, with `NotYetOk`). The proof has one case per action.

`GuardInv` adds to `IInv` that a handler of INTREAD or INTWRITE works for a client
that waits for it inside its critical section (`FileServed`). By exclusion there is
one such handler at most, so that what it has read, compared and truncated is
still so at its next step (`Agrees`). Its own record lock, which `sha256sum()`
drops, is not used in the argument; without the mutex `intfile_cas` shows the
opposite.

**`NetLockProofs`**, for any sessions, files and length of the table: `Granted`
(`GrantedIsOwned`) and `NoOrphan` (`NoOrphanLock`), wherever `comm.act` wraps.
`LockInv` adds to the two that a NETLOCK under way has a free entry and, once it
has the lock, an entry of that file with a watchdog (`Pending`), that exactly the
used entries have watchdogs and no file is in two (`Table`), and that entries and
owners correspond in both directions (`Owns`). A lemma reduces each action to the
one session it changes.

`IdleEnds` (`OnlyIdleExpires`) is about a step. It assumes `NoWrap`: no session
does as many network operations as `comm.act` has values, so that two counts that
look the same are the same. The code does not guarantee that, and with a small
`ActMod` TLC finds a busy session that expires (see `findings`); the theorem says
that this is the only way. The danger is a watchdog that NETUNLOCK cancelled and
that still runs, with a count of long ago. `IdleInv` has that what such a
watchdog saw is less than the count at the time, and what an armed one saw is at
most that, and that a command under way has its answer still to come (`Counted`).

**`SecureFsProofs`**, for any sessions, identities, lines and lengths of the files:
`Published` (`OkIsPublished`), `WholeVersions` (`RdIsWhole`) and `GrantersAdd`
(`OnlyGrantersAdd`). `FsInv` has that a handler at work owns the lock of the third
file (`LockHeld`), hence is alone, and that what it copied is still what it copied
from, with the permission it found in it (`CopyIsMeta`).

`LinesStay` (`NoLostLine`) and `OneChange` (`CheckOneChange`) rest on `LinesInv`,
which says which files are there at each point of a handler (`FilesOk`), that the
copy which replaces meta is meta with the one edit, and that granted lines are in
meta unless an `fclose()` has failed (`EditOk`), and that a check which goes on has
its answer in a version of rd that it has seen, also when it found nothing for its
identity and rd has changed by one edit since (`CheckOk`).

**`SessionProofs`**, for any users, names and depth: `SessionUser` (`RunsAsUser`),
inductive together with the type of the default user; `FailuresKeep`
(`FailureKeeps`), which needs no invariant; and `GatesPassed` (`GatesInOrder`).
`GateInv` has that the gates passed are those of the configuration that are closed
no longer, in increasing `Order` and each before every gate still closed
(`Passed`), none of them before the loop.

**`FaiTokenProofs`**, for any sessions, tokens, clock and number of keys:
`EntryTime` (`EntryInTime`): `FaiInv` has that the time in a token's file, and the
time a session is about to write there, is the one it was issued with
(`TimeKept`), whoever renews it and whatever is cut short. `SameKey` (`KeyAgreed`)
and `DeniedLate` (`DeniedIsExpired`): `KeyInv` adds that a token is issued by one
session, and nobody else has it before the reply (`Once`), that a session which
checks or renews a token that is not hurt does so for the client that waits for it
(`Attended`), and that the key in the file is the one the client has or is about to
be sent, but while the file is written or once the token has expired (`Held`).

**`AceProofs`**, for any number of runs and lines and any capacity of pipes and
sockets: `SignalsHit` (`SignalHitsModule`): the reading thread lives only between
`pthread_create()` and `pthread_join()` (`ThreadLife`), and nobody else waits for
the module in between. `RunsInStep` (`RunInStep`) and `OutputWhole`
(`OutputIsWhole`): `RunInv` says which messages may be on their way in each
direction for each place of the threads and of the client (`UpWay`, `ClientWay`,
`DownWay`, `OutputEnds`), and counts what the client will have got at each of
them (`DownTally`). The count is a function on the positions of the queue that
starts at `me.got`, ends at `wrote` less what is in the pipe, and grows with each
payload.

**`ImeProofs`**, for any sessions, users, options and messages: `Logins`
(`OneLogin`): `LoginInv` adds that a session has a user only when it has done the
other steps too, since USR comes last and UNIT is refused after it (`UserLast`):
otherwise UNIT alone could complete a login of whose lock nothing is known.
`Passing` (`PassedOver`): `MsgInv` has for each session that what it has passed
over has an excuse (`NoneLost`, `Excused`), that its time stamp is either the one of
SETUP, before everything that is to come, or the second of a message of the folder
(`Asked`, `Reached`), and that the list of a scan is in the order of seconds and
misses only messages that came after all of its members (`Scanned`).

Only model-checked:

* every liveness property (`Spec` with fairness and ENABLED are beyond the prover);
* the properties of `Streams`. They relate both ends of a protocol of eight
  commands, and their invariant says for each command and each pair of places what
  may be in the two sockets;
* `SessionsSurvive` of `Daemon`, whose processes are nested by server and
  connection and told apart by who was forked by whom.

## Not modelled

* Ciphers, framing, paths and their normalisation, the text of messages and the
  configuration parser.
* The cipher switches (GOAES, TFPCRYPTO, NIGMA, CIAON, CIAOFF): one thread on each
  side switches between two messages of a strict dialogue.
* The file commands with the directory lock (TOUCH, DEL, COPY, RENAM, MKDIR,
  RMDIR, LOCK, TASFS): each is a test and a call of the operating system, and no
  document says what they exclude. TOUCH, for one, tests for the file and opens
  it without `O_EXCL` (`src/src/cmd.c:1208`), so that two clients may both create
  it.
* GETFSPERM and ISSECFS, which only read. A second FAITOK in a session that came
  in with a token. Descriptor leaks. The loss of the connection during INTREAD and
  INTWRITE in `GuardedUpdate`. The byte that `tok[rb] = '\0'` writes behind the
  buffer for a full read. OPC_TIMER of IME, names that are too long there, and
  opcodes out of order. The debug build of the daemon.
* What the UDP workers answer, the out of band counter, notifications and the
  transport helper: polling and forwarding, with no state that other parts read.
* ACE's keys, arguments and buffer sizes, RUN and RUN_BK; XS1, the SQL subsystems
  and NTMEX: tables used by one thread, and calls of libraries.
* The gateway and the RPC proxy. Their threads and pipes are like those of ACE;
  two places deserve attention: the gateway is freed when its count of threads is
  0, while a new thread counts itself only once it runs
  (`src/src/xs_gateway/xs_gateway.c:185`), and the RPC proxy writes the whole
  request before it reads any output (`src/src/xs_rpcproxy/xs_rpcproxy.c:64`).
* `src/docs/_static/*.js`: third-party scripts of the documentation pages, no part
  of the program.
* Liveness under fairness is not proved: TLAPS does not reason about it here.
