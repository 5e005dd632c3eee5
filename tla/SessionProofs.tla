--------------------------- MODULE SessionProofs ----------------------------
(***************************************************************************)
(* Proofs about Session, for any users, names and depth of directories,    *)
(* and with every call of the operating system that Session lets fail.     *)
(***************************************************************************)
EXTENDS Session, TLAPS

(* Only the gate of LOGIN is behind a change of user.                      *)
LEMMA OtherGates ==
    ASSUME NEW g \in {"INJAIL", "LOCKSYS", "FLYCONTEXT"}, Open(g)
    PROVE  "LOGIN" \in closed <=> "LOGIN" \in closed'
  BY DEF Open

(* setgid() and setuid() that both went well leave a user and that user's  *)
(* group; they are tried by the user of the daemon only.                   *)
LEMMA BecomeUser ==
    ASSUME NEW u \in Users, RunsAsUser
    PROVE  /\ Become(u, TRUE) => uid' \in Users /\ gid' = uid'
           /\ \A ok \in BOOLEAN : Become(u, ok) => "LOGIN" \in closed
  BY SessionAssumption DEF Become, RunsAsUser

(* The default user is an account, or none, in every state.                *)
DefaultUser == defusr \in Users \cup {NoUser}

UserInv == DefaultUser /\ RunsAsUser

(* The daemon starts a session as its own user, with the gate closed.      *)
LEMMA UserInit == Init => UserInv
  BY DEF Init, UserInv, DefaultUser, RunsAsUser

(* Entering the loop opens the gate only as the default user.              *)
LEMMA EnterStep ==
    ASSUME UserInv, Enter
    PROVE  RunsAsUser'
<1>1. CASE defusr # NoUser
  <2>1. defusr \in Users
    BY <1>1 DEF UserInv, DefaultUser
  <2>2. CASE Become(defusr, TRUE)
    BY <2>1, <2>2, BecomeUser, Zenon DEF UserInv, RunsAsUser
  <2>3. CASE Become(defusr, FALSE) /\ UNCHANGED <<closed, conf>>
    BY <2>1, <2>3, BecomeUser, Zenon DEF UserInv, RunsAsUser
  <2> QED  BY <1>1, <2>2, <2>3, Zenon DEF Enter
<1>2. CASE defusr = NoUser
  BY <1>2 DEF Enter, UserInv, RunsAsUser
<1> QED  BY <1>1, <1>2

(* No step of the handshake or of a command breaks RunsAsUser.             *)
LEMMA UserStep == UserInv /\ [Next]_vars => UserInv'
<1> SUFFICES ASSUME UserInv, [Next]_vars PROVE UserInv'
  OBVIOUS
<1>0. DefaultUser'
  BY Zenon DEF UserInv, DefaultUser, Next, vars, Version, Key, Hash, Refuse, Command,
         GateFails, Login, InJail, LockSys, FlyContext, KeepAlive, EndCmd,
         Leave, ReadFails
<1> SUFFICES RunsAsUser'
  BY <1>0 DEF UserInv
<1>1. ASSUME NEW w, Version(w) PROVE RunsAsUser'
  <2>1. CASE Enter
    BY <2>1, EnterStep
  <2>2. CASE ~Enter
    BY <1>1, <2>2 DEF Version, Hang, UserInv, RunsAsUser
  <2> QED  BY <2>1, <2>2
<1>2. ASSUME NEW good \in BOOLEAN, Key(good) PROVE RunsAsUser'
  BY <1>2 DEF Key, Hang, UserInv, RunsAsUser
<1>3. ASSUME NEW good \in BOOLEAN, Hash(good) PROVE RunsAsUser'
  <2>1. CASE good
    BY <1>3, <2>1, EnterStep DEF Hash
  <2>2. CASE ~good
    BY <1>3, <2>2 DEF Hash, Hang, UserInv, RunsAsUser
  <2> QED  BY <2>1, <2>2
<1>4. ASSUME NEW good \in BOOLEAN, NEW u \in Users, Login(u, good)
      PROVE RunsAsUser'
  <2>1. CASE Become(u, TRUE)
    BY <1>4, <2>1, BecomeUser, Zenon DEF Login, UserInv, RunsAsUser
  <2>2. CASE Become(u, FALSE) /\ UNCHANGED closed
    BY <1>4, <2>2, BecomeUser, Zenon DEF UserInv, RunsAsUser
  <2>3. CASE UNCHANGED <<uid, gid, closed>>
    BY <2>3 DEF UserInv, RunsAsUser
  <2> QED  BY <1>4, <2>1, <2>2, <2>3, Zenon DEF Login
<1>5. ASSUME NEW n \in Names, NEW found \in BOOLEAN, InJail(n, found)
      PROVE RunsAsUser'
  BY <1>5, OtherGates DEF InJail, UserInv, RunsAsUser
<1>6. ASSUME NEW n \in Names, LockSys(n) \/ FlyContext(n) PROVE RunsAsUser'
  BY <1>6, OtherGates DEF LockSys, FlyContext, UserInv, RunsAsUser
<1>7. CASE UNCHANGED <<closed, uid, gid>>
  BY <1>7 DEF UserInv, RunsAsUser
<1> QED
  BY <1>1, <1>2, <1>3, <1>4, <1>5, <1>6, <1>7
     DEF Next, vars, Refuse, Command, GateFails, KeepAlive, EndCmd, Leave,
         ReadFails

(* Past the gate of LOGIN a session runs as one user, with that user's     *)
(* group, for every configuration of cmd_parse() and every failure of      *)
(* setgid() and setuid().                                                  *)
THEOREM SessionUser == Spec => []RunsAsUser
<1>1. UserInv => RunsAsUser
  BY DEF UserInv
<1> QED  BY <1>1, UserInit, UserStep, PTL DEF Spec

-----------------------------------------------------------------------------
(* What FailureKeeps says of one step.                                     *)
Keeps == last'.told = "fail" => UNCHANGED <<closed, dbdir, uid>>

(* Every step that moves the session on, or opens a gate, tells something  *)
(* else than a failure; LOGIN fails before setuid() had an effect.         *)
LEMMA KeepsStep == Next => Keeps
<1> SUFFICES ASSUME Next PROVE Keeps
  OBVIOUS
<1> USE DEF Keeps
<1>0. ASSUME NEW w, NEW t, Told(w, t), t # "fail" PROVE Keeps
  BY <1>0 DEF Told
<1>1. ASSUME NEW w \in {"version", "badversion", "token", "badtoken"},
             Version(w)
      PROVE Keeps
  BY <1>0, <1>1 DEF Version, Hang
<1>2. ASSUME NEW good \in BOOLEAN, Key(good) \/ Hash(good) PROVE Keeps
  BY <1>0, <1>2 DEF Key, Hash, Hang
<1>3. ASSUME NEW c \in Cmds, Refuse(c) \/ Command(c) \/ GateFails(c)
      PROVE Keeps
  BY <1>3 DEF Refuse, Command, GateFails
<1>4. ASSUME NEW good \in BOOLEAN, NEW u \in Users, Login(u, good)
      PROVE Keeps
  <2>1. CASE Open("LOGIN")
    BY <1>0, <2>1 DEF Open
  <2>2. CASE ~Open("LOGIN")
    BY <1>4, <2>2 DEF Login, Become
  <2> QED  BY <2>1, <2>2
<1>5. ASSUME NEW n \in Names, NEW found \in BOOLEAN, InJail(n, found)
      PROVE Keeps
  <2>1. CASE Open("INJAIL")
    BY <1>0, <2>1 DEF Open
  <2>2. CASE ~Open("INJAIL")
    BY <1>5, <2>2 DEF InJail
  <2> QED  BY <2>1, <2>2
<1>6. ASSUME NEW n \in Names, LockSys(n) \/ FlyContext(n) PROVE Keeps
  BY <1>0, <1>6 DEF LockSys, FlyContext, Open
<1>7. CASE UNCHANGED <<closed, dbdir, uid>>
  BY <1>7
<1> QED
  BY <1>1, <1>2, <1>3, <1>4, <1>5, <1>6, <1>7
     DEF Next, KeepAlive, EndCmd, Leave, ReadFails

(* A command of cmd.c that answers a failure has left the gates, the       *)
(* directory and the user of the session as they were.                     *)
THEOREM FailuresKeep == Spec => FailureKeeps
<1>1. [Next]_vars => [Keeps]_vars
  BY KeepsStep
<1> QED  BY <1>1, PTL DEF Spec, FailureKeeps, Keeps

-----------------------------------------------------------------------------
(* The gates a client passed are those that were closed and are no longer, *)
(* in the order of cmd_parse(), and each comes before every gate that is   *)
(* still closed; before the loop there are none.  A command was served     *)
(* last only if no gate is closed.                                         *)
Passed ==
    /\ passed \in Seq(Gates)
    /\ Range(passed) = conf \ closed
    /\ \A i, j \in DOMAIN passed : i < j => Order[passed[i]] < Order[passed[j]]
    /\ \A i \in DOMAIN passed, g \in closed : Order[passed[i]] < Order[g]

GateInv ==
    /\ conf \subseteq Gates /\ closed \subseteq conf
    /\ Passed
    /\ phase \notin {"loop", "ended"} => passed = <<>>
    /\ last = [what |-> "FILE", told |-> "ok"] => closed = {}

(* The gates, and their places in the order.                               *)
LEMMA Ranks ==
    /\ Gates = {"LOGIN", "INJAIL", "LOCKSYS", "FLYCONTEXT"}
    /\ \A g \in Gates : Order[g] \in 1 .. 4
    /\ \A g, k \in Gates : Order[g] = Order[k] => g = k
    /\ \A g \in Gates : 1 <= Order[g] /\ Order["LOGIN"] = 1
  BY DEF Gates, Order

(* cmd_parse() finds the first gate that is closed, if there is one.       *)
LEMMA FirstGate ==
    ASSUME closed \subseteq Gates
    PROVE  /\ closed = {} => Pending = "none"
           /\ closed # {} => Pending \in closed
           /\ \A k \in closed : Order[Pending] <= Order[k]
<1>1. CASE closed = {}
  BY <1>1 DEF Pending
<1>2. CASE closed # {}
  <2>1. \E g \in closed : \A k \in closed : Order[g] <= Order[k]
    <3>1. CASE "LOGIN" \in closed
      BY <3>1, Ranks
    <3>2. CASE "LOGIN" \notin closed /\ "INJAIL" \in closed
      BY <3>2, Ranks DEF Order
    <3>3. CASE "LOGIN" \notin closed /\ "INJAIL" \notin closed /\ "LOCKSYS" \in closed
      BY <3>3, Ranks DEF Order
    <3>4. CASE closed \subseteq {"FLYCONTEXT"}
      <4>1. "FLYCONTEXT" \in closed
        BY <1>2, <3>4, Zenon
      <4>2. \A k \in closed : k = "FLYCONTEXT"
        BY <3>4
      <4>3. Order["FLYCONTEXT"] <= Order["FLYCONTEXT"]
        BY DEF Order
      <4> QED  BY <4>1, <4>2, <4>3, Zenon
    <3>5. closed \subseteq {"LOGIN", "INJAIL", "LOCKSYS", "FLYCONTEXT"}
      BY Ranks
    <3> QED  BY <3>1, <3>2, <3>3, <3>4, <3>5
  <2>2. Pending = CHOOSE g \in closed : \A k \in closed : Order[g] <= Order[k]
    BY <1>2 DEF Pending
  <2> QED  BY <1>2, <2>1, <2>2
<1> QED  BY <1>1, <1>2

(* The last message was a command, and it was served.                      *)
FileServed == last = [what |-> "FILE", told |-> "ok"]

(* A step that passes no gate.                                             *)
LEMMA GatesKept ==
    ASSUME GateInv, UNCHANGED <<conf, closed, passed>>,
           phase' \notin {"loop", "ended"} => phase \notin {"loop", "ended"},
           FileServed' => FileServed \/ closed = {}
    PROVE  GateInv'
<1>1. Passed'
  BY DEF GateInv, Passed
<1> QED  BY <1>1 DEF GateInv, FileServed

(* The first closed gate is opened, or one that is open already.           *)
LEMMA GateOpens ==
    ASSUME GateInv, NEW g \in Gates, Open(g), UNCHANGED <<conf, phase>>,
           phase = "loop",
           g \in closed => \A k \in closed : Order[g] <= Order[k]
    PROVE  GateInv'
<1>1. /\ conf \subseteq Gates /\ closed \subseteq conf /\ passed \in Seq(Gates)
      /\ closed' = closed \ {g} /\ conf' = conf
  BY DEF GateInv, Passed, Open
<1>2. ~FileServed' \/ closed' = {}
  <2>1. last'.what = g /\ g # "FILE"
    BY Ranks DEF Open, Told
  <2> QED  BY <2>1 DEF FileServed
<1>3. CASE g \notin closed
  BY <1>1, <1>2, <1>3, GatesKept DEF Open, GateInv
<1>4. CASE g \in closed
  <2> DEFINE n == Len(passed)
             q == Append(passed, g)
  <2>1. /\ passed' = q /\ n \in Nat /\ q \in Seq(Gates)
        /\ DOMAIN passed = 1 .. n /\ DOMAIN q = 1 .. n + 1
        /\ \A i \in 1 .. n : q[i] = passed[i] /\ q[i] \in Gates
        /\ q[n + 1] = g
    BY <1>1, <1>4 DEF Open
  <2>2. \A i \in 1 .. n : Order[passed[i]] < Order[g]
    BY <1>4, <2>1 DEF GateInv, Passed
  <2>3. \A i, j \in 1 .. n : i < j => Order[passed[i]] < Order[passed[j]]
    BY <2>1 DEF GateInv, Passed
  <2>4. \A i \in 1 .. n, k \in closed : Order[passed[i]] < Order[k]
    BY <2>1 DEF GateInv, Passed
  <2>5. Range(passed) = conf \ closed
    BY DEF GateInv, Passed
  <2> HIDE DEF n, q
  <2>6. Range(q) = conf \ (closed \ {g})
    <3>1. ASSUME NEW x \in Range(q) PROVE x \in Range(passed) \/ x = g
      BY <2>1 DEF Range
    <3>2. ASSUME NEW x \in Range(passed) PROVE x \in Range(q)
      BY <2>1 DEF Range
    <3>3. g \in Range(q) /\ g \in conf
      BY <1>1, <1>4, <2>1 DEF Range
    <3> QED  BY <2>5, <3>1, <3>2, <3>3
  <2>7. \A i, j \in DOMAIN q : i < j => Order[q[i]] < Order[q[j]]
    BY <2>1, <2>2, <2>3
  <2>8. ASSUME NEW i \in DOMAIN q, NEW k \in closed \ {g}
        PROVE  Order[q[i]] < Order[k]
    <3>1. CASE i = n + 1
      <4>1. k \in Gates /\ Order[g] <= Order[k] /\ Order[g] # Order[k]
        BY <1>1, <1>4, Ranks
      <4> QED  BY <1>1, <2>1, <3>1, <4>1, Ranks
    <3>2. CASE i \in 1 .. n
      BY <2>1, <2>4, <3>2
    <3> QED  BY <2>1, <3>1, <3>2
  <2>9. Passed'
    BY <1>1, <2>1, <2>6, <2>7, <2>8 DEF Passed
  <2> QED  BY <1>1, <1>2, <2>9 DEF GateInv, FileServed
<1> QED  BY <1>3, <1>4

(* The loop is entered, with the gate of LOGIN or without.                 *)
LEMMA GatesAtEntry ==
    ASSUME GateInv, Enter, phase \notin {"loop", "ended"}, UNCHANGED passed,
           ~FileServed'
    PROVE  GateInv'
<1>1. /\ passed = <<>> /\ passed' = <<>> /\ conf \subseteq Gates
      /\ closed \subseteq conf /\ Range(passed) = conf \ closed
      /\ phase' = "loop"
  BY DEF GateInv, Passed, Enter
<1>2. Range(<<>>) = {} /\ <<>> \in Seq(Gates) /\ DOMAIN <<>> = {}
  BY DEF Range
<1>3. closed = conf
  BY <1>1, <1>2
<1>4. closed' = conf' /\ conf' \subseteq conf
  BY <1>3, Zenon DEF Enter
<1>5. Passed'
  BY <1>1, <1>2, <1>4 DEF Passed
<1> QED  BY <1>1, <1>4, <1>5 DEF GateInv, FileServed

(* No step of the handshake or of a command breaks the order.              *)
LEMMA GateStep == GateInv /\ [Next]_vars => GateInv'
<1> SUFFICES ASSUME GateInv, [Next]_vars PROVE GateInv'
  OBVIOUS
<1> USE DEF InLoop
<1>0. closed \subseteq Gates
  BY DEF GateInv
<1>1. ASSUME NEW w, NEW t, Told(w, t), w # "FILE" PROVE ~FileServed'
  BY <1>1 DEF Told, FileServed
<1>2. ASSUME NEW w, NEW t, Hang(w, t), UNCHANGED passed, w # "FILE" PROVE GateInv'
  <2>1. ~FileServed'
    BY <1>1, <1>2 DEF Hang
  <2> QED  BY <1>2, <2>1, GatesKept DEF Hang
<1>3. ASSUME NEW w \in {"version", "badversion", "token", "badtoken"},
             Version(w)
      PROVE GateInv'
  <2>1. w # "FILE" /\ phase = "version" /\ UNCHANGED passed
    BY <1>3 DEF Version
  <2>2. CASE Told(w, "ok") /\ Enter
    BY <1>1, <2>1, <2>2, GatesAtEntry
  <2>3. CASE Told(w, "ok") /\ phase' = "key" /\ UNCHANGED <<closed, conf>>
    BY <1>1, <2>1, <2>3, GatesKept
  <2> QED  BY <1>2, <1>3, <2>1, <2>2, <2>3 DEF Version
<1>4. ASSUME NEW good \in BOOLEAN, Key(good) PROVE GateInv'
  <2>1. CASE good
    BY <1>1, <1>4, <2>1, GatesKept DEF Key
  <2>2. CASE ~good
    BY <1>2, <1>4, <2>2 DEF Key
  <2> QED  BY <2>1, <2>2
<1>5. ASSUME NEW good \in BOOLEAN, Hash(good) PROVE GateInv'
  <2>1. CASE good
    BY <1>1, <1>5, <2>1, GatesAtEntry DEF Hash
  <2>2. CASE ~good
    BY <1>2, <1>5, <2>2 DEF Hash
  <2> QED  BY <2>1, <2>2
<1>6. ASSUME NEW c \in Cmds, Refuse(c) \/ GateFails(c) PROVE GateInv'
  <2>1. UNCHANGED <<phase, conf, closed, passed>>
    BY <1>6 DEF Refuse, GateFails
  <2>2. ~FileServed'
    <3>1. CASE Refuse(c)
      BY <1>0, <3>1, FirstGate, Ranks DEF Refuse, Told, FileServed
    <3>2. CASE GateFails(c)
      BY <1>1, <3>2 DEF GateFails
    <3> QED  BY <1>6, <3>1, <3>2
  <2> QED  BY <2>1, <2>2, GatesKept
<1>7. ASSUME NEW c \in Cmds, Command(c) PROVE GateInv'
  <2>1. UNCHANGED <<phase, conf, closed, passed>>
    BY <1>7 DEF Command
  <2>2. CASE c = "FILE"
    <3>1. closed = {}
      BY <1>0, <1>7, <2>2, FirstGate, Ranks DEF Command, Served
    <3> QED  BY <2>1, <3>1, GatesKept
  <2>3. CASE c # "FILE"
    BY <1>1, <1>7, <2>1, <2>3, GatesKept DEF Command
  <2> QED  BY <2>2, <2>3
<1>8. ASSUME NEW g \in Gates, Open(g), UNCHANGED <<conf, phase>>, phase = "loop",
             g = Pending \/ Pending = "none" \/ g = "LOGIN"
      PROVE GateInv'
  <2>1. g \in closed => \A k \in closed : Order[g] <= Order[k]
    BY <1>0, <1>8, FirstGate, Ranks
  <2> QED  BY <1>8, <2>1, GateOpens
<1>9. ASSUME NEW good \in BOOLEAN, NEW u \in Users, Login(u, good)
      PROVE GateInv'
  <2>1. UNCHANGED <<conf, phase>> /\ phase = "loop" /\ "LOGIN" \in Gates
    BY <1>9, Ranks DEF Login
  <2>2. CASE Open("LOGIN")
    BY <1>8, <2>1, <2>2
  <2>3. CASE Told("LOGIN", "fail") /\ UNCHANGED <<closed, passed>>
    BY <1>1, <2>1, <2>3, GatesKept
  <2> QED  BY <1>9, <2>2, <2>3, Zenon DEF Login
<1>10. ASSUME NEW n \in Names, NEW found \in BOOLEAN, InJail(n, found)
       PROVE GateInv'
  <2>1. /\ UNCHANGED <<conf, phase>> /\ phase = "loop" /\ "INJAIL" \in Gates
        /\ Pending = "INJAIL"
    BY <1>10, Ranks DEF InJail
  <2>2. CASE Open("INJAIL")
    BY <1>8, <2>1, <2>2
  <2>3. CASE Told("INJAIL", "fail") /\ UNCHANGED <<closed, passed>>
    BY <1>1, <2>1, <2>3, GatesKept
  <2> QED  BY <1>10, <2>2, <2>3 DEF InJail
<1>11. ASSUME NEW n \in Names, LockSys(n) PROVE GateInv'
  BY <1>8, <1>11, Ranks DEF LockSys
<1>12. ASSUME NEW n \in Names, FlyContext(n) PROVE GateInv'
  <2>1. Pending \in {"FLYCONTEXT", "none"}
    BY <1>12 DEF FlyContext, Served
  <2> QED  BY <1>8, <1>12, <2>1, Ranks DEF FlyContext
<1>13. ASSUME NEW on \in BOOLEAN, KeepAlive(on) PROVE GateInv'
  BY <1>1, <1>13, GatesKept DEF KeepAlive
<1>14. CASE EndCmd
  BY <1>1, <1>14, GatesKept DEF EndCmd
<1>15. CASE (\E p \in {"closed", "silent"} : Leave(p)) \/ ReadFails \/ UNCHANGED vars
  BY <1>15, GatesKept DEF Leave, ReadFails, vars, FileServed
<1> QED
  BY <1>3, <1>4, <1>5, <1>6, <1>7, <1>9, <1>10, <1>11, <1>12, <1>13, <1>14,
     <1>15 DEF Next

(* No gate is passed at first.                                             *)
LEMMA GateInit == Init => GateInv
<1> SUFFICES ASSUME Init PROVE GateInv
  OBVIOUS
<1>1. conf \subseteq Gates /\ closed = conf /\ passed = <<>> /\ last.what # "FILE"
  BY Ranks, ZenonT(30) DEF Init
<1>2. Range(<<>>) = {} /\ <<>> \in Seq(Gates) /\ DOMAIN <<>> = {}
  BY DEF Range
<1>3. Passed
  BY <1>1, <1>2 DEF Passed
<1> QED  BY <1>1, <1>3 DEF GateInv

(* For every set of gates that the configuration closes, and any number of *)
(* commands refused, failed or repeated, cmd_parse() serves a command only *)
(* to a client that passed each of those gates once, in its order.         *)
THEOREM GatesPassed == Spec => []GatesInOrder
<1>1. GateInv => GatesInOrder
  BY DEF GateInv, Passed, GatesInOrder
<1> QED  BY <1>1, GateInit, GateStep, PTL DEF Spec
=============================================================================
