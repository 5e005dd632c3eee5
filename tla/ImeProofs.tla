----------------------------- MODULE ImeProofs ------------------------------
(***************************************************************************)
(* Proofs about Ime, for any sessions and users, any choice of options and *)
(* any number of messages.                                                 *)
(***************************************************************************)
EXTENDS Ime, TLAPS

Steps == {"SETUP", "ORUN", "USR"}
Active == {"read", "link", "answer", "sync"}

(* The records and the locks are well formed, as far as logins need it.    *)
Formed ==
    /\ DOMAIN ses = Sessions
    /\ \A s \in Sessions :
          DOMAIN ses[s] = DOMAIN Fresh /\ ses[s].ready \in SUBSET Steps
    /\ lock \in [Users -> Sessions \cup {None}]

(* Only a session that has done the other steps has a user, for USR comes  *)
(* last and UNIT is refused after it.                                      *)
UserLast ==
    \A s \in Sessions :
       "USR" \in ses[s].ready => Chkrdy(s) /\ ses[s].usrnam \in Users

(* A session in IME whose login is to be unique has the lock of its user.  *)
Holds(s) ==
    ses[s].rd \in Active /\ Chkrdy(s) /\ ses[s].sole => lock[ses[s].usrnam] = s

LoginInv == Formed /\ UserLast /\ OneLogin

(* The fields of a session.                                                *)
LEMMA Fields ==
    DOMAIN Fresh = {"rd", "wr", "ready", "opts", "tmstmp", "usrnam", "scan",
                    "to", "msg", "raced", "got", "sole"}
  BY DEF Fresh

(* A daemon that has just started has no logins.                           *)
LEMMA LoginInit == Init => LoginInv
<1> SUFFICES ASSUME Init PROVE LoginInv
  OBVIOUS
<1>1. \A s \in Sessions : ses[s] = Fresh
  BY DEF Init
<1>2. Fresh.ready = {} /\ Fresh.rd = "off"
  BY DEF Fresh
<1>3. Formed
  BY <1>1, <1>2 DEF Init, Formed
<1>4. UserLast
  BY <1>1, <1>2 DEF UserLast
<1>5. OneLogin
  BY <1>1, <1>2 DEF Init, OneLogin
<1> QED  BY <1>3, <1>4, <1>5 DEF LoginInv

(* A step that changes one session keeps the invariant, if that session is *)
(* well formed afterwards and holds what it needs, and the others keep     *)
(* their locks.                                                            *)
LEMMA OneSession ==
    ASSUME LoginInv, NEW s \in Sessions, NEW r, Becomes(s, r),
           DOMAIN r = DOMAIN Fresh, r.ready \in SUBSET Steps,
           "USR" \in r.ready => r.ready = Steps /\ r.usrnam \in Users,
           r.rd \in Active /\ r.ready = Steps /\ r.sole => lock'[r.usrnam] = s,
           lock' \in [Users -> Sessions \cup {None}],
           \A u \in Users : \A t \in Sessions \ {s} : lock[u] = t => lock'[u] = t,
           \A u \in Users : lock'[u] = s => r.rd # "ended",
           \A u \in Users : lock'[u] \in {s, None} \/ lock'[u] = lock[u]
    PROVE  LoginInv'
<1>1. ses'[s] = r /\ \A t \in Sessions \ {s} : ses'[t] = ses[t]
  BY DEF Becomes, LoginInv, Formed
<1>2. DOMAIN ses' = Sessions
  BY DEF Becomes, LoginInv, Formed
<1>3. Formed'
  BY <1>1, <1>2 DEF LoginInv, Formed
<1>4. UserLast'
  BY <1>1 DEF LoginInv, UserLast, Chkrdy, Steps
<1>5. ASSUME NEW t \in Sessions PROVE Holds(t)'
  <2>1. CASE t = s
    BY <1>1, <2>1 DEF Holds, Chkrdy, Steps
  <2>2. CASE t # s
    <3>1. Chkrdy(t) => ses[t].usrnam \in Users
      BY DEF LoginInv, UserLast, Chkrdy
    <3>2. Holds(t)
      BY DEF LoginInv, OneLogin, Holds, Active
    <3> QED  BY <1>1, <2>2, <3>1, <3>2 DEF Holds, Chkrdy
  <2> QED  BY <2>1, <2>2
<1>6. ASSUME NEW u \in Users, lock'[u] # None PROVE ses'[lock'[u]].rd # "ended"
  <2>1. CASE lock'[u] = s
    BY <1>1, <2>1
  <2>2. CASE lock'[u] # s
    BY <1>1, <1>6, <2>2 DEF LoginInv, Formed, OneLogin
  <2> QED  BY <2>1, <2>2
<1>7. OneLogin'
  BY <1>5, <1>6 DEF OneLogin, Holds, Active
<1> QED  BY <1>3, <1>4, <1>7 DEF LoginInv

(* A step of one session that leaves the locks as they are.                *)
LEMMA SameLocks ==
    ASSUME LoginInv, NEW s \in Sessions, NEW r, Becomes(s, r), UNCHANGED lock,
           DOMAIN r = DOMAIN Fresh, r.ready \in SUBSET Steps,
           "USR" \in r.ready => r.ready = Steps /\ r.usrnam \in Users,
           r.rd \in Active /\ r.ready = Steps /\ r.sole => lock[r.usrnam] = s,
           r.rd = "ended" => ses[s].rd = "ended"
    PROVE  LoginInv'
<1>1. lock \in [Users -> Sessions \cup {None}]
  BY DEF LoginInv, Formed
<1>2. \A u \in Users : lock[u] = s => r.rd # "ended"
  BY ImeAssumption DEF LoginInv, OneLogin
<1> QED  BY <1>1, <1>2, OneSession

(* A step that has nothing to do with logins.                              *)
LEMMA NoLogin ==
    ASSUME LoginInv, NEW s \in Sessions, NEW r, Becomes(s, r), UNCHANGED lock,
           DOMAIN r = DOMAIN Fresh, r.ready = ses[s].ready,
           r.sole = ses[s].sole, r.usrnam = ses[s].usrnam,
           r.rd \in Active => ses[s].rd \in Active,
           r.rd = "ended" => ses[s].rd = "ended"
    PROVE  LoginInv'
<1>1. r.ready \in SUBSET Steps
  BY DEF LoginInv, Formed
<1>2. "USR" \in r.ready => r.ready = Steps /\ r.usrnam \in Users
  BY DEF LoginInv, UserLast, Chkrdy, Steps
<1>3. r.rd \in Active /\ r.ready = Steps /\ r.sole => lock[r.usrnam] = s
  BY Zenon DEF LoginInv, OneLogin, Chkrdy, Steps, Active
<1> QED  BY <1>1, <1>2, <1>3, SameLocks

(* The end of a session in IME, or of its process, gives up its own locks  *)
(* only.                                                                   *)
LEMMA Unlocks ==
    ASSUME LoginInv, NEW s \in Sessions, NEW r, Becomes(s, r),
           lock' = Unlocked(s),
           DOMAIN r = DOMAIN Fresh, r.ready \in {ses[s].ready, {}},
           r.ready # {} => r.usrnam = ses[s].usrnam,
           r.rd \notin Active
    PROVE  LoginInv'
<1>1. lock \in [Users -> Sessions \cup {None}]
  BY DEF LoginInv, Formed
<1>2. lock' \in [Users -> Sessions \cup {None}]
  BY <1>1 DEF Unlocked
<1>3. \A u \in Users : lock'[u] # s
  BY <1>1, ImeAssumption DEF Unlocked
<1>4. \A u \in Users : lock'[u] = None \/ lock'[u] = lock[u]
  BY <1>1 DEF Unlocked
<1>5. \A u \in Users : \A t \in Sessions \ {s} : lock[u] = t => lock'[u] = t
  BY <1>1 DEF Unlocked
<1>6. r.ready \in SUBSET Steps
  BY DEF LoginInv, Formed
<1>7. "USR" \in r.ready => r.ready = Steps /\ r.usrnam \in Users
  BY DEF LoginInv, UserLast, Chkrdy, Steps
<1> QED  BY <1>2, <1>3, <1>4, <1>5, <1>6, <1>7, OneSession

(* The opcodes and the end of a session.                                   *)
LEMMA ClientStep ==
    ASSUME LoginInv, NEW s \in Sessions, Client(s)
    PROVE  LoginInv'
<1>0. /\ DOMAIN ses[s] = DOMAIN Fresh
      /\ ses[s].ready \in SUBSET Steps
  BY DEF LoginInv, Formed
<1>1. CASE XsimeStart(s)
  <2> DEFINE r == [ses[s] EXCEPT !.rd = "read", !.ready = {}]
  <2>1. /\ DOMAIN r = DOMAIN Fresh
        /\ r.rd = "read" /\ r.ready = {}
    BY <1>0, Fields
  <2>2. Becomes(s, r) /\ UNCHANGED lock
    BY <1>1 DEF XsimeStart, disk
  <2> HIDE DEF r
  <2> QED  BY <2>1, <2>2, SameLocks DEF Steps
<1>2. CASE OpcSetup(s)
  <2>1. PICK o \in Options, t \in 0 .. now - 1 :
          Becomes(s, [ses[s] EXCEPT
             !.rd = Synced(s), !.ready = @ \cup {"SETUP"}, !.opts = o, !.tmstmp = t,
             !.raced = ses[s].wr = "scan",
             !.got = {m \in DOMAIN stamp : stamp[m] <= t}])
    BY <1>2, Zenon DEF OpcSetup
  <2> DEFINE r == [ses[s] EXCEPT
             !.rd = Synced(s), !.ready = @ \cup {"SETUP"}, !.opts = o, !.tmstmp = t,
             !.raced = ses[s].wr = "scan",
             !.got = {m \in DOMAIN stamp : stamp[m] <= t}]
  <2>2. /\ DOMAIN r = DOMAIN Fresh /\ r.rd = Synced(s)
        /\ r.ready = ses[s].ready \cup {"SETUP"}
        /\ r.sole = ses[s].sole /\ r.usrnam = ses[s].usrnam
    BY <1>0, Fields
  <2>3. Becomes(s, r) /\ UNCHANGED lock
    BY <1>2, <2>1 DEF OpcSetup, disk
  <2> HIDE DEF r
  <2>4. r.rd # "ended"
    BY <2>2 DEF Synced
  <2>5. ses[s].rd \in Active
    BY <1>2 DEF OpcSetup, Reads, Active
  <2>6. r.ready \in SUBSET Steps
    BY <1>0, <2>2 DEF Steps
  <2>7. "USR" \in r.ready
          => r.ready = Steps /\ ses[s].ready = Steps /\ r.usrnam \in Users
    BY <2>2 DEF LoginInv, UserLast, Chkrdy, Steps
  <2>8. r.rd \in Active /\ r.ready = Steps /\ r.sole => lock[r.usrnam] = s
    <3>1. "USR" \in Steps
      BY DEF Steps
    <3> QED  BY <2>2, <2>5, <2>7, <3>1, Zenon DEF LoginInv, OneLogin, Chkrdy, Steps, Active
  <2> QED  BY <2>2, <2>3, <2>4, <2>6, <2>7, <2>8, SameLocks, Zenon
<1>3. CASE OpcUnit(s)
  <2>1. PICK q \in {ses[s].ready \cup {"ORUN"}, ses[s].ready \ {"ORUN"}} :
          Becomes(s, [ses[s] EXCEPT !.rd = "answer", !.ready = q])
    BY <1>3, Zenon DEF OpcUnit
  <2> DEFINE r == [ses[s] EXCEPT !.rd = "answer", !.ready = q]
  <2>2. DOMAIN r = DOMAIN Fresh /\ r.rd = "answer" /\ r.ready = q
    BY <1>0, Fields
  <2>3. Becomes(s, r) /\ UNCHANGED lock
    BY <1>3, <2>1 DEF OpcUnit, disk
  <2> HIDE DEF r
  <2>4. "USR" \notin ses[s].ready
    BY <1>3 DEF OpcUnit, LoginInv, UserLast
  <2>5. q \in SUBSET Steps /\ "USR" \notin q
    BY <1>0, <2>4 DEF Steps
  <2> QED  BY <2>2, <2>3, <2>5, SameLocks, Zenon DEF Steps
<1>4. CASE OpcFails(s)
  <2> DEFINE r == [ses[s] EXCEPT !.rd = "answer"]
  <2>1. /\ DOMAIN r = DOMAIN Fresh /\ r.rd = "answer"
        /\ r.ready = ses[s].ready
        /\ r.sole = ses[s].sole /\ r.usrnam = ses[s].usrnam
    BY <1>0, Fields
  <2>2. Becomes(s, r) /\ UNCHANGED lock /\ ses[s].rd \in Active
    BY <1>4 DEF OpcFails, disk, Reads, Active
  <2> HIDE DEF r
  <2> QED  BY <2>1, <2>2, NoLogin
<1>5. CASE OpcExit(s)
  <2> DEFINE r == [ses[s] EXCEPT !.rd = "final"]
  <2>1. /\ DOMAIN r = DOMAIN Fresh /\ r.rd = "final"
        /\ r.ready = ses[s].ready /\ r.usrnam = ses[s].usrnam
    BY <1>0, Fields
  <2>2. Becomes(s, r) /\ lock' = Unlocked(s)
    BY <1>5 DEF OpcExit
  <2> HIDE DEF r
  <2> QED  BY <2>1, <2>2, Unlocks DEF Active
<1>6. CASE Vanish(s)
  BY <1>6 DEF Vanish, disk, LoginInv, Formed, UserLast, OneLogin, Chkrdy
<1>7. ASSUME NEW u \in Users, OpcUsr(s, u) PROVE LoginInv'
  <2>1. /\ "USR" \notin ses[s].ready /\ {"SETUP", "ORUN"} \subseteq ses[s].ready
        /\ ses[s].rd \in Active
    BY <1>7 DEF OpcUsr, Reads, Active, LoginInv, UserLast
  <2>2. CASE /\ Becomes(s, [ses[s] EXCEPT !.rd = "answer", !.usrnam = u])
             /\ UNCHANGED lock
    <3> DEFINE r == [ses[s] EXCEPT !.rd = "answer", !.usrnam = u]
    <3>1. DOMAIN r = DOMAIN Fresh /\ r.rd = "answer" /\ r.ready = ses[s].ready
      BY <1>0, Fields
    <3>2. Becomes(s, r) /\ UNCHANGED lock
      BY <2>2
    <3> HIDE DEF r
    <3> QED  BY <1>0, <2>1, <3>1, <3>2, SameLocks DEF Steps
  <2>3. CASE /\ ~(Unusr(s) /\ Islogin(s, u))
             /\ Becomes(s, [ses[s] EXCEPT !.rd = "answer", !.usrnam = u,
                               !.ready = @ \cup {"USR"}, !.sole = Unusr(s)])
             /\ lock' = [lock EXCEPT ![u] =
                           IF Unusr(s) /\ @ = None THEN s ELSE @]
    <3> DEFINE r == [ses[s] EXCEPT !.rd = "answer", !.usrnam = u,
                               !.ready = @ \cup {"USR"}, !.sole = Unusr(s)]
    <3>1. /\ DOMAIN r = DOMAIN Fresh /\ r.rd = "answer" /\ r.usrnam = u
          /\ r.ready = ses[s].ready \cup {"USR"} /\ r.sole = Unusr(s)
      BY <1>0, Fields
    <3>2. Becomes(s, r)
      BY <2>3
    <3> HIDE DEF r
    <3>3. r.ready = Steps
      BY <1>0, <2>1, <3>1 DEF Steps
    <3>4. lock \in [Users -> Sessions \cup {None}]
      BY DEF LoginInv, Formed
    <3>5. lock' \in [Users -> Sessions \cup {None}]
      BY <2>3, <3>4
    <3>6. Unusr(s) => lock'[u] = s
      BY <2>3, <3>4 DEF Islogin
    <3>7. \A v \in Users : lock'[v] = lock[v] \/ (lock[v] = None /\ lock'[v] = s)
      BY <2>3, <3>4
    <3>8. \A v \in Users : \A t \in Sessions \ {s} : lock[v] = t => lock'[v] = t
      BY <3>7, ImeAssumption
    <3> QED
      BY <3>1, <3>2, <3>3, <3>5, <3>6, <3>7, <3>8, OneSession
  <2> QED  BY <1>7, <2>2, <2>3 DEF OpcUsr
<1>8. ASSUME NEW to, OpcSndmsg(s, to) PROVE LoginInv'
  <2> DEFINE r == [ses[s] EXCEPT !.rd = "link", !.to = to, !.msg = Len(stamp')]
  <2>1. /\ DOMAIN r = DOMAIN Fresh /\ r.rd = "link"
        /\ r.ready = ses[s].ready
        /\ r.sole = ses[s].sole /\ r.usrnam = ses[s].usrnam
    BY <1>0, Fields
  <2>2. Becomes(s, r) /\ UNCHANGED lock /\ ses[s].rd \in Active
    BY <1>8 DEF OpcSndmsg, Reads, Active
  <2> HIDE DEF r
  <2> QED  BY <2>1, <2>2, NoLogin
<1> QED
  BY <1>1, <1>2, <1>3, <1>4, <1>5, <1>6, <1>7, <1>8 DEF Client

(* The reading thread on its own.                                          *)
LEMMA ReaderStep ==
    ASSUME LoginInv, NEW s \in Sessions, Reader(s)
    PROVE  LoginInv'
<1>0. DOMAIN ses[s] = DOMAIN Fresh
  BY DEF LoginInv, Formed
<1>1. CASE Cpymsg(s)
  <2>1. PICK u \in ses[s].to :
          Becomes(s, IF ses[s].to = {u}
                     THEN [ses[s] EXCEPT !.to = {}, !.msg = 0, !.rd = Synced(s)]
                     ELSE [ses[s] EXCEPT !.to = @ \ {u}])
    BY <1>1, Zenon DEF Cpymsg
  <2> DEFINE last == [ses[s] EXCEPT !.to = {}, !.msg = 0, !.rd = Synced(s)]
             more == [ses[s] EXCEPT !.to = @ \ {u}]
  <2>2. /\ DOMAIN last = DOMAIN Fresh /\ last.rd = Synced(s)
        /\ last.ready = ses[s].ready
        /\ last.sole = ses[s].sole /\ last.usrnam = ses[s].usrnam
    BY <1>0, Fields
  <2>3. /\ DOMAIN more = DOMAIN Fresh /\ more.rd = ses[s].rd
        /\ more.ready = ses[s].ready
        /\ more.sole = ses[s].sole /\ more.usrnam = ses[s].usrnam
    BY <1>0, Fields
  <2>4. Becomes(s, last) \/ Becomes(s, more)
    BY <2>1
  <2> HIDE DEF last, more
  <2>5. UNCHANGED lock /\ ses[s].rd = "link"
    BY <1>1 DEF Cpymsg
  <2>6. ses[s].rd \in Active /\ ses[s].rd # "ended" /\ Synced(s) # "ended"
    BY <2>5 DEF Active, Synced
  <2>7. CASE Becomes(s, last)
    BY <2>2, <2>5, <2>6, <2>7, NoLogin
  <2>8. CASE Becomes(s, more)
    BY <2>3, <2>5, <2>6, <2>8, NoLogin
  <2> QED  BY <2>4, <2>7, <2>8
<1>2. CASE ReadFails(s)
  <2> DEFINE r == [ses[s] EXCEPT !.rd = "final"]
  <2>1. /\ DOMAIN r = DOMAIN Fresh /\ r.rd = "final"
        /\ r.ready = ses[s].ready
        /\ r.sole = ses[s].sole /\ r.usrnam = ses[s].usrnam
    BY <1>0, Fields
  <2>2. Becomes(s, r) /\ UNCHANGED lock
    BY <1>2 DEF ReadFails, disk
  <2> HIDE DEF r
  <2> QED  BY <2>1, <2>2, NoLogin DEF Active
<1>3. CASE Answer(s)
  <2>1. PICK pc \in {"read", "stuck"} : Becomes(s, [ses[s] EXCEPT !.rd = pc])
    BY <1>3 DEF Answer
  <2> DEFINE r == [ses[s] EXCEPT !.rd = pc]
  <2>2. /\ DOMAIN r = DOMAIN Fresh /\ r.rd = pc
        /\ r.ready = ses[s].ready
        /\ r.sole = ses[s].sole /\ r.usrnam = ses[s].usrnam
    BY <1>0, Fields
  <2>3. Becomes(s, r) /\ UNCHANGED lock /\ ses[s].rd \in Active
    BY <1>3, <2>1 DEF Answer, disk, Active
  <2> HIDE DEF r
  <2> QED  BY <2>2, <2>3, NoLogin
<1>4. CASE Final(s)
  <2> DEFINE r == [ses[s] EXCEPT !.rd = "off", !.ready = {},
                      !.raced = FALSE, !.got = {}, !.sole = FALSE]
  <2>1. DOMAIN r = DOMAIN Fresh /\ r.rd = "off" /\ r.ready = {}
    BY <1>0, Fields
  <2>2. Becomes(s, r) /\ UNCHANGED lock
    BY <1>4 DEF Final, disk
  <2> HIDE DEF r
  <2> QED  BY <2>1, <2>2, SameLocks DEF Steps, Active
<1>5. CASE SessionEnds(s)
  <2> DEFINE r == [Fresh EXCEPT !.rd = "ended"]
  <2>1. DOMAIN r = DOMAIN Fresh /\ r.rd = "ended" /\ r.ready = {}
    BY Fields DEF Fresh
  <2>2. Becomes(s, r) /\ lock' = Unlocked(s)
    BY <1>5 DEF SessionEnds
  <2> HIDE DEF r
  <2> QED  BY <2>1, <2>2, Unlocks DEF Active
<1> QED  BY <1>1, <1>2, <1>3, <1>4, <1>5 DEF Reader

(* The writing thread looks at the login and never changes it.             *)
LEMMA WriterStep ==
    ASSUME LoginInv, NEW s \in Sessions, Writer(s)
    PROVE  LoginInv'
<1>0. DOMAIN ses[s] = DOMAIN Fresh
  BY DEF LoginInv, Formed
<1>1. CASE ScanStart(s)
  <2>1. PICK q : Becomes(s, [ses[s] EXCEPT !.wr = "scan", !.scan = q])
    BY <1>1, Zenon DEF ScanStart
  <2> DEFINE r == [ses[s] EXCEPT !.wr = "scan", !.scan = q]
  <2>2. /\ DOMAIN r = DOMAIN Fresh /\ r.rd = ses[s].rd
        /\ r.ready = ses[s].ready
        /\ r.sole = ses[s].sole /\ r.usrnam = ses[s].usrnam
    BY <1>0, Fields
  <2>3. Becomes(s, r) /\ UNCHANGED lock /\ ses[s].rd # "ended"
    BY <1>1, <2>1 DEF ScanStart, disk
  <2> HIDE DEF r
  <2> QED  BY <2>2, <2>3, NoLogin, SMTT(30)
<1>2. CASE ScanStep(s)
  <2>1. PICK q, w, t, g :
          Becomes(s, [ses[s] EXCEPT !.scan = q, !.wr = w, !.tmstmp = t, !.got = g])
    BY <1>2, ZenonT(30) DEF ScanStep
  <2> DEFINE r == [ses[s] EXCEPT !.scan = q, !.wr = w, !.tmstmp = t, !.got = g]
  <2>2. /\ DOMAIN r = DOMAIN Fresh /\ r.rd = ses[s].rd
        /\ r.ready = ses[s].ready
        /\ r.sole = ses[s].sole /\ r.usrnam = ses[s].usrnam
    BY <1>0, Fields
  <2>3. Becomes(s, r) /\ UNCHANGED lock
    BY <1>2, <2>1 DEF ScanStep
  <2> HIDE DEF r
  <2> QED  BY <2>2, <2>3, NoLogin, SMTT(30)
<1> QED  BY <1>1, <1>2 DEF Writer

(* Every step keeps the invariant.                                         *)
LEMMA LoginStep == LoginInv /\ [Next]_vars => LoginInv'
<1> SUFFICES ASSUME LoginInv, [Next]_vars PROVE LoginInv'
  OBVIOUS
<1>1. CASE Tick
  BY <1>1 DEF Tick, disk, LoginInv, Formed, UserLast, OneLogin, Chkrdy
<1>2. ASSUME NEW s \in Sessions, Reader(s) \/ Writer(s) \/ Client(s)
      PROVE  LoginInv'
  BY <1>2, ReaderStep, WriterStep, ClientStep
<1>3. CASE UNCHANGED vars
  BY <1>3 DEF vars, disk, LoginInv, Formed, UserLast, OneLogin, Chkrdy
<1> QED  BY <1>1, <1>2, <1>3 DEF Next

(* With unusr, opc_usr() logs a user in once: while a session is in IME    *)
(* with such a login it has the lock of "loged-in", and no lock is left    *)
(* behind by a process that ended.                                         *)
THEOREM Logins == Spec => []OneLogin
<1>1. LoginInv => OneLogin
  BY DEF LoginInv
<1> QED  BY <1>1, LoginInit, LoginStep, PTL DEF Spec

-----------------------------------------------------------------------------
(* m came into the folder b after a message with a later second, or is not *)
(* alone in its second.                                                    *)
Excused(b, st, m) ==
    \/ \E i, j \in DOMAIN b : i < j /\ b[j] = m /\ st[b[i]] > st[m]
    \/ \E n \in Range(b) \ {m} : st[n] = st[m]

(* n came into the folder b after m.                                       *)
Before(b, m, n) == \E i, j \in DOMAIN b : i < j /\ b[i] = m /\ b[j] = n

(* Since SETUP no scan has moved the timestamp of the session r: what is   *)
(* not younger came before, and what comes will be younger.                *)
Asked(r, st, nw) ==
    r.tmstmp < nw /\ \A m \in DOMAIN st \ r.got : st[m] > r.tmstmp

(* A scan has moved it, to the second of a message of the folder.          *)
Reached(r, b, st) == \E m \in Range(b) : st[m] = r.tmstmp

(* A scan of the folder b without the messages d goes through all of them, *)
(* in the order of their seconds, but those that come while it runs.       *)
Scanned(r, b, d, st) ==
    /\ \A i, j \in DOMAIN r.scan : i < j => st[r.scan[i]] <= st[r.scan[j]]
    /\ \A m \in Range(b) \ d :
          \/ m \in Range(r.scan)
          \/ st[m] <= r.tmstmp
          \/ \A n \in Range(r.scan) : Before(b, n, m)

(* What a session has passed over in the folder of its user has an excuse. *)
NoneLost(r, b, d, st) ==
    \A m \in (Range(b) \ d) \ r.got : st[m] <= r.tmstmp => Excused(b, st, m)

(* The session r, whose client has left or not (g), with the folder b of   *)
(* its user, of which d is deleted.                                        *)
SessionOk(r, g, b, d, st, nw) ==
    /\ r.tmstmp \in Nat
    /\ r.wr \in {"sleep", "scan"} /\ (r.rd \in {"off", "ended"} => r.wr = "sleep")
    /\ r.rd = "link" => r.msg \in DOMAIN st /\ r.to \subseteq Users
    /\ r.wr = "scan" => r.ready = Steps /\ r.scan \in Seq(Range(b)) /\ r.scan # <<>>
    /\ "SETUP" \in r.ready /\ r.ready # Steps /\ ~r.raced => Asked(r, st, nw)
    /\ r.ready = Steps /\ ~r.raced /\ ~g =>
          /\ Asked(r, st, nw) \/ Reached(r, b, st)
          /\ NoneLost(r, b, d, st)
          /\ r.wr = "scan" => Scanned(r, b, d, st)

(* The folders hold messages that were sent.                               *)
FoldersOk ==
    /\ DOMAIN gone = Sessions
    /\ now \in Nat /\ stamp \in Seq(Nat)
    /\ box \in [Users -> Seq(DOMAIN stamp)] /\ DOMAIN del = Users

(* The session r with the folder of its user as it is.                     *)
FolderOk(r, g) ==
    SessionOk(r, g, box[r.usrnam], del[r.usrnam], stamp, now)

MsgInv == FoldersOk /\ \A s \in Sessions : FolderOk(ses[s], gone[s])

-----------------------------------------------------------------------------
(* The sequence without elements.                                          *)
LEMMA NoElements ==
    /\ Len(<<>>) = 0 /\ Range(<<>>) = {}
    /\ \A S : <<>> \in Seq(S)
<1>1. Len(<<>>) = 0 /\ Range(<<>>) = {}
  BY DEF Range
<1>2. ASSUME NEW S PROVE <<>> \in Seq(S)
  OBVIOUS
<1> QED  BY <1>1, <1>2

(* What a link() adds to a folder.                                         *)
LEMMA Linked ==
    ASSUME NEW D, NEW b \in Seq(D), NEW x \in D
    PROVE  LET c == Append(b, x) IN
           /\ c \in Seq(D) /\ Len(b) \in Nat
           /\ DOMAIN b = 1 .. Len(b) /\ DOMAIN c = 1 .. Len(b) + 1
           /\ c[Len(b) + 1] = x /\ \A i \in DOMAIN b : c[i] = b[i]
           /\ Range(c) = Range(b) \cup {x}
<1> DEFINE c == Append(b, x)
<1>1. /\ c \in Seq(D) /\ Len(b) \in Nat
      /\ DOMAIN b = 1 .. Len(b) /\ DOMAIN c = 1 .. Len(b) + 1
      /\ c[Len(b) + 1] = x /\ \A i \in 1 .. Len(b) : c[i] = b[i]
  OBVIOUS
<1> HIDE DEF c
<1>2. Range(c) = Range(b) \cup {x}
  <2>1. \A y \in Range(c) : y \in Range(b) \cup {x}
    BY <1>1 DEF Range
  <2>2. \A y \in Range(b) \cup {x} : y \in Range(c)
    BY <1>1 DEF Range
  <2> QED  BY <2>1, <2>2
<1> QED  BY <1>1, <1>2 DEF c

(* A session is as well off when messages of its folder are deleted.       *)
LEMMA DelGrows ==
    ASSUME NEW r, NEW g, NEW b, NEW d, NEW st, NEW nw, NEW e, d \subseteq e,
           SessionOk(r, g, b, d, st, nw)
    PROVE  SessionOk(r, g, b, e, st, nw)
<1>1. NoneLost(r, b, d, st) => NoneLost(r, b, e, st)
  BY DEF NoneLost
<1>2. Scanned(r, b, d, st) => Scanned(r, b, e, st)
  BY DEF Scanned
<1> QED  BY <1>1, <1>2 DEF SessionOk

(* And when time passes, or its client leaves.                             *)
LEMMA TimePasses ==
    ASSUME NEW r, NEW g, NEW b, NEW d, NEW st, NEW nw \in Nat, NEW n \in Nat,
           nw <= n, SessionOk(r, g, b, d, st, nw)
    PROVE  SessionOk(r, g, b, d, st, n)
<1>1. r.tmstmp \in Nat
  BY DEF SessionOk
<1>2. Asked(r, st, nw) => Asked(r, st, n)
  BY <1>1 DEF Asked
<1> QED  BY <1>2 DEF SessionOk

(* A session without a user is as well off with any folder.                *)
LEMMA NoFolder ==
    ASSUME NEW r, NEW g, NEW b, NEW d, NEW st, NEW nw, NEW c, NEW e,
           r.ready # Steps, SessionOk(r, g, b, d, st, nw)
    PROVE  SessionOk(r, g, c, e, st, nw)
  BY DEF SessionOk

(* A message is written, in the second that it is.                         *)
LEMMA StampGrows ==
    ASSUME NEW r, NEW g, NEW b, NEW d, NEW st \in Seq(Nat), NEW nw \in Nat,
           NEW st2, st2 = Append(st, nw),
           r.ready = Steps => b \in Seq(DOMAIN st),
           SessionOk(r, g, b, d, st, nw)
    PROVE  SessionOk(r, g, b, d, st2, nw)
<1>1. /\ DOMAIN st \subseteq DOMAIN st2
      /\ \A m \in DOMAIN st2 \ DOMAIN st : st2[m] = nw
      /\ \A m \in DOMAIN st : st2[m] = st[m]
  <2>1. DOMAIN st = 1 .. Len(st) /\ DOMAIN st2 = 1 .. Len(st) + 1
        /\ st2[Len(st) + 1] = nw /\ \A m \in 1 .. Len(st) : st2[m] = st[m]
    BY Linked
  <2> QED  BY <2>1
<1>2. Asked(r, st, nw) => Asked(r, st2, nw)
  BY <1>1 DEF Asked
<1>3. ASSUME r.ready = Steps
      PROVE  /\ Range(b) \subseteq DOMAIN st
             /\ \A i \in DOMAIN b : b[i] \in Range(b)
  BY <1>3 DEF Range
<1>4. ASSUME r.ready = Steps, Reached(r, b, st) PROVE Reached(r, b, st2)
  BY <1>1, <1>3, <1>4 DEF Reached
<1>5. ASSUME r.ready = Steps, NEW m \in Range(b), Excused(b, st, m)
      PROVE  Excused(b, st2, m)
  BY <1>1, <1>3, <1>5, Zenon DEF Excused
<1>6. ASSUME r.ready = Steps, NoneLost(r, b, d, st) PROVE NoneLost(r, b, d, st2)
  BY <1>1, <1>3, <1>5, <1>6 DEF NoneLost
<1>7. ASSUME r.ready = Steps, r.scan \in Seq(Range(b)), Scanned(r, b, d, st)
      PROVE  Scanned(r, b, d, st2)
  <2>1. \A i \in DOMAIN r.scan : r.scan[i] \in DOMAIN st
    BY <1>3, <1>7
  <2> QED  BY <1>1, <1>3, <1>7, <2>1, Zenon DEF Scanned
<1> QED  BY <1>1, <1>2, <1>4, <1>6, <1>7 DEF SessionOk

(* A message is linked into the folder.                                    *)
LEMMA BoxGrows ==
    ASSUME NEW r, NEW g, NEW d, NEW st \in Seq(Nat), NEW nw \in Nat,
           NEW b \in Seq(DOMAIN st), NEW x \in DOMAIN st,
           NEW c, c = Append(b, x),
           SessionOk(r, g, b, d, st, nw)
    PROVE  SessionOk(r, g, c, d, st, nw)
<1>1. /\ Len(b) \in Nat /\ DOMAIN b = 1 .. Len(b) /\ DOMAIN c = 1 .. Len(b) + 1
      /\ c[Len(b) + 1] = x /\ \A i \in DOMAIN b : c[i] = b[i]
      /\ Range(c) = Range(b) \cup {x} /\ DOMAIN b \subseteq DOMAIN c
  <2>1. LET e == Append(b, x) IN
           /\ e \in Seq(DOMAIN st) /\ Len(b) \in Nat
           /\ DOMAIN b = 1 .. Len(b) /\ DOMAIN e = 1 .. Len(b) + 1
           /\ e[Len(b) + 1] = x /\ \A i \in DOMAIN b : e[i] = b[i]
           /\ Range(e) = Range(b) \cup {x}
    BY Linked, SMTT(30)
  <2> QED  BY <2>1
<1>2. \A m \in Range(b) : m \in DOMAIN st /\ st[m] \in Nat
  BY SMTT(30) DEF Range
<1>3. ASSUME NEW m, Excused(b, st, m) PROVE Excused(c, st, m)
  BY <1>1, <1>3 DEF Excused
<1>4. ASSUME NEW m, NEW n, Before(b, m, n) PROVE Before(c, m, n)
  BY <1>1, <1>4 DEF Before
<1>5. ASSUME NEW m \in Range(b) PROVE Before(c, m, x)
  <2>1. PICK i \in DOMAIN b : b[i] = m
    BY <1>5 DEF Range
  <2>2. /\ i \in DOMAIN c /\ Len(b) + 1 \in DOMAIN c /\ i < Len(b) + 1
        /\ c[i] = m /\ c[Len(b) + 1] = x
    BY <1>1, <2>1, SMTT(30)
  <2> QED  BY <2>2, Zenon DEF Before
<1>6. Reached(r, b, st) => Reached(r, c, st)
  BY <1>1 DEF Reached
<1>7. ASSUME Asked(r, st, nw) \/ Reached(r, b, st), NoneLost(r, b, d, st),
             r.tmstmp \in Nat
      PROVE  NoneLost(r, c, d, st)
  <2> SUFFICES ASSUME NEW m \in (Range(c) \ d) \ r.got, st[m] <= r.tmstmp
               PROVE  Excused(c, st, m)
    BY DEF NoneLost
  <2>1. CASE m \in Range(b)
    BY <1>3, <1>7, <2>1 DEF NoneLost
  <2>2. CASE m \notin Range(b)
    <3>1. m = x
      BY <1>1, <2>2
    <3>2. PICK n \in Range(b) : st[n] = r.tmstmp
      BY <1>7, <3>1, SMTT(30) DEF Asked, Reached
    <3>3. n # m /\ st[n] \in Nat /\ st[m] \in Nat
      BY <1>2, <2>2, <3>1, SMTT(30)
    <3>4. CASE st[n] = st[m]
      BY <1>1, <3>3, <3>4 DEF Excused
    <3>5. CASE st[n] > st[m]
      <4>1. Before(c, n, x)
        BY <1>5
      <4>2. PICK i \in DOMAIN c, j \in DOMAIN c : i < j /\ c[i] = n /\ c[j] = m
        BY <3>1, <4>1, Zenon DEF Before
      <4>3. st[c[i]] > st[m]
        BY <3>5, <4>2
      <4> QED  BY <4>2, <4>3, Zenon DEF Excused
    <3> QED  BY <3>2, <3>3, <3>4, <3>5, SMTT(30)
  <2> QED  BY <2>1, <2>2
<1>8. r.scan \in Seq(Range(b)) => r.scan \in Seq(Range(c))
  BY <1>1
<1>9. ASSUME r.scan \in Seq(Range(b)), Scanned(r, b, d, st)
      PROVE  Scanned(r, c, d, st)
  <2>1. \A n \in Range(r.scan) : n \in Range(b)
    BY <1>9, SMTT(30) DEF Range
  <2> QED  BY <1>1, <1>4, <1>5, <1>9, <2>1 DEF Scanned
<1> QED  BY <1>6, <1>7, <1>8, <1>9 DEF SessionOk

(* The reading thread moves on, and nothing else changes.                  *)
LEMMA ReaderMoves ==
    ASSUME NEW r, NEW q, NEW g, NEW b, NEW d, NEW st, NEW nw,
           SessionOk(r, g, b, d, st, nw),
           q.tmstmp = r.tmstmp, q.wr = r.wr, q.ready = r.ready,
           q.scan = r.scan, q.raced = r.raced, q.got = r.got,
           q.rd \in {"off", "ended"} => q.wr = "sleep",
           q.rd = "link" => q.msg \in DOMAIN st /\ q.to \subseteq Users
    PROVE  SessionOk(q, g, b, d, st, nw)
  BY DEF SessionOk, Asked, Reached, NoneLost, Scanned

(* A scan starts: it has the whole folder before it.                       *)
LEMMA ScanBegins ==
    ASSUME NEW r, NEW q, NEW g, NEW b, NEW d, NEW st, NEW nw,
           SessionOk(r, g, b, d, st, nw), r.rd \notin {"off", "ended"},
           r.ready = Steps, q.wr = "scan", q.scan \in Seq(Range(b)),
           q.scan # <<>>, Range(q.scan) = Range(b) \ d,
           \A i, j \in DOMAIN q.scan : i < j => st[q.scan[i]] <= st[q.scan[j]],
           q.tmstmp = r.tmstmp, q.ready = r.ready, q.raced = r.raced,
           q.got = r.got, q.rd = r.rd, q.msg = r.msg, q.to = r.to
    PROVE  SessionOk(q, g, b, d, st, nw)
<1>1. Scanned(q, b, d, st)
  BY SMTT(30) DEF Scanned
<1> QED  BY <1>1 DEF SessionOk, Asked, Reached, NoneLost

(* A scan comes to its next message.                                       *)
LEMMA ScanMoves ==
    ASSUME NEW r, NEW q, NEW g, NEW d, NEW st \in Seq(Nat), NEW nw,
           NEW b \in Seq(DOMAIN st),
           SessionOk(r, g, b, d, st, nw), r.wr = "scan",
           q.scan = Tail(r.scan),
           q.wr = IF Len(r.scan) = 1 THEN "sleep" ELSE r.wr,
           q.tmstmp = (IF st[Head(r.scan)] > r.tmstmp THEN st[Head(r.scan)]
                                                      ELSE r.tmstmp),
           q.got = (IF /\ st[Head(r.scan)] > r.tmstmp /\ ~g
                       /\ Head(r.scan) \in Range(b) \ d
                    THEN r.got \cup {Head(r.scan)} ELSE r.got),
           q.ready = r.ready, q.raced = r.raced,
           q.rd = r.rd, q.msg = r.msg, q.to = r.to
    PROVE  SessionOk(q, g, b, d, st, nw)
<1> DEFINE m == Head(r.scan)
           S == Range(b)
<1>1. /\ r.ready = Steps /\ r.scan \in Seq(S) /\ r.scan # <<>>
      /\ r.tmstmp \in Nat /\ r.rd \notin {"off", "ended"}
  BY DEF SessionOk
<1>2. \A n \in S : n \in DOMAIN st /\ st[n] \in Nat
  BY SMTT(30) DEF Range
<1> HIDE DEF S
<1>3. /\ m = r.scan[1] /\ m \in S /\ Len(r.scan) \in Nat \ {0}
      /\ q.scan \in Seq(S) /\ Len(q.scan) = Len(r.scan) - 1
      /\ \A i \in 1 .. Len(q.scan) : q.scan[i] = r.scan[i + 1]
  <2> DEFINE p == r.scan
  <2>1. p \in Seq(S) /\ p # <<>> /\ q.scan = Tail(p) /\ m = Head(p)
    BY <1>1
  <2> HIDE DEF p, m
  <2>2. /\ m = p[1] /\ m \in S /\ Len(p) \in Nat \ {0}
    BY <2>1
  <2>3. Tail(p) \in Seq(S) /\ Len(Tail(p)) = Len(p) - 1
    BY <2>1
  <2>4. \A i \in 1 .. Len(p) - 1 : Tail(p)[i] = p[i + 1]
    BY <2>1
  <2> QED  BY <2>1, <2>2, <2>3, <2>4 DEF p
<1> HIDE DEF m
<1>4. /\ DOMAIN r.scan = 1 .. Len(r.scan) /\ DOMAIN q.scan = 1 .. Len(q.scan)
  BY <1>1, <1>3
<1>5. /\ \A n \in Range(q.scan) : n \in Range(r.scan)
      /\ \A n \in Range(r.scan) : n = m \/ n \in Range(q.scan)
      /\ m \in Range(r.scan)
  <2>1. ASSUME NEW n \in Range(q.scan) PROVE n \in Range(r.scan)
    <3>1. PICK i \in 1 .. Len(q.scan) : q.scan[i] = n
      BY <1>4, <2>1, Zenon DEF Range
    <3>2. i + 1 \in DOMAIN r.scan /\ r.scan[i + 1] = n
      BY <1>3, <1>4, <3>1
    <3> QED  BY <3>2 DEF Range
  <2>2. ASSUME NEW n \in Range(r.scan), n # m PROVE n \in Range(q.scan)
    <3>1. PICK i \in 1 .. Len(r.scan) : r.scan[i] = n
      BY <1>4, <2>2 DEF Range
    <3>2. i # 1
      BY <1>3, <2>2, <3>1
    <3>3. i - 1 \in 1 .. Len(q.scan) /\ (i - 1) + 1 = i
      BY <1>3, <3>1, <3>2
    <3>4. q.scan[i - 1] = n
      BY <1>3, <3>1, <3>3, SMTT(30)
    <3> QED  BY <1>4, <3>3, <3>4, Zenon DEF Range
  <2>3. m \in Range(r.scan)
    <3>1. 1 \in DOMAIN r.scan /\ r.scan[1] = m
      BY <1>3, <1>4
    <3> QED  BY <3>1 DEF Range
  <2> QED  BY <2>1, <2>2, <2>3, SMTT(30)
<1>6. q.tmstmp \in Nat /\ st[m] <= q.tmstmp /\ r.tmstmp <= q.tmstmp
  <2>1. st[m] \in Nat /\ q.tmstmp = (IF st[m] > r.tmstmp THEN st[m] ELSE r.tmstmp)
    BY <1>2, <1>3, SMTT(30) DEF m
  <2> QED  BY <1>1, <2>1, SMTT(30)
<1>7. ASSUME ~r.raced, ~g PROVE Asked(q, st, nw) \/ Reached(q, b, st)
  <2>1. Asked(r, st, nw) \/ Reached(r, b, st)
    BY <1>1, <1>7 DEF SessionOk
  <2>2. CASE st[m] > r.tmstmp
    BY <1>3, <2>2 DEF Reached, S, m
  <2>3. CASE ~(st[m] > r.tmstmp)
    BY <2>1, <2>3 DEF Asked, Reached, m
  <2> QED  BY <2>2, <2>3, SMTT(30)
<1>8. ASSUME ~r.raced, ~g PROVE NoneLost(q, b, d, st)
  <2>0. Scanned(r, b, d, st) /\ NoneLost(r, b, d, st)
    BY <1>1, <1>8, SMTT(30) DEF SessionOk
  <2> SUFFICES ASSUME NEW n \in (Range(b) \ d) \ q.got, st[n] <= q.tmstmp
               PROVE  Excused(b, st, n)
    BY DEF NoneLost
  <2>1. n \in (Range(b) \ d) \ r.got /\ n \in S
    BY DEF S
  <2>2. CASE st[n] <= r.tmstmp
    BY <2>0, <2>1, <2>2 DEF NoneLost
  <2>3. CASE ~(st[n] <= r.tmstmp)
    <3>1. q.tmstmp = st[m] /\ st[m] > r.tmstmp
      BY <2>3 DEF m
    <3>2. n # m
      BY <1>8, <2>1, <3>1, SMTT(30) DEF m
    <3>3. st[n] \in Nat /\ st[m] \in Nat
      BY <1>2, <1>3, <2>1, SMTT(30)
    <3>4. CASE st[n] = st[m]
      BY <1>3, <3>2, <3>4, SMTT(30) DEF Excused, S
    <3>5. CASE st[n] < st[m]
      <4>1. n \notin Range(r.scan)
        <5> SUFFICES ASSUME n \in Range(r.scan) PROVE FALSE
          OBVIOUS
        <5>1. PICK i \in 1 .. Len(r.scan) : r.scan[i] = n
          BY <1>4, SMTT(30) DEF Range
        <5>2. 1 < i /\ 1 \in DOMAIN r.scan /\ i \in DOMAIN r.scan
          BY <1>3, <1>4, <3>2, <5>1, SMTT(30)
        <5>3. st[r.scan[1]] <= st[r.scan[i]]
          BY <2>0, <5>2, SMTT(30) DEF Scanned
        <5> QED  BY <1>3, <3>3, <3>5, <5>1, <5>3, SMTT(30)
      <4>2. Before(b, m, n)
        BY <1>5, <2>0, <2>1, <2>3, <4>1, SMTT(30) DEF Scanned
      <4>3. PICK i \in DOMAIN b, j \in DOMAIN b : i < j /\ b[i] = m /\ b[j] = n
        BY <4>2, SMTT(30) DEF Before
      <4>4. st[b[i]] > st[n]
        BY <3>3, <3>5, <4>3, SMTT(30)
      <4> QED  BY <4>3, <4>4, SMTT(30) DEF Excused
    <3> QED  BY <3>1, <3>3, <3>4, <3>5
  <2> QED  BY <2>2, <2>3
<1>9. ASSUME ~r.raced, ~g PROVE Scanned(q, b, d, st)
  <2>0. Scanned(r, b, d, st)
    BY <1>1, <1>9 DEF SessionOk
  <2>1. ASSUME NEW i \in DOMAIN q.scan, NEW j \in DOMAIN q.scan, i < j
        PROVE  st[q.scan[i]] <= st[q.scan[j]]
    <3>1. i \in 1 .. Len(q.scan) /\ j \in 1 .. Len(q.scan)
      BY <1>4, <2>1, Zenon
    <3>2. q.scan[i] = r.scan[i + 1] /\ q.scan[j] = r.scan[j + 1]
      BY <1>3, <3>1, ZenonT(30)
    <3>3. i + 1 \in 1 .. Len(r.scan) /\ j + 1 \in 1 .. Len(r.scan) /\ i + 1 < j + 1
      BY <1>3, <2>1, <3>1, SMTT(30)
    <3>4. st[r.scan[i + 1]] <= st[r.scan[j + 1]]
      BY <1>4, <2>0, <3>3, Zenon DEF Scanned
    <3> QED  BY <3>2, <3>4, Zenon
  <2>2. ASSUME NEW n \in Range(b) \ d
        PROVE  \/ n \in Range(q.scan)
               \/ st[n] <= q.tmstmp
               \/ \A k \in Range(q.scan) : Before(b, k, n)
    <3>1. CASE n \in Range(r.scan)
      BY <1>5, <1>6, <3>1
    <3>2. CASE st[n] <= r.tmstmp
      <4>1. st[n] \in Nat
        BY <1>2 DEF S
      <4> QED  BY <1>1, <1>6, <3>2, <4>1, SMTT(30)
    <3>3. CASE \A k \in Range(r.scan) : Before(b, k, n)
      BY <1>5, <3>3
    <3> QED  BY <2>0, <3>1, <3>2, <3>3 DEF Scanned
  <2> QED  BY <2>1, <2>2, SMTT(30) DEF Scanned
<1>10. q.wr = "scan" => q.scan # <<>>
  <2> SUFFICES ASSUME q.wr = "scan" PROVE q.scan # <<>>
    OBVIOUS
  <2>1. Len(q.scan) # 0
    BY <1>3
  <2> QED  BY <2>1, NoElements, Zenon
<1>11. q.wr \in {"sleep", "scan"}
  OBVIOUS
<1> QED
  BY <1>1, <1>3, <1>6, <1>7, <1>8, <1>9, <1>10, <1>11, SMTT(30) DEF SessionOk, S

-----------------------------------------------------------------------------
(* No messages and no timestamps at first.                                 *)
LEMMA MsgInit == Init => MsgInv
<1> SUFFICES ASSUME Init PROVE MsgInv
  OBVIOUS
<1>1. \A s \in Sessions : ses[s] = Fresh
  BY DEF Init
<1>2. Range(<<>>) = {}
  BY NoElements
<1>3. FoldersOk
  BY <1>2, NoElements, SMTT(30) DEF Init, FoldersOk
<1>4. /\ Fresh.tmstmp = 0 /\ Fresh.wr = "sleep" /\ Fresh.rd = "off"
      /\ Fresh.ready = {}
  BY SMTT(30) DEF Fresh
<1>5. \A s \in Sessions : FolderOk(ses[s], gone[s])
  BY <1>1, <1>4 DEF FolderOk, SessionOk, Steps
<1> QED  BY <1>3, <1>5 DEF MsgInv

(* One session moves, beside what happens to the folders.                  *)
LEMMA OneMoves ==
    ASSUME Formed, NEW s \in Sessions, NEW r, Becomes(s, r), UNCHANGED gone,
           FoldersOk',
           \A t \in Sessions \ {s} :
              SessionOk(ses[t], gone[t], box'[ses[t].usrnam],
                        del'[ses[t].usrnam], stamp', now'),
           SessionOk(r, gone[s], box'[r.usrnam], del'[r.usrnam], stamp', now')
    PROVE  MsgInv'
<1>1. ses'[s] = r /\ \A t \in Sessions \ {s} : ses'[t] = ses[t]
  BY DEF Becomes, Formed
<1>2. ASSUME NEW t \in Sessions PROVE FolderOk(ses[t], gone[t])'
  <2>1. CASE t = s
    BY <1>1, <2>1, SMTT(30) DEF FolderOk
  <2>2. CASE t # s
    BY <1>1, <2>2, SMTT(30) DEF FolderOk
  <2> QED  BY <2>1, <2>2, SMTT(30)
<1> QED  BY <1>2 DEF MsgInv

(* One session moves and the folders stay as they are.                     *)
LEMMA FoldersStay ==
    ASSUME Formed, MsgInv, NEW s \in Sessions, NEW r, Becomes(s, r),
           UNCHANGED <<gone, box, del, stamp, now>>, FolderOk(r, gone[s])
    PROVE  MsgInv'
<1>1. FoldersOk'
  BY SMTT(30) DEF MsgInv, FoldersOk
<1>2. \A t \in Sessions \ {s} :
         SessionOk(ses[t], gone[t], box'[ses[t].usrnam], del'[ses[t].usrnam],
                   stamp', now')
  BY DEF MsgInv, FolderOk
<1>3. SessionOk(r, gone[s], box'[r.usrnam], del'[r.usrnam], stamp', now')
  BY DEF FolderOk
<1> QED  BY <1>1, <1>2, <1>3, OneMoves

(* A logged-in session has a user, and its folder.                         *)
LEMMA HasFolder ==
    ASSUME LoginInv, MsgInv, NEW t \in Sessions, ses[t].ready = Steps
    PROVE  ses[t].usrnam \in Users /\ box[ses[t].usrnam] \in Seq(DOMAIN stamp)
<1>1. "USR" \in ses[t].ready
  BY SMTT(30) DEF Steps
<1> QED  BY <1>1 DEF LoginInv, UserLast, MsgInv, FoldersOk

(* The sessions when a message is deleted.                                 *)
LEMMA OthersDel ==
    ASSUME LoginInv, MsgInv, UNCHANGED <<box, stamp, now>>,
           \A u \in Users : del[u] \subseteq del'[u], NEW t \in Sessions
    PROVE  SessionOk(ses[t], gone[t], box'[ses[t].usrnam], del'[ses[t].usrnam],
                     stamp', now')
<1>1. SessionOk(ses[t], gone[t], box[ses[t].usrnam], del[ses[t].usrnam],
                stamp, now)
  BY DEF MsgInv, FolderOk
<1>2. CASE ses[t].ready = Steps
  BY <1>1, <1>2, HasFolder, DelGrows, SMTT(30)
<1>3. CASE ses[t].ready # Steps
  BY <1>1, <1>3, NoFolder
<1> QED  BY <1>2, <1>3

(* The sessions when one is written.                                       *)
LEMMA OthersStamp ==
    ASSUME LoginInv, MsgInv, UNCHANGED <<box, del, now>>,
           stamp' = Append(stamp, now), NEW t \in Sessions
    PROVE  SessionOk(ses[t], gone[t], box'[ses[t].usrnam], del'[ses[t].usrnam],
                     stamp', now')
<1>1. SessionOk(ses[t], gone[t], box[ses[t].usrnam], del[ses[t].usrnam],
                stamp, now)
  BY DEF MsgInv, FolderOk
<1>2. stamp \in Seq(Nat) /\ now \in Nat
  BY DEF MsgInv, FoldersOk
<1>3. ses[t].ready = Steps => box[ses[t].usrnam] \in Seq(DOMAIN stamp)
  BY HasFolder
<1>4. SessionOk(ses[t], gone[t], box[ses[t].usrnam], del[ses[t].usrnam],
                stamp', now)
  BY <1>1, <1>2, <1>3, StampGrows, Zenon
<1> QED  BY <1>4

(* The sessions when one is linked.                                        *)
LEMMA OthersBox ==
    ASSUME LoginInv, MsgInv, UNCHANGED <<del, stamp, now>>, NEW u \in Users,
           NEW x \in DOMAIN stamp, box' = [box EXCEPT ![u] = Append(@, x)],
           NEW t \in Sessions
    PROVE  SessionOk(ses[t], gone[t], box'[ses[t].usrnam], del'[ses[t].usrnam],
                     stamp', now')
<1> DEFINE v == ses[t].usrnam
<1>1. SessionOk(ses[t], gone[t], box[v], del[v], stamp, now)
  BY DEF MsgInv, FolderOk
<1>2. stamp \in Seq(Nat) /\ now \in Nat /\ DOMAIN box = Users
  BY SMTT(30) DEF MsgInv, FoldersOk
<1>3. CASE ses[t].ready = Steps
  <2>1. v \in Users /\ box[v] \in Seq(DOMAIN stamp)
    BY <1>3, HasFolder
  <2> HIDE DEF v
  <2>2. CASE v = u
    <3>1. box'[v] = Append(box[v], x)
      BY <1>2, <2>1, <2>2, SMTT(30)
    <3> QED  BY <1>1, <1>2, <2>1, <3>1, BoxGrows, Zenon DEF v
  <2>3. CASE v # u
    BY <1>1, <1>2, <2>1, <2>3, SMTT(30) DEF v
  <2> QED  BY <2>2, <2>3
<1>4. CASE ses[t].ready # Steps
  BY <1>1, <1>4, NoFolder
<1> QED  BY <1>3, <1>4

(* The opcodes of the client.                                              *)
LEMMA ClientMsgs ==
    ASSUME LoginInv, MsgInv, NEW s \in Sessions, Client(s)
    PROVE  MsgInv'
<1>0. /\ DOMAIN ses[s] = DOMAIN Fresh /\ ses[s].ready \in SUBSET Steps /\ Formed
      /\ FolderOk(ses[s], gone[s]) /\ FoldersOk
  BY DEF LoginInv, Formed, MsgInv
<1>1. CASE XsimeStart(s)
  <2> DEFINE r == [ses[s] EXCEPT !.rd = "read", !.ready = {}]
  <2>1. /\ r.rd = "read" /\ r.ready = {} /\ r.wr = ses[s].wr
        /\ r.tmstmp = ses[s].tmstmp
    BY <1>0, Fields
  <2>2. Becomes(s, r) /\ UNCHANGED <<gone, box, del, stamp, now>>
        /\ ses[s].rd = "off"
    BY <1>1, SMTT(30) DEF XsimeStart, disk
  <2> HIDE DEF r
  <2>3. FolderOk(r, gone[s])
    BY <1>0, <2>1, <2>2, ZenonT(30) DEF FolderOk, SessionOk, Steps
  <2> QED  BY <1>0, <2>2, <2>3, FoldersStay
<1>2. CASE OpcSetup(s)
  <2>1. PICK o \in Options, t \in 0 .. now - 1 :
          Becomes(s, [ses[s] EXCEPT
             !.rd = Synced(s), !.ready = @ \cup {"SETUP"}, !.opts = o, !.tmstmp = t,
             !.raced = ses[s].wr = "scan",
             !.got = {m \in DOMAIN stamp : stamp[m] <= t}])
    BY <1>2, Zenon DEF OpcSetup
  <2> DEFINE r == [ses[s] EXCEPT
             !.rd = Synced(s), !.ready = @ \cup {"SETUP"}, !.opts = o, !.tmstmp = t,
             !.raced = ses[s].wr = "scan",
             !.got = {m \in DOMAIN stamp : stamp[m] <= t}]
  <2>2. /\ r.rd = Synced(s) /\ r.ready = ses[s].ready \cup {"SETUP"}
        /\ r.tmstmp = t /\ r.usrnam = ses[s].usrnam /\ r.wr = ses[s].wr
        /\ r.scan = ses[s].scan
        /\ r.got = {m \in DOMAIN stamp : stamp[m] <= t}
    BY <1>0, Fields
  <2>3. r.raced = (ses[s].wr = "scan")
    BY <1>0, Fields
  <2>4. Becomes(s, r) /\ UNCHANGED <<gone, box, del, stamp, now>>
    BY <1>2, <2>1 DEF OpcSetup, disk
  <2> HIDE DEF r
  <2>5. r.rd \in {"read", "sync"}
    BY <2>2 DEF Synced
  <2>6. t \in Nat /\ t < now /\ now \in Nat /\ stamp \in Seq(Nat)
    BY <1>0 DEF FoldersOk
  <2>7. Asked(r, stamp, now)
    BY <2>2, <2>6 DEF Asked
  <2>8. r.wr = "scan" => /\ r.ready = Steps /\ r.scan # <<>> /\ r.raced
                         /\ r.scan \in Seq(Range(box[r.usrnam]))
    BY <1>0, <2>2, <2>3, ZenonT(60) DEF FolderOk, SessionOk, Steps
  <2>9. r.wr \in {"sleep", "scan"}
    BY <1>0, <2>2, SMTT(30) DEF FolderOk, SessionOk
  <2>10. r.ready = Steps => NoneLost(r, box[r.usrnam], del[r.usrnam], stamp)
    <3> SUFFICES ASSUME r.ready = Steps,
                        NEW m \in Range(box[r.usrnam]) \ r.got
                 PROVE  ~(stamp[m] <= r.tmstmp)
      BY DEF NoneLost
    <3>1. "USR" \in ses[s].ready
      BY <2>2 DEF Steps
    <3>2. r.usrnam \in Users
      BY <2>2, <3>1, SMTT(30) DEF LoginInv, UserLast
    <3>3. m \in DOMAIN stamp
      BY <1>0, <3>2, SMTT(30) DEF FoldersOk, Range
    <3> QED  BY <2>2, <3>3
  <2>11. FolderOk(r, gone[s])
    BY <2>2, <2>5, <2>6, <2>7, <2>8, <2>9, <2>10, SMTT(30) DEF FolderOk, SessionOk
  <2> QED  BY <1>0, <2>4, <2>11, FoldersStay, SMTT(30)
<1>3. CASE OpcUnit(s)
  <2>1. PICK q \in {ses[s].ready \cup {"ORUN"}, ses[s].ready \ {"ORUN"}} :
          Becomes(s, [ses[s] EXCEPT !.rd = "answer", !.ready = q])
    BY <1>3, Zenon DEF OpcUnit
  <2> DEFINE r == [ses[s] EXCEPT !.rd = "answer", !.ready = q]
  <2>2. /\ r.rd = "answer" /\ r.ready = q /\ r.wr = ses[s].wr
        /\ r.tmstmp = ses[s].tmstmp /\ r.raced = ses[s].raced
        /\ r.got = ses[s].got
    BY <1>0, Fields
  <2>3. Becomes(s, r) /\ UNCHANGED <<gone, box, del, stamp, now>>
        /\ "SETUP" \in ses[s].ready /\ ses[s].ready # Steps
    BY <1>3, <2>1 DEF OpcUnit, disk, Chkrdy, Steps
  <2> HIDE DEF r
  <2>4. "USR" \notin ses[s].ready
    BY <1>3 DEF OpcUnit, LoginInv, UserLast
  <2>5. q # Steps
    BY <2>4 DEF Steps
  <2>6. FolderOk(r, gone[s])
    BY <1>0, <2>2, <2>3, <2>5, Zenon DEF FolderOk, SessionOk, Asked
  <2> QED  BY <1>0, <2>3, <2>6, FoldersStay
<1>4. CASE OpcFails(s) \/ OpcExit(s)
  <2>1. PICK pc \in {"answer", "final"} :
           /\ Becomes(s, [ses[s] EXCEPT !.rd = pc])
           /\ UNCHANGED <<gone, box, del, stamp, now>>
    BY <1>4 DEF OpcFails, OpcExit, disk
  <2> DEFINE r == [ses[s] EXCEPT !.rd = pc]
  <2>2. /\ r.rd = pc /\ r.usrnam = ses[s].usrnam
        /\ r.tmstmp = ses[s].tmstmp /\ r.wr = ses[s].wr
        /\ r.ready = ses[s].ready /\ r.scan = ses[s].scan
        /\ r.raced = ses[s].raced /\ r.got = ses[s].got
    BY <1>0, Fields
  <2>3. Becomes(s, r)
    BY <2>1, SMTT(30)
  <2> HIDE DEF r
  <2>4. FolderOk(r, gone[s])
    BY <1>0, <2>2, ReaderMoves DEF FolderOk
  <2> QED  BY <1>0, <2>1, <2>3, <2>4, FoldersStay
<1>5. CASE Vanish(s)
  <2>1. /\ UNCHANGED <<ses, box, del, stamp, now>>
        /\ gone' = [gone EXCEPT ![s] = TRUE]
    BY <1>5 DEF Vanish, disk
  <2>2. ASSUME NEW t \in Sessions PROVE FolderOk(ses[t], gone[t])'
    <3>1. FolderOk(ses[t], gone[t]) /\ (gone'[t] = gone[t] \/ gone'[t] = TRUE)
      BY <2>1, SMTT(30) DEF MsgInv, FoldersOk
    <3> QED  BY <2>1, <3>1, Zenon DEF FolderOk, SessionOk
  <2> QED  BY <2>1, <2>2, Zenon DEF MsgInv, FoldersOk
<1>6. ASSUME NEW u \in Users, OpcUsr(s, u) PROVE MsgInv'
  <2>1. /\ UNCHANGED <<gone, box, del, stamp, now>>
        /\ "SETUP" \in ses[s].ready /\ ses[s].ready # Steps
    BY <1>6, SMTT(30) DEF OpcUsr, Chkrdy, Steps
  <2>2. PICK q, l :
          /\ Becomes(s, [ses[s] EXCEPT !.rd = "answer", !.usrnam = u,
                            !.ready = q, !.sole = l])
          /\ q \in {ses[s].ready, ses[s].ready \cup {"USR"}}
    <3>1. CASE Becomes(s, [ses[s] EXCEPT !.rd = "answer", !.usrnam = u])
      <4>1. [ses[s] EXCEPT !.rd = "answer", !.usrnam = u]
              = [ses[s] EXCEPT !.rd = "answer", !.usrnam = u,
                    !.ready = ses[s].ready, !.sole = ses[s].sole]
        BY <1>0, Fields, Zenon
      <4> QED  BY <3>1, <4>1, Zenon
    <3>2. CASE Becomes(s, [ses[s] EXCEPT !.rd = "answer", !.usrnam = u,
                              !.ready = @ \cup {"USR"}, !.sole = Unusr(s)])
      BY <3>2, Zenon
    <3> QED  BY <1>6, <3>1, <3>2, Zenon DEF OpcUsr
  <2> DEFINE r == [ses[s] EXCEPT !.rd = "answer", !.usrnam = u, !.ready = q,
                                 !.sole = l]
  <2>3. /\ r.rd = "answer" /\ r.ready = q /\ r.usrnam = u
        /\ r.wr = ses[s].wr /\ r.tmstmp = ses[s].tmstmp
        /\ r.raced = ses[s].raced /\ r.got = ses[s].got
    BY <1>0, Fields
  <2>4. Becomes(s, r)
    BY <2>2, SMTT(30)
  <2> HIDE DEF r
  <2>5. /\ r.wr = "sleep" /\ r.tmstmp \in Nat
        /\ ~r.raced => Asked(r, stamp, now)
    BY <1>0, <2>1, <2>3, SMTT(30) DEF FolderOk, SessionOk, Asked
  <2>6. ~r.raced => NoneLost(r, box[u], del[u], stamp)
    <3>1. \A m \in Range(box[u]) : m \in DOMAIN stamp /\ stamp[m] \in Nat
      BY <1>0, SMTT(30) DEF FoldersOk, Range
    <3> QED  BY <2>5, <3>1 DEF NoneLost, Asked
  <2>7. FolderOk(r, gone[s])
    BY <2>3, <2>5, <2>6, SMTT(30) DEF FolderOk, SessionOk
  <2> QED  BY <1>0, <2>1, <2>4, <2>7, FoldersStay, Zenon
<1>7. ASSUME NEW to \in SUBSET Users, OpcSndmsg(s, to) PROVE MsgInv'
  <2> DEFINE r == [ses[s] EXCEPT !.rd = "link", !.to = to, !.msg = Len(stamp')]
  <2>1. /\ r.rd = "link" /\ r.to = to /\ r.msg = Len(stamp')
        /\ r.usrnam = ses[s].usrnam
        /\ r.tmstmp = ses[s].tmstmp /\ r.wr = ses[s].wr
        /\ r.ready = ses[s].ready /\ r.scan = ses[s].scan
        /\ r.raced = ses[s].raced /\ r.got = ses[s].got
    BY <1>0, Fields
  <2>2. /\ Becomes(s, r) /\ UNCHANGED <<gone, box, del, now>>
        /\ stamp' = Append(stamp, now)
    BY <1>7 DEF OpcSndmsg
  <2> HIDE DEF r
  <2>3. /\ stamp' \in Seq(Nat) /\ DOMAIN stamp \subseteq DOMAIN stamp'
        /\ Len(stamp') \in DOMAIN stamp'
    <3>1. stamp \in Seq(Nat) /\ now \in Nat
      BY <1>0, SMTT(30) DEF FoldersOk
    <3> QED  BY <2>2, <3>1
  <2>4. FoldersOk'
    <3>1. \A u \in Users : box[u] \in Seq(DOMAIN stamp')
      BY <1>0, <2>3, SMTT(30) DEF FoldersOk
    <3> QED  BY <1>0, <2>2, <2>3, <3>1 DEF FoldersOk
  <2>5. \A t \in Sessions :
           SessionOk(ses[t], gone[t], box'[ses[t].usrnam], del'[ses[t].usrnam],
                     stamp', now')
    BY <2>2, OthersStamp, SMTT(30)
  <2>6. SessionOk(r, gone[s], box'[r.usrnam], del'[r.usrnam], stamp', now')
    BY <2>1, <2>3, <2>5, ReaderMoves, SMTT(30)
  <2> QED  BY <1>0, <2>2, <2>4, <2>5, <2>6, OneMoves
<1> QED
  BY <1>1, <1>2, <1>3, <1>4, <1>5, <1>6, <1>7, SMTT(30) DEF Client

(* The reading thread on its own.                                          *)
LEMMA ReaderMsgs ==
    ASSUME LoginInv, MsgInv, NEW s \in Sessions, Reader(s)
    PROVE  MsgInv'
<1>0. /\ DOMAIN ses[s] = DOMAIN Fresh /\ Formed
      /\ FolderOk(ses[s], gone[s]) /\ FoldersOk
  BY DEF LoginInv, Formed, MsgInv
<1>1. CASE Cpymsg(s)
  <2>1. PICK u \in ses[s].to :
          /\ Becomes(s, IF ses[s].to = {u}
                     THEN [ses[s] EXCEPT !.to = {}, !.msg = 0, !.rd = Synced(s)]
                     ELSE [ses[s] EXCEPT !.to = @ \ {u}])
          /\ \/ box' = [box EXCEPT ![u] = Append(@, ses[s].msg)]
             \/ UNCHANGED box
    BY <1>1, Zenon DEF Cpymsg
  <2> DEFINE last == [ses[s] EXCEPT !.to = {}, !.msg = 0, !.rd = Synced(s)]
             more == [ses[s] EXCEPT !.to = @ \ {u}]
             r == IF ses[s].to = {u} THEN last ELSE more
  <2>2. /\ ses[s].rd = "link" /\ UNCHANGED <<gone, del, stamp, now>>
        /\ ses[s].msg \in DOMAIN stamp /\ ses[s].to \subseteq Users
    BY <1>0, <1>1 DEF Cpymsg, FolderOk, SessionOk
  <2>3. /\ last.rd = Synced(s) /\ last.usrnam = ses[s].usrnam
        /\ last.tmstmp = ses[s].tmstmp /\ last.wr = ses[s].wr
        /\ last.ready = ses[s].ready /\ last.scan = ses[s].scan
        /\ last.raced = ses[s].raced /\ last.got = ses[s].got
    BY <1>0, Fields
  <2>4. /\ more.rd = ses[s].rd /\ more.usrnam = ses[s].usrnam
        /\ more.tmstmp = ses[s].tmstmp /\ more.wr = ses[s].wr
        /\ more.ready = ses[s].ready /\ more.scan = ses[s].scan
        /\ more.raced = ses[s].raced /\ more.got = ses[s].got
        /\ more.msg = ses[s].msg /\ more.to = ses[s].to \ {u}
    BY <1>0, Fields
  <2>5. Becomes(s, r)
    BY <2>1
  <2> HIDE DEF last, more
  <2>6. Synced(s) \in {"read", "sync"}
    BY SMTT(30) DEF Synced
  <2>7. /\ r.usrnam = ses[s].usrnam
        /\ r.tmstmp = ses[s].tmstmp /\ r.wr = ses[s].wr
        /\ r.ready = ses[s].ready /\ r.scan = ses[s].scan
        /\ r.raced = ses[s].raced /\ r.got = ses[s].got
        /\ r.rd \notin {"off", "ended"}
        /\ r.rd = "link" => r.msg \in DOMAIN stamp /\ r.to \subseteq Users
    <3>1. CASE ses[s].to = {u}
      BY <2>2, <2>3, <2>6, <3>1, ZenonT(60)
    <3>2. CASE ses[s].to # {u}
      BY <2>2, <2>4, <3>2, ZenonT(30)
    <3> QED  BY <3>1, <3>2, Zenon
  <2> HIDE DEF r
  <2>8. CASE UNCHANGED box
    <3>1. FolderOk(r, gone[s])
      BY <1>0, <2>7, ReaderMoves, Zenon DEF FolderOk
    <3>2. UNCHANGED <<gone, box, del, stamp, now>>
      BY <2>2, <2>8, SMTT(30)
    <3> QED  BY <1>0, <2>5, <3>1, <3>2, FoldersStay, Zenon
  <2>9. CASE box' = [box EXCEPT ![u] = Append(@, ses[s].msg)]
    <3>0. u \in Users
      BY <2>2, SMTT(30)
    <3>1. FoldersOk'
      <4>1. box \in [Users -> Seq(DOMAIN stamp)]
        BY <1>0, SMTT(30) DEF FoldersOk
      <4>2. /\ Append(box[u], ses[s].msg) \in Seq(DOMAIN stamp)
            /\ Range(Append(box[u], ses[s].msg)) = Range(box[u]) \cup {ses[s].msg}
        BY <2>2, <3>0, <4>1, Linked, SMTT(30)
      <4>3. /\ box' \in [Users -> Seq(DOMAIN stamp)]
            /\ box'[u] = Append(box[u], ses[s].msg)
            /\ \A v \in Users \ {u} : box'[v] = box[v]
        BY <2>9, <3>0, <4>1, <4>2
      <4> QED  BY <1>0, <2>2, <4>3, SMTT(30) DEF FoldersOk
    <3>2. \A t \in Sessions :
             SessionOk(ses[t], gone[t], box'[ses[t].usrnam],
                       del'[ses[t].usrnam], stamp', now')
      BY <2>2, <2>9, <3>0, OthersBox, Zenon
    <3>3. SessionOk(r, gone[s], box'[r.usrnam], del'[r.usrnam], stamp', now')
      <4>1. SessionOk(ses[s], gone[s], box'[r.usrnam], del'[r.usrnam], stamp', now')
        BY <2>7, <3>2
      <4> QED  BY <2>2, <2>7, <4>1, ReaderMoves, Zenon
    <3> QED  BY <1>0, <2>2, <2>5, <3>1, <3>2, <3>3, OneMoves
  <2> QED  BY <2>1, <2>8, <2>9
<1>2. CASE ReadFails(s) \/ Answer(s)
  <2>1. PICK pc \in {"read", "stuck", "final"} :
           /\ Becomes(s, [ses[s] EXCEPT !.rd = pc])
           /\ UNCHANGED <<gone, box, del, stamp, now>>
    BY <1>2 DEF ReadFails, Answer, disk
  <2> DEFINE r == [ses[s] EXCEPT !.rd = pc]
  <2>2. /\ r.rd = pc /\ r.usrnam = ses[s].usrnam
        /\ r.tmstmp = ses[s].tmstmp /\ r.wr = ses[s].wr
        /\ r.ready = ses[s].ready /\ r.scan = ses[s].scan
        /\ r.raced = ses[s].raced /\ r.got = ses[s].got
    BY <1>0, Fields
  <2>3. Becomes(s, r)
    BY <2>1, SMTT(30)
  <2> HIDE DEF r
  <2>4. FolderOk(r, gone[s])
    BY <1>0, <2>2, ReaderMoves, Zenon DEF FolderOk
  <2> QED  BY <1>0, <2>1, <2>3, <2>4, FoldersStay
<1>3. CASE Final(s)
  <2> DEFINE r == [ses[s] EXCEPT !.rd = "off", !.ready = {},
                      !.raced = FALSE, !.got = {}, !.sole = FALSE]
  <2>1. /\ r.rd = "off" /\ r.ready = {} /\ r.wr = ses[s].wr
        /\ r.tmstmp = ses[s].tmstmp
    BY <1>0, Fields
  <2>2. Becomes(s, r) /\ UNCHANGED <<gone, box, del, stamp, now>>
        /\ ses[s].wr = "sleep"
    BY <1>3, SMTT(30) DEF Final, disk
  <2> HIDE DEF r
  <2>3. FolderOk(r, gone[s])
    BY <1>0, <2>1, <2>2, Zenon DEF FolderOk, SessionOk, Steps
  <2> QED  BY <1>0, <2>2, <2>3, FoldersStay
<1>4. CASE SessionEnds(s)
  <2> DEFINE r == [Fresh EXCEPT !.rd = "ended"]
  <2>1. r.rd = "ended" /\ r.ready = {} /\ r.wr = "sleep" /\ r.tmstmp = 0
    BY DEF Fresh
  <2>2. Becomes(s, r) /\ UNCHANGED <<gone, box, del, stamp, now>>
    BY <1>4, SMTT(30) DEF SessionEnds
  <2> HIDE DEF r
  <2>3. FolderOk(r, gone[s])
    BY <2>1 DEF FolderOk, SessionOk, Steps
  <2> QED  BY <1>0, <2>2, <2>3, FoldersStay
<1> QED  BY <1>1, <1>2, <1>3, <1>4 DEF Reader

(* The list of scandir() is a sequence of the messages of the folder.      *)
LEMMA ScandirLists ==
    ASSUME FoldersOk, NEW u \in Users, NEW q \in Scandir(u)
    PROVE  /\ q \in Seq(Range(box[u])) /\ Range(q) = Range(box[u]) \ del[u]
           /\ \A i, j \in DOMAIN q : i < j => stamp[q[i]] <= stamp[q[j]]
<1>1. PICK n \in 0 .. Len(box[u]) : q \in Bijection(1 .. n, Folder(u))
  BY DEF Scandir
<1>2. \A i, j \in DOMAIN q : i < j => stamp[q[i]] <= stamp[q[j]]
  BY DEF Scandir, Timecmp
<1>3. q \in [1 .. n -> Folder(u)] /\ \A m \in Folder(u) : \E i \in 1 .. n : q[i] = m
  BY <1>1 DEF Bijection, Injection, Surjection
<1>4. Range(q) = Folder(u)
  BY <1>3 DEF Range
<1>5. n \in Nat /\ q \in [1 .. n -> Range(box[u])]
  BY <1>1, <1>3 DEF Folder, FoldersOk
<1>6. q \in Seq(Range(box[u]))
  BY <1>5
<1> QED  BY <1>2, <1>4, <1>6 DEF Folder

(* The writing thread.                                                     *)
LEMMA WriterMsgs ==
    ASSUME LoginInv, MsgInv, NEW s \in Sessions, Writer(s)
    PROVE  MsgInv'
<1> DEFINE u == ses[s].usrnam
<1>0. /\ DOMAIN ses[s] = DOMAIN Fresh /\ Formed
      /\ FolderOk(ses[s], gone[s]) /\ FoldersOk
  BY DEF LoginInv, Formed, MsgInv
<1>1. CASE ScanStart(s)
  <2>1. PICK q \in Scandir(u) : Becomes(s, [ses[s] EXCEPT !.wr = "scan", !.scan = q])
    BY <1>1, Zenon DEF ScanStart
  <2> DEFINE r == [ses[s] EXCEPT !.wr = "scan", !.scan = q]
  <2>2. /\ r.wr = "scan" /\ r.scan = q /\ r.usrnam = ses[s].usrnam
        /\ r.tmstmp = ses[s].tmstmp
        /\ r.ready = ses[s].ready /\ r.rd = ses[s].rd
        /\ r.raced = ses[s].raced /\ r.got = ses[s].got
        /\ r.msg = ses[s].msg /\ r.to = ses[s].to
    BY <1>0, Fields
  <2>3. /\ Becomes(s, r) /\ UNCHANGED <<gone, box, del, stamp, now>>
        /\ ses[s].rd \notin {"off", "ended"} /\ ses[s].ready = Steps /\ Due(s)
    BY <1>1, <2>1, SMTT(30) DEF ScanStart, disk, Chkrdy, Steps
  <2> HIDE DEF r
  <2>4. u \in Users
    BY <2>3, HasFolder
  <2>5. /\ q \in Seq(Range(box[u])) /\ Range(q) = Range(box[u]) \ del[u]
        /\ \A i, j \in DOMAIN q : i < j => stamp[q[i]] <= stamp[q[j]]
    BY <1>0, <2>1, <2>4, ScandirLists, SMTT(30)
  <2>6. q # <<>>
    <3>1. Range(<<>>) = {}
      BY SMTT(30) DEF Range
    <3> QED  BY <2>3, <2>5, <3>1 DEF Due, Folder
  <2>7. FolderOk(r, gone[s])
    <3>1. SessionOk(ses[s], gone[s], box[u], del[u], stamp, now)
      BY <1>0, SMTT(30) DEF FolderOk
    <3> HIDE DEF u
    <3>2. SessionOk(r, gone[s], box[u], del[u], stamp, now)
      BY <2>2, <2>3, <2>5, <2>6, <3>1, ScanBegins, Zenon
    <3> QED  BY <2>2, <3>2, SMTT(30) DEF FolderOk, u
  <2> QED  BY <1>0, <2>3, <2>7, FoldersStay, SMTT(30)
<1>2. CASE ScanStep(s)
  <2> DEFINE m == Head(ses[s].scan)
             new == stamp[m] > ses[s].tmstmp
             r == [ses[s] EXCEPT
                     !.scan = Tail(@),
                     !.wr = IF Len(ses[s].scan) = 1 THEN "sleep" ELSE @,
                     !.tmstmp = Ctmstmp(s, m),
                     !.got = IF new /\ ~gone[s] /\ m \in Folder(u)
                             THEN @ \cup {m} ELSE @]
  <2>1. /\ ses[s].wr = "scan" /\ Becomes(s, r)
        /\ UNCHANGED <<gone, box, stamp, now>>
        /\ \/ del' = [del EXCEPT ![u] =
                        IF new /\ "AUTODEL" \in ses[s].opts THEN @ \cup {m} ELSE @]
           \/ UNCHANGED del
    BY <1>2 DEF ScanStep
  <2>2. /\ r.scan = Tail(ses[s].scan) /\ r.usrnam = ses[s].usrnam
        /\ r.wr = IF Len(ses[s].scan) = 1 THEN "sleep" ELSE ses[s].wr
        /\ r.tmstmp = Ctmstmp(s, m)
        /\ r.got = (IF new /\ ~gone[s] /\ m \in Folder(u)
                    THEN ses[s].got \cup {m} ELSE ses[s].got)
        /\ r.ready = ses[s].ready /\ r.rd = ses[s].rd
        /\ r.raced = ses[s].raced
        /\ r.msg = ses[s].msg /\ r.to = ses[s].to
    BY <1>0, Fields
  <2> HIDE DEF r
  <2>3. u \in Users /\ box[u] \in Seq(DOMAIN stamp)
    <3>1. ses[s].ready = Steps
      BY <1>0, <2>1, Zenon DEF FolderOk, SessionOk
    <3> QED  BY <3>1, HasFolder, SMTT(30)
  <2>4. SessionOk(r, gone[s], box[u], del[u], stamp, now)
    <3>1. SessionOk(ses[s], gone[s], box[u], del[u], stamp, now) /\ stamp \in Seq(Nat)
      BY <1>0, SMTT(30) DEF FolderOk, FoldersOk
    <3>2. /\ r.tmstmp = (IF stamp[m] > ses[s].tmstmp THEN stamp[m]
                                                     ELSE ses[s].tmstmp)
          /\ r.got = (IF /\ stamp[m] > ses[s].tmstmp /\ ~gone[s]
                         /\ m \in Range(box[u]) \ del[u]
                      THEN ses[s].got \cup {m} ELSE ses[s].got)
      BY <2>2, SMTT(30) DEF Ctmstmp, Folder
    <3> HIDE DEF u
    <3> QED  BY <2>1, <2>2, <2>3, <3>1, <3>2, ScanMoves, Zenon
  <2>5. DOMAIN del = Users
    BY <1>0, SMTT(30) DEF FoldersOk
  <2> HIDE DEF m, new
  <2>6. DOMAIN del' = Users /\ \A v \in Users : del[v] \subseteq del'[v]
    BY <2>1, <2>3, <2>5, SMTT(30)
  <2>7. FoldersOk'
    BY <1>0, <2>1, <2>6, Zenon DEF FoldersOk
  <2>8. \A t \in Sessions :
           SessionOk(ses[t], gone[t], box'[ses[t].usrnam],
                     del'[ses[t].usrnam], stamp', now')
    BY <2>1, <2>6, OthersDel, Zenon
  <2>9. SessionOk(r, gone[s], box'[r.usrnam], del'[r.usrnam], stamp', now')
    BY <2>1, <2>2, <2>3, <2>4, <2>6, DelGrows, Zenon
  <2> QED  BY <1>0, <2>1, <2>7, <2>8, <2>9, OneMoves, Zenon
<1> QED  BY <1>1, <1>2, SMTT(30) DEF Writer

(* Every step keeps the invariant.                                         *)
LEMMA MsgStep == LoginInv /\ MsgInv /\ [Next]_vars => MsgInv'
<1> SUFFICES ASSUME LoginInv, MsgInv, [Next]_vars PROVE MsgInv'
  BY SMTT(30)
<1>1. CASE Tick
  <2>1. /\ UNCHANGED <<ses, gone, box, del, stamp>> /\ now' = now + 1
        /\ now \in Nat
    BY <1>1, SMTT(30) DEF Tick, disk, MsgInv, FoldersOk
  <2>2. \A s \in Sessions : FolderOk(ses[s], gone[s])'
    BY <2>1, TimePasses DEF MsgInv, FolderOk
  <2> QED  BY <2>1, <2>2 DEF MsgInv, FoldersOk
<1>2. ASSUME NEW s \in Sessions, Reader(s) \/ Writer(s) \/ Client(s)
      PROVE  MsgInv'
  BY <1>2, ReaderMsgs, WriterMsgs, ClientMsgs, SMTT(30)
<1>3. CASE UNCHANGED vars
  BY <1>3 DEF vars, disk, MsgInv, FoldersOk, FolderOk
<1> QED  BY <1>1, <1>2, <1>3 DEF Next

(* opc_sndmsg2() passes over a message that SETUP asked for only for one   *)
(* of the three reasons, for any number of messages, sessions and scans.   *)
THEOREM Passing == Spec => []PassedOver
<1>1. LoginInv /\ MsgInv => PassedOver
  <2> SUFFICES ASSUME LoginInv, MsgInv, NEW s \in Sessions, Chkrdy(s), ~gone[s],
                      ~ses[s].raced,
                      NEW m \in Folder(ses[s].usrnam) \ ses[s].got,
                      stamp[m] <= ses[s].tmstmp
               PROVE  Late(ses[s].usrnam, m) \/ Twin(ses[s].usrnam, m)
    BY SMTT(30) DEF PassedOver
  <2>1. NoneLost(ses[s], box[ses[s].usrnam], del[ses[s].usrnam], stamp)
    BY Zenon DEF MsgInv, FolderOk, SessionOk, Chkrdy, Steps
  <2>2. Excused(box[ses[s].usrnam], stamp, m)
    BY <2>1, Zenon DEF NoneLost, Folder
  <2> QED  BY <2>2, Zenon DEF Excused, Late, Twin
<1> QED  BY <1>1, LoginInit, LoginStep, MsgInit, MsgStep, PTL DEF Spec
=============================================================================
