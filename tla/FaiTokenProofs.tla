--------------------------- MODULE FaiTokenProofs ---------------------------
(***************************************************************************)
(* Proofs about FaiToken, for any sessions and tokens, any maximum of      *)
(* minutes, and any number of keys.                                        *)
(***************************************************************************)
EXTENDS FaiToken, TLAPS

Sess == [pc : Places, tok : Tokens \cup {NoToken}, exp : Nat, key : Nat,
         new : Nat]
Clients == [at : Sessions \cup {NoProc}, tok : Tokens \cup {NoToken},
            key : Nat, use : Nat]

(* The clock, the files, the sessions and the client are well formed.      *)
Typed ==
    /\ now \in Nat /\ keys \in Nat
    /\ file \in [Tokens -> {NoFile} \cup [exp : Nat, key : Nat]]
    /\ issued \in [Tokens -> [at : Nat, exp : Nat]]
    /\ h \in [Sessions -> Sess]
    /\ cl \in Clients

(* A session at work has a token, and so has a client with a key and one   *)
(* whose connection began with its token.                                  *)
HasToken ==
    /\ \A s \in Sessions :
          /\ h[s].pc # "idle" => h[s].tok \in Tokens
          /\ cl.at = s /\ h[s].pc \in {"check", "renew", "renewing", "renewed"}
                => cl.tok \in Tokens
    /\ cl.key # 0 => cl.tok \in Tokens

(* The time in a file, and the time a session is about to write into one,  *)
(* is the one that the token was issued with.                              *)
TimeKept ==
    /\ \A t \in Tokens :
          /\ issued[t].exp <= issued[t].at + FAITOK_MQ
          /\ file[t] \notin {NoFile, Empty} =>
                file[t].exp = issued[t].exp /\ issued[t].exp > 0
    /\ \A s \in Sessions : h[s].pc \in {"issue", "issuing", "renew", "renewing"}
          => h[s].exp = issued[h[s].tok].exp /\ h[s].exp > 0

FaiInv == Typed /\ HasToken /\ TimeKept

-----------------------------------------------------------------------------
(* A session that serves nobody is well formed.                            *)
LEMMA GoneType == Gone \in Sess /\ Gone.pc = "idle"
  BY DEF Gone, Sess, Places

(* Before any token is issued there is no file.                            *)
LEMMA FaiInit == Init => FaiInv
<1> SUFFICES ASSUME Init PROVE FaiInv
  OBVIOUS
<1>1. Typed
  BY GoneType DEF Init, Typed, Clients
<1>2. HasToken
  BY FaiAssumption, GoneType DEF Init, HasToken
<1>3. TimeKept
  BY FaiAssumption, GoneType DEF Init, TimeKept
<1> QED  BY <1>1, <1>2, <1>3 DEF FaiInv

(* FAITOK gives a token FAITOK_MQ minutes at most, and one at least.       *)
LEMMA ExpiryBounds ==
    ASSUME now \in Nat, NEW arg \in Args
    PROVE  /\ Expiry(arg) \in Nat /\ Expiry(arg) > 0
           /\ Expiry(arg) <= now + FAITOK_MQ
  BY FaiAssumption DEF Expiry

(* A session that moves on is well formed, and the others are as they      *)
(* were.                                                                   *)
LEMMA Moves ==
    ASSUME Typed, NEW s \in Sessions, NEW p \in Places,
           h' = [h EXCEPT ![s].pc = p]
    PROVE  /\ h' \in [Sessions -> Sess] /\ h'[s].pc = p
           /\ h'[s].tok = h[s].tok /\ h'[s].exp = h[s].exp
           /\ h'[s].key = h[s].key /\ h'[s].new = h[s].new
           /\ \A r \in Sessions \ {s} : h'[r] = h[r]
  BY SMTT(30) DEF Typed, Sess

(* The session of a FAITOK, and of a connection with a token.              *)
Issuing(t, e, k) ==
    [Gone EXCEPT !.pc = "issue", !.tok = t, !.exp = e, !.new = k]
Asking(t) == [Gone EXCEPT !.pc = "check", !.tok = t]

(* They are well formed.                                                   *)
LEMMA AskingType ==
    ASSUME NEW t \in Tokens \cup {NoToken}
    PROVE  Asking(t) \in Sess /\ Asking(t).pc = "check" /\ Asking(t).tok = t
<1> DEFINE d == [Gone EXCEPT !.pc = "check"]
<1>1. d \in Sess /\ d.pc = "check"
  BY GoneType DEF Sess, Places
<1>2. Asking(t) = [d EXCEPT !.tok = t]
  BY DEF Asking
<1> HIDE DEF d
<1>3. /\ [d EXCEPT !.tok = t] \in Sess /\ [d EXCEPT !.tok = t].pc = d.pc
      /\ [d EXCEPT !.tok = t].tok = t
  BY <1>1 DEF Sess
<1> QED  BY <1>1, <1>2, <1>3

(* So is the one of FAITOK.                                                *)
LEMMA IssuingType ==
    ASSUME NEW t \in Tokens, NEW e \in Nat, NEW k \in Nat
    PROVE  /\ Issuing(t, e, k) \in Sess /\ Issuing(t, e, k).pc = "issue"
           /\ Issuing(t, e, k).tok = t /\ Issuing(t, e, k).exp = e
           /\ Issuing(t, e, k).key = 0
<1> DEFINE d1 == [Gone EXCEPT !.pc = "issue"]
           d2 == [d1 EXCEPT !.tok = t]
           d3 == [d2 EXCEPT !.exp = e]
<1>1. d1 \in Sess /\ d1.pc = "issue" /\ d1.key = 0
  BY GoneType DEF Gone, Sess, Places
<1>2. Issuing(t, e, k) = [d3 EXCEPT !.new = k]
  BY DEF Issuing
<1> HIDE DEF d1
<1>3. d2 \in Sess /\ d2.pc = "issue" /\ d2.tok = t /\ d2.key = 0
  BY <1>1 DEF Sess
<1> HIDE DEF d2
<1>4. /\ d3 \in Sess /\ d3.pc = "issue" /\ d3.tok = t /\ d3.exp = e
      /\ d3.key = 0
  BY <1>3 DEF Sess
<1> HIDE DEF d3
<1>5. /\ [d3 EXCEPT !.new = k] \in Sess /\ [d3 EXCEPT !.new = k].pc = d3.pc
      /\ [d3 EXCEPT !.new = k].tok = d3.tok
      /\ [d3 EXCEPT !.new = k].exp = d3.exp
      /\ [d3 EXCEPT !.new = k].key = d3.key
  BY <1>4 DEF Sess
<1> QED  BY <1>2, <1>4, <1>5

(* The client when its connection changes, when it gets a key, and when it *)
(* gets a token.                                                           *)
Conn(c, a, k) == [c EXCEPT !.at = a, !.use = k]
Keyed(c, k) == [c EXCEPT !.key = k]
Given(c, t, k) == [c EXCEPT !.tok = t, !.key = k]

(* What it remembers is well formed then.                                  *)
LEMMA KeyedType ==
    ASSUME NEW c \in Clients, NEW k \in Nat
    PROVE  /\ Keyed(c, k) \in Clients /\ Keyed(c, k).at = c.at
           /\ Keyed(c, k).tok = c.tok /\ Keyed(c, k).key = k
           /\ Keyed(c, k).use = c.use
  BY DEF Keyed, Clients

(* So it is with another connection.                                       *)
LEMMA ConnType ==
    ASSUME NEW c \in Clients, NEW a \in Sessions \cup {NoProc}, NEW k \in Nat
    PROVE  /\ Conn(c, a, k) \in Clients /\ Conn(c, a, k).at = a
           /\ Conn(c, a, k).tok = c.tok /\ Conn(c, a, k).key = c.key
           /\ Conn(c, a, k).use = k
<1> DEFINE d == [c EXCEPT !.at = a]
<1>1. d \in Clients /\ d.at = a /\ d.tok = c.tok /\ d.key = c.key
  BY DEF Clients
<1>2. Conn(c, a, k) = [d EXCEPT !.use = k]
  BY DEF Conn
<1> HIDE DEF d
<1>3. /\ [d EXCEPT !.use = k] \in Clients /\ [d EXCEPT !.use = k].at = d.at
      /\ [d EXCEPT !.use = k].tok = d.tok /\ [d EXCEPT !.use = k].key = d.key
      /\ [d EXCEPT !.use = k].use = k
  BY <1>1 DEF Clients
<1> QED  BY <1>1, <1>2, <1>3

(* So it is without one.                                                   *)
LEMMA HungUp ==
    ASSUME NEW c \in Clients
    PROVE  /\ Conn(c, NoProc, 0) \in Clients /\ Conn(c, NoProc, 0).at = NoProc
           /\ Conn(c, NoProc, 0).tok = c.tok /\ Conn(c, NoProc, 0).key = c.key
<1>1. NoProc \in Sessions \cup {NoProc} /\ 0 \in Nat
  OBVIOUS
<1> QED  BY <1>1, ConnType

(* So it is with a token.                                                  *)
LEMMA GivenType ==
    ASSUME NEW c \in Clients, NEW t \in Tokens, NEW k \in Nat
    PROVE  /\ Given(c, t, k) \in Clients /\ Given(c, t, k).tok = t
           /\ Given(c, t, k).at = c.at /\ Given(c, t, k).key = k
           /\ Given(c, t, k).use = c.use
<1> DEFINE d == [c EXCEPT !.tok = t]
<1>1. d \in Clients /\ d.tok = t /\ d.at = c.at /\ d.use = c.use
  BY DEF Clients
<1>2. Given(c, t, k) = [d EXCEPT !.key = k]
  BY DEF Given
<1> HIDE DEF d
<1>3. /\ [d EXCEPT !.key = k] \in Clients /\ [d EXCEPT !.key = k].tok = d.tok
      /\ [d EXCEPT !.key = k].at = d.at /\ [d EXCEPT !.key = k].key = k
      /\ [d EXCEPT !.key = k].use = d.use
  BY <1>1 DEF Clients
<1> QED  BY <1>1, <1>2, <1>3

(* A session that ends, and its client.                                    *)
LEMMA Ends ==
    ASSUME FaiInv, NEW s \in Sessions, h' = [h EXCEPT ![s] = Gone],
           UNCHANGED <<now, issued, file, keys>>,
           \/ cl' = cl
           \/ cl' = [cl EXCEPT !.at = NoProc, !.use = 0]
           \/ cl' = [at |-> NoProc, tok |-> NoToken, key |-> 0, use |-> 0]
    PROVE  FaiInv'
<1>1. /\ h' \in [Sessions -> Sess] /\ h'[s].pc = "idle"
      /\ \A r \in Sessions \ {s} : h'[r] = h[r]
  BY GoneType DEF FaiInv, Typed
<1>2. /\ cl' \in Clients
      /\ cl' = cl \/ (cl'.at = NoProc /\ (cl'.key # 0 =>
                                           cl'.key = cl.key /\ cl'.tok = cl.tok))
  <2>1. cl \in Clients
    BY DEF FaiInv, Typed
  <2> DEFINE e == [at |-> NoProc, tok |-> NoToken, key |-> 0, use |-> 0]
  <2>2. e \in Clients /\ e.at = NoProc /\ e.key = 0
    BY DEF Clients
  <2>3. cl' = cl \/ cl' = Conn(cl, NoProc, 0) \/ cl' = e
    BY DEF Conn
  <2>5. /\ Conn(cl, NoProc, 0) \in Clients
        /\ Conn(cl, NoProc, 0).at = NoProc
        /\ Conn(cl, NoProc, 0).tok = cl.tok
        /\ Conn(cl, NoProc, 0).key = cl.key
    BY <2>1, HungUp
  <2> HIDE DEF e
  <2> QED  BY <2>1, <2>2, <2>3, <2>5
<1>3. Typed'
  BY <1>1, <1>2 DEF FaiInv, Typed
<1>4. HasToken'
  BY <1>1, <1>2, FaiAssumption DEF FaiInv, HasToken
<1>5. TimeKept'
  BY <1>1 DEF FaiInv, TimeKept
<1> QED  BY <1>3, <1>4, <1>5 DEF FaiInv

(* No step of FAITOK, of a connection with a token, of the clock or of the *)
(* client breaks the invariant.                                            *)
LEMMA FaiStep == FaiInv /\ [Next]_vars => FaiInv'
<1> SUFFICES ASSUME FaiInv, [Next]_vars PROVE FaiInv'
  OBVIOUS
<1>0. Typed /\ HasToken /\ TimeKept
  BY DEF FaiInv
<1>1. CASE Tick
  <2>1. Typed'
    BY <1>0, <1>1 DEF Tick, Typed
  <2>2. HasToken' /\ TimeKept'
    BY <1>0, <1>1 DEF Tick, HasToken, TimeKept
  <2> QED  BY <2>1, <2>2 DEF FaiInv
<1>2. CASE Drop
  <2>1. cl' = Conn(cl, NoProc, 0) /\ UNCHANGED <<now, issued, file, keys, h>>
    BY <1>2 DEF Drop, Conn
  <2>2. /\ cl' \in Clients /\ cl'.at = NoProc /\ cl'.tok = cl.tok
        /\ cl'.key = cl.key
    <3>1. NoProc \in Sessions \cup {NoProc} /\ 0 \in Nat
      OBVIOUS
    <3>2. cl \in Clients
      BY <1>0 DEF Typed
    <3>3. /\ Conn(cl, NoProc, 0) \in Clients
          /\ Conn(cl, NoProc, 0).at = NoProc
          /\ Conn(cl, NoProc, 0).tok = cl.tok
          /\ Conn(cl, NoProc, 0).key = cl.key
      BY <3>1, <3>2, ConnType
    <3> QED  BY <2>1, <3>3
  <2>3. Typed'
    BY <1>0, <2>1, <2>2 DEF Typed
  <2>4. HasToken' /\ TimeKept'
    BY <1>0, <2>1, <2>2, FaiAssumption DEF HasToken, TimeKept
  <2> QED  BY <2>3, <2>4 DEF FaiInv
<1>3. ASSUME NEW s \in Sessions, NEW t \in Tokens, NEW arg \in Args,
             FaiTok(s, t, arg)
      PROVE FaiInv'
  <2> DEFINE r == Issuing(t, Expiry(arg), keys + 1)
             i == [at |-> now, exp |-> Expiry(arg)]
  <2>1. Expiry(arg) \in Nat /\ Expiry(arg) > 0 /\ Expiry(arg) <= now + FAITOK_MQ
    BY <1>0, ExpiryBounds DEF Typed
  <2>2. keys + 1 \in Nat
    BY <1>0 DEF Typed
  <2>3. r \in Sess /\ r.pc = "issue" /\ r.tok = t /\ r.exp = Expiry(arg)
    BY <2>1, <2>2, IssuingType
  <2>4. i \in [at : Nat, exp : Nat] /\ i.at = now /\ i.exp = Expiry(arg)
    BY <1>0, <2>1 DEF Typed
  <2>5. /\ h' = [h EXCEPT ![s] = r] /\ issued' = [issued EXCEPT ![t] = i]
        /\ cl' = Conn(cl, s, 0) /\ UNCHANGED <<now, file>>
        /\ keys' = keys + 1 /\ h[s].pc = "idle" /\ issued[t].exp = 0
    BY <1>3 DEF FaiTok, Conn, Issuing
  <2> HIDE DEF r, i
  <2>6. /\ cl' \in Clients /\ cl'.at = s /\ cl'.tok = cl.tok
        /\ cl'.key = cl.key
    <3>1. s \in Sessions \cup {NoProc} /\ 0 \in Nat
      OBVIOUS
    <3> QED  BY <1>0, <2>5, <3>1, ConnType DEF Typed
  <2>7. Typed'
    BY <1>0, <2>3, <2>4, <2>5, <2>6 DEF Typed
  <2>8. h'[s] = r /\ \A q \in Sessions \ {s} : h'[q] = h[q]
    BY <1>0, <2>5 DEF Typed
  <2>9. issued'[t] = i /\ \A u \in Tokens \ {t} : issued'[u] = issued[u]
    BY <1>0, <2>5 DEF Typed
  <2>10. HasToken'
    BY <1>0, <2>3, <2>6, <2>8 DEF HasToken
  <2>11. TimeKept'
    <3>1. ASSUME NEW u \in Tokens
          PROVE  /\ issued'[u].exp <= issued'[u].at + FAITOK_MQ
                 /\ file'[u] \notin {NoFile, Empty} =>
                       file'[u].exp = issued'[u].exp /\ issued'[u].exp > 0
      BY <1>0, <2>1, <2>4, <2>5, <2>9 DEF TimeKept
    <3>2. ASSUME NEW q \in Sessions,
                 h'[q].pc \in {"issue", "issuing", "renew", "renewing"}
          PROVE  h'[q].exp = issued'[h'[q].tok].exp /\ h'[q].exp > 0
      <4>1. CASE q = s
        BY <2>1, <2>3, <2>4, <2>8, <2>9, <4>1
      <4>2. CASE q # s
        <5>1. h'[q] = h[q] /\ h[q].tok \in Tokens
          BY <1>0, <2>8, <3>2, <4>2 DEF HasToken
        <5>2. h[q].exp = issued[h[q].tok].exp /\ h[q].exp > 0
          BY <1>0, <3>2, <5>1 DEF TimeKept
        <5>3. h[q].tok # t
          BY <2>5, <5>2
        <5> QED  BY <2>9, <5>1, <5>2, <5>3
      <4> QED  BY <4>1, <4>2
    <3> QED  BY <3>1, <3>2 DEF TimeKept
  <2> QED  BY <2>7, <2>10, <2>11 DEF FaiInv
<1>4. ASSUME NEW s \in Sessions, SaveOpen(s) \/ RenewOpen(s) PROVE FaiInv'
  <2>1. Empty \in [exp : Nat, key : Nat]
    BY DEF Empty
  <2>2. PICK p \in {"issuing", "renewing"} :
          /\ h' = [h EXCEPT ![s].pc = p]
          /\ p = "issuing" <=> h[s].pc = "issue"
    BY <1>4 DEF SaveOpen, RenewOpen
  <2>3. /\ h[s].pc \in {"issue", "renew"} /\ UNCHANGED <<now, issued, keys, cl>>
        /\ file' = [file EXCEPT ![h[s].tok] = Empty]
    BY <1>4 DEF SaveOpen, RenewOpen
  <2>4. h[s].tok \in Tokens
    BY <1>0, <2>3, SMTT(30) DEF HasToken
  <2>5. /\ h' \in [Sessions -> Sess] /\ h'[s].pc = p /\ h'[s].tok = h[s].tok
        /\ h'[s].exp = h[s].exp /\ \A r \in Sessions \ {s} : h'[r] = h[r]
    BY <1>0, <2>2, Moves, Zenon DEF Places
  <2>6. Typed'
    BY <1>0, <2>1, <2>3, <2>5, Zenon DEF Typed
  <2>7. HasToken'
    BY <1>0, <2>2, <2>3, <2>5 DEF HasToken
  <2>8. TimeKept'
    BY <1>0, <2>3, <2>4, <2>5 DEF TimeKept, Typed
  <2> QED  BY <2>6, <2>7, <2>8 DEF FaiInv
<1>5. ASSUME NEW s \in Sessions, SaveClose(s) PROVE FaiInv'
  <2> DEFINE f == [exp |-> h[s].exp, key |-> h[s].new]
  <2>1. f \in [exp : Nat, key : Nat] /\ f.exp = h[s].exp
    BY <1>0 DEF Typed, Sess
  <2>2. /\ h[s].pc = "issuing" /\ UNCHANGED <<now, issued, keys, cl>>
        /\ file' = [file EXCEPT ![h[s].tok] = f]
        /\ h' = [h EXCEPT ![s].pc = "issued"]
    BY <1>5 DEF SaveClose
  <2> HIDE DEF f
  <2>3. h[s].tok \in Tokens
    BY <1>0, <2>2 DEF HasToken
  <2>4. /\ h' \in [Sessions -> Sess] /\ h'[s].pc = "issued"
        /\ h'[s].tok = h[s].tok /\ \A r \in Sessions \ {s} : h'[r] = h[r]
    BY <1>0, <2>2, Moves, Zenon DEF Places
  <2>5. Typed'
    BY <1>0, <2>1, <2>2, <2>4, Zenon DEF Typed
  <2>6. HasToken'
    BY <1>0, <2>2, <2>4 DEF HasToken
  <2>7. TimeKept'
    BY <1>0, <2>1, <2>2, <2>3, <2>4 DEF TimeKept, Typed
  <2> QED  BY <2>5, <2>6, <2>7 DEF FaiInv
<1>6. ASSUME NEW s \in Sessions, RenewClose(s) PROVE FaiInv'
  <2> DEFINE f == [exp |-> h[s].exp, key |-> keys + 1]
  <2>1. f \in [exp : Nat, key : Nat] /\ f.exp = h[s].exp
    BY <1>0 DEF Typed, Sess
  <2>2. /\ h[s].pc = "renewing" /\ UNCHANGED <<now, issued, cl>>
        /\ file' = [file EXCEPT ![h[s].tok] = f] /\ keys' = keys + 1
        /\ h' = [h EXCEPT ![s].pc = "renewed", ![s].new = keys + 1]
    BY <1>6 DEF RenewClose
  <2> HIDE DEF f
  <2>3. h[s].tok \in Tokens
    BY <1>0, <2>2 DEF HasToken
  <2>k. keys + 1 \in Nat
    BY <1>0 DEF Typed
  <2> DEFINE g == [h EXCEPT ![s].pc = "renewed"]
  <2>g. /\ g \in [Sessions -> Sess] /\ g[s].pc = "renewed"
        /\ g[s].tok = h[s].tok /\ \A r \in Sessions \ {s} : g[r] = h[r]
    BY <1>0 DEF Typed, Sess, Places
  <2>h. h' = [g EXCEPT ![s].new = keys + 1]
    BY <2>2
  <2> HIDE DEF g
  <2>4. /\ h' \in [Sessions -> Sess] /\ h'[s].pc = "renewed"
        /\ h'[s].tok = h[s].tok /\ \A r \in Sessions \ {s} : h'[r] = h[r]
    BY <2>g, <2>h, <2>k DEF Sess
  <2>5. Typed'
    BY <1>0, <2>1, <2>2, <2>4, <2>k, Zenon DEF Typed
  <2>6. HasToken'
    BY <1>0, <2>2, <2>4 DEF HasToken
  <2>7. TimeKept'
    BY <1>0, <2>1, <2>2, <2>3, <2>4 DEF TimeKept, Typed
  <2> QED  BY <2>5, <2>6, <2>7 DEF FaiInv
<1>7. ASSUME NEW s \in Sessions, SaveReply(s) \/ RenewSend(s) PROVE FaiInv'
  <2>1. /\ h' = [h EXCEPT ![s].pc = "in"] /\ h[s].pc \in {"issued", "renewed"}
        /\ UNCHANGED <<now, issued, file, keys>>
    BY <1>7 DEF SaveReply, RenewSend
  <2>2. /\ h' \in [Sessions -> Sess] /\ h'[s].pc = "in"
        /\ h'[s].tok = h[s].tok /\ \A r \in Sessions \ {s} : h'[r] = h[r]
    BY <1>0, <2>1, Moves, Zenon DEF Places
  <2>3. h[s].tok \in Tokens /\ h[s].new \in Nat /\ cl \in Clients
    BY <1>0, <2>1 DEF HasToken, Typed, Sess
  <2>4. /\ cl' \in Clients /\ cl'.at = cl.at
        /\ cl'.tok = cl.tok \/ cl'.tok \in Tokens
        /\ cl' = cl \/ cl'.tok \in Tokens
    <3>1. CASE cl' = cl
      BY <2>3, <3>1
    <3>2. CASE SaveReply(s) /\ cl' # cl
      <4>1. cl' = Given(cl, h[s].tok, h[s].new)
        BY <3>2 DEF SaveReply, Given
      <4> QED  BY <2>3, <4>1, GivenType
    <3>3. CASE RenewSend(s) /\ cl' # cl
      <4>1. cl' = Keyed(cl, h[s].new) /\ cl.at = s /\ h[s].pc = "renewed"
        BY <3>3 DEF RenewSend, Keyed
      <4>2. cl.tok \in Tokens
        BY <1>0, <4>1 DEF HasToken
      <4> QED  BY <2>3, <4>1, <4>2, KeyedType
    <3> QED  BY <1>7, <3>1, <3>2, <3>3
  <2>5. Typed'
    BY <1>0, <2>1, <2>2, <2>4 DEF Typed
  <2>6. HasToken'
    BY <1>0, <2>2, <2>3, <2>4 DEF HasToken
  <2>7. TimeKept'
    BY <1>0, <2>1, <2>2 DEF TimeKept
  <2> QED  BY <2>5, <2>6, <2>7 DEF FaiInv
<1>8. ASSUME NEW s \in Sessions, Connect(s) PROVE FaiInv'
  <2>1. /\ h' = [h EXCEPT ![s] = Asking(cl.tok)] /\ cl' = Conn(cl, s, cl.key)
        /\ UNCHANGED <<now, issued, file, keys>> /\ cl.key # 0
    BY <1>8 DEF Connect, Asking, Conn
  <2>2. cl.tok \in Tokens /\ cl.key \in Nat /\ cl \in Clients
    BY <1>0, <2>1 DEF HasToken, Typed, Clients
  <2>3. s \in Sessions \cup {NoProc} /\ cl.tok \in Tokens \cup {NoToken}
    BY <2>2
  <2>4. /\ cl' \in Clients /\ cl'.at = s /\ cl'.tok = cl.tok
        /\ cl'.key = cl.key
    BY <2>1, <2>2, <2>3, ConnType
  <2>5. /\ h' \in [Sessions -> Sess] /\ h'[s].pc = "check"
        /\ h'[s].tok = cl.tok /\ \A r \in Sessions \ {s} : h'[r] = h[r]
    BY <1>0, <2>1, <2>3, AskingType DEF Typed
  <2>6. Typed'
    BY <1>0, <2>1, <2>4, <2>5 DEF Typed
  <2>7. HasToken'
    BY <1>0, <2>2, <2>4, <2>5 DEF HasToken
  <2>8. TimeKept'
    BY <1>0, <2>1, <2>5, SMTT(30) DEF TimeKept
  <2> QED  BY <2>6, <2>7, <2>8 DEF FaiInv
<1>9. ASSUME NEW s \in Sessions, ChkFaiTok(s) PROVE FaiInv'
  <2> DEFINE f == file[h[s].tok]
  <2>1. h[s].pc = "check" /\ UNCHANGED <<now, issued, keys, cl>>
        /\ h[s].tok \in Tokens
    BY <1>0, <1>9, SMTT(30) DEF ChkFaiTok, HasToken
  <2>2. CASE /\ h' = [h EXCEPT ![s].pc = "denied"]
             /\ file' = file \/ file' = [file EXCEPT ![h[s].tok] = NoFile]
    <3>1. /\ h' \in [Sessions -> Sess] /\ h'[s].pc = "denied"
          /\ h'[s].tok = h[s].tok /\ \A r \in Sessions \ {s} : h'[r] = h[r]
      BY <1>0, <2>2, Moves, Zenon DEF Places
    <3>2. Typed'
      BY <1>0, <2>1, <2>2, <3>1 DEF Typed
    <3>3. HasToken'
      BY <1>0, <2>1, <3>1 DEF HasToken
    <3>4. \A t \in Tokens : file'[t] \in {file[t], NoFile}
      BY <1>0, <2>2 DEF Typed
    <3>5. TimeKept'
      BY <1>0, <2>1, <3>1, <3>4 DEF TimeKept
    <3> QED  BY <3>2, <3>3, <3>5 DEF FaiInv
  <2>3. CASE /\ f \notin {NoFile, Empty} /\ UNCHANGED file
             /\ h' = [h EXCEPT ![s].pc = "renew", ![s].exp = f.exp,
                               ![s].key = f.key]
    <3>1. f \in [exp : Nat, key : Nat]
      BY <1>0, <2>1, <2>3 DEF Typed
    <3>2. f.exp = issued[h[s].tok].exp /\ f.exp > 0
      BY <1>0, <2>1, <2>3 DEF TimeKept
    <3> HIDE DEF f
    <3>3. f.exp \in Nat /\ f.key \in Nat
      BY <3>1
    <3>4. /\ h' \in [Sessions -> Sess] /\ h'[s].pc = "renew"
          /\ h'[s].tok = h[s].tok /\ h'[s].exp = f.exp
          /\ \A r \in Sessions \ {s} : h'[r] = h[r]
      <4> DEFINE g == h[s]
                 q == [g EXCEPT !.pc = "renew", !.exp = f.exp, !.key = f.key]
      <4>1. g \in Sess /\ h \in [Sessions -> Sess]
        BY <1>0 DEF Typed
      <4>2. h' = [h EXCEPT ![s] = q]
        BY <2>3, Zenon
      <4> HIDE DEF g
      <4>3. q \in Sess /\ q.pc = "renew" /\ q.tok = g.tok /\ q.exp = f.exp
        BY <3>3, <4>1, Zenon DEF Sess, Places
      <4>4. g.tok = h[s].tok
        BY DEF g
      <4> HIDE DEF q
      <4> QED  BY <4>1, <4>2, <4>3, <4>4
    <3>5. Typed'
      BY <1>0, <2>1, <2>3, <3>4 DEF Typed
    <3>6. HasToken'
      BY <1>0, <2>1, <3>4, SMTT(30) DEF HasToken
    <3>7. TimeKept'
      BY <1>0, <2>1, <2>3, <3>2, <3>4, Zenon DEF TimeKept
    <3> QED  BY <3>5, <3>6, <3>7 DEF FaiInv
  <2> QED  BY <1>9, <2>2, <2>3 DEF ChkFaiTok
<1>10. ASSUME NEW s \in Sessions, Denied(s) \/ Quit(s) \/ Kill(s) PROVE FaiInv'
  BY <1>10, Ends DEF Denied, Quit, Kill
<1>11. CASE UNCHANGED vars
  BY <1>0, <1>11, SMTT(30) DEF vars, FaiInv, Typed, HasToken, TimeKept
<1> QED
  BY <1>1, <1>2, <1>3, <1>4, <1>5, <1>6, <1>7, <1>8, <1>9, <1>10, <1>11
     DEF Next, Step

-----------------------------------------------------------------------------
(* What EntryInTime says of one step.                                      *)
InTime ==
    \A s \in Sessions : h[s].pc = "check" /\ h'[s].pc = "renew" =>
        LET i == issued[h[s].tok]
        IN  now < i.exp /\ now < i.at + FAITOK_MQ

(* Only chkfaitok() lets a session go on with a token: the other steps are *)
(* of another session, or begin or end elsewhere.                          *)
LEMMA OnlyChk ==
    ASSUME FaiInv, Next, NEW s \in Sessions, h[s].pc = "check",
           h'[s].pc = "renew"
    PROVE  ChkFaiTok(s)
<1>0. h \in [Sessions -> Sess] /\ Typed
  BY DEF FaiInv, Typed
<1>1. CASE Tick \/ Drop
  BY <1>1 DEF Tick, Drop
<1>2. ASSUME NEW r \in Sessions, NEW p \in Places,
             h' = [h EXCEPT ![r].pc = p], h[r].pc # "check" \/ p # "renew"
      PROVE  FALSE
  BY <1>0, <1>2, Moves
<1>3. ASSUME NEW r \in Sessions, NEW q \in Sess, h' = [h EXCEPT ![r] = q],
             q.pc # "renew"
      PROVE  FALSE
  BY <1>0, <1>3
<1>4. ASSUME NEW r \in Sessions, RenewClose(r)  PROVE FALSE
  <2> DEFINE g == [h EXCEPT ![r].pc = "renewed"]
  <2>1. g \in [Sessions -> Sess] /\ g[r].pc = "renewed"
        /\ \A t \in Sessions \ {r} : g[t] = h[t]
    BY <1>0 DEF Sess, Places
  <2>2. h' = [g EXCEPT ![r].new = keys + 1]
    BY <1>4 DEF RenewClose
  <2> HIDE DEF g
  <2>3. h'[s].pc = g[s].pc
    BY <2>1, <2>2 DEF Sess
  <2> QED  BY <2>1, <2>3
<1>5. ASSUME NEW r \in Sessions, ChkFaiTok(r), r # s  PROVE FALSE
  BY <1>0, <1>5 DEF ChkFaiTok
<1>6. ASSUME NEW r \in Sessions, NEW t \in Tokens, NEW arg \in Args,
             FaiTok(r, t, arg)
      PROVE  FALSE
  <2>1. h' = [h EXCEPT ![r] = Issuing(t, Expiry(arg), keys + 1)]
    BY <1>6 DEF FaiTok, Issuing
  <2>2. Expiry(arg) \in Nat /\ keys + 1 \in Nat
    BY <1>0, ExpiryBounds DEF Typed
  <2> QED  BY <1>3, <2>1, <2>2, IssuingType
<1>7. ASSUME NEW r \in Sessions, Connect(r)  PROVE FALSE
  <2>1. h' = [h EXCEPT ![r] = Asking(cl.tok)]
    BY <1>7 DEF Connect, Asking
  <2>2. cl.tok \in Tokens \cup {NoToken}
    BY <1>0 DEF Typed, Clients
  <2> QED  BY <1>3, <2>1, <2>2, AskingType
<1>8. ASSUME NEW r \in Sessions, Denied(r) \/ Quit(r) \/ Kill(r)  PROVE FALSE
  BY <1>3, <1>8, GoneType DEF Denied, Quit, Kill
<1>9. ASSUME NEW r \in Sessions,
             \/ SaveOpen(r) \/ SaveClose(r) \/ SaveReply(r)
             \/ RenewOpen(r) \/ RenewSend(r)
      PROVE  FALSE
  BY <1>2, <1>9
     DEF SaveOpen, SaveClose, SaveReply, RenewOpen, RenewSend, Places
<1> QED
  BY <1>1, <1>4, <1>5, <1>6, <1>7, <1>8, <1>9 DEF Next, Step

(* The file that chkfaitok() finds has the time of the token.              *)
LEMMA TimeStep == FaiInv /\ [Next]_vars => [InTime]_vars
<1> SUFFICES ASSUME FaiInv, Next, NEW s \in Sessions, h[s].pc = "check",
                    h'[s].pc = "renew"
             PROVE  LET i == issued[h[s].tok]
                    IN  now < i.exp /\ now < i.at + FAITOK_MQ
  BY DEF InTime
<1>1. ChkFaiTok(s) /\ h[s].tok \in Tokens
  BY OnlyChk DEF FaiInv, HasToken
<1>2. h' # [h EXCEPT ![s].pc = "denied"]
  BY DEF FaiInv, Typed, Sess
<1>3. file[h[s].tok] \notin {NoFile, Empty} /\ now < file[h[s].tok].exp
  BY <1>1, <1>2 DEF ChkFaiTok
<1>4. /\ file[h[s].tok].exp = issued[h[s].tok].exp
      /\ issued[h[s].tok].exp <= issued[h[s].tok].at + FAITOK_MQ
  BY <1>1, <1>3 DEF FaiInv, TimeKept
<1>5. now \in Nat /\ issued[h[s].tok] \in [at : Nat, exp : Nat]
  BY <1>1 DEF FaiInv, Typed
<1> QED  BY <1>3, <1>4, <1>5, FaiAssumption

(* chkfaitok() opens a session for a token only before the token expires,  *)
(* and that is no later than FAITOK_MQ minutes after FAITOK: EntryInTime,  *)
(* with any number of sessions that renew the token, lose their client or  *)
(* die.                                                                    *)
THEOREM EntryTime == Spec => EntryInTime
<1>1. FaiInv /\ [Next]_vars => FaiInv'
  BY FaiStep
<1>2. FaiInv /\ [Next]_vars => [InTime]_vars
  BY TimeStep
<1>3. [][InTime]_vars => EntryInTime
  BY PTL DEF EntryInTime, InTime
<1> QED  BY FaiInit, <1>1, <1>2, <1>3, PTL DEF Spec

-----------------------------------------------------------------------------
Issues == {"issue", "issuing", "issued"}
Asks == {"check", "renew", "renewing", "renewed"}
Written(f) == f \notin {NoFile, Empty}

(* A token that a session or the client has was issued, by one session;    *)
(* until its reply no other session and no client has it.                  *)
Once ==
    /\ \A s \in Sessions : h[s].pc # "idle" => issued[h[s].tok].exp > 0
    /\ cl.key # 0 => issued[cl.tok].exp > 0
    /\ \A s \in Sessions : h[s].pc \in Issues =>
          /\ h[s].key = 0
          /\ cl.key # 0 => h[s].tok # cl.tok
          /\ \A r \in Sessions \ {s} :
                h[r].pc \in Issues \cup Asks => h[r].tok # h[s].tok
          /\ h[s].pc = "issued" => /\ Written(file[h[s].tok])
                                   /\ file[h[s].tok].key = h[s].new

(* The client is there for as long as a session checks and renews a token, *)
(* or the token is hurt.                                                   *)
Attended ==
    /\ cl.at \in Sessions => (h[cl.at].pc \in Issues => cl.key = 0)
    /\ \A s \in Sessions : h[s].pc \in Asks =>
          /\ h[s].tok \notin hurt => cl.at = s
          /\ cl.at = s => cl.key # 0 /\ cl.tok = h[s].tok
          /\ cl.at = s /\ h[s].pc = "check" => cl.use = cl.key

(* The key that the client has, or is about to be sent.                    *)
NextKey == IF cl.at \in Sessions /\ h[cl.at].pc = "renewed"
           THEN h[cl.at].new ELSE cl.key

(* It is the one in the file, but while that is written, and but for a     *)
(* token that has expired.                                                 *)
Held ==
    cl.key # 0 /\ cl.tok \notin hurt =>
        \/ cl.at \in Sessions /\ h[cl.at].pc = "renewing"
        \/ Written(file[cl.tok]) /\ file[cl.tok].key = NextKey
        \/ file[cl.tok] = NoFile /\ now >= issued[cl.tok].exp

KeyInv == Once /\ Attended /\ Held /\ KeyAgreed /\ DeniedIsExpired

-----------------------------------------------------------------------------
(* What the parts of the invariant say at first: nobody has a token.       *)
LEMMA KeyInit == Init => KeyInv
<1> SUFFICES ASSUME Init PROVE KeyInv
  OBVIOUS
<1>1. /\ \A s \in Sessions : h[s].pc = "idle"
      /\ cl.key = 0 /\ cl.at = NoProc /\ cl.at \notin Sessions
  BY FaiAssumption, GoneType DEF Init
<1> QED
  BY <1>1 DEF KeyInv, Once, Attended, Held, KeyAgreed, DeniedIsExpired,
              Issues, Asks

(* A session that goes no further with a token, and its client; the files  *)
(* are as they were.  The token is hurt if it was being renewed.           *)
LEMMA KeyEnds ==
    ASSUME FaiInv, KeyInv, NEW s \in Sessions, h' = [h EXCEPT ![s] = Gone],
           UNCHANGED <<now, issued, file>>, hurt \subseteq hurt',
           h[s].pc \in {"renewing", "renewed"} => h[s].tok \in hurt',
           cl.at = s => cl'.at = NoProc /\ (cl'.key # 0 =>
                                  cl'.key = cl.key /\ cl'.tok = cl.tok),
           cl.at # s => cl' = cl
    PROVE  KeyInv'
<1>1. /\ h'[s].pc = "idle" /\ \A r \in Sessions \ {s} : h'[r] = h[r]
      /\ NoProc \notin Sessions /\ cl.at \in Sessions \cup {NoProc}
  BY GoneType, FaiAssumption DEF FaiInv, Typed, Clients
<1>0. Once /\ Attended /\ Held /\ KeyAgreed /\ DeniedIsExpired
  BY SMTT(30) DEF KeyInv
<1>2. Once'
  BY <1>0, <1>1, SMTT(30) DEF Once, Issues, Asks
<1>3. Attended'
  BY <1>0, <1>1 DEF Attended, Issues, Asks
<1>4. Held'
  <2> SUFFICES ASSUME cl'.key # 0, cl'.tok \notin hurt' PROVE Held'
    BY DEF Held
  <2>1. cl.key = cl'.key /\ cl.tok = cl'.tok /\ cl.tok \notin hurt
    OBVIOUS
  <2>2. CASE cl.at = s
    <3>1. h[s].pc \notin {"renewing", "renewed"}
      BY <1>0, <2>1, <2>2 DEF Attended, Asks
    <3> QED  BY <1>0, <1>1, <2>1, <2>2, <3>1 DEF Held, NextKey
  <2>3. CASE cl.at # s
    BY <1>0, <1>1, <2>1, <2>3 DEF Held, NextKey
  <2> QED  BY <2>2, <2>3
<1>5. KeyAgreed'
  BY <1>0, <1>1 DEF KeyAgreed
<1>6. DeniedIsExpired'
  BY <1>0, <1>1 DEF DeniedIsExpired
<1> QED  BY <1>2, <1>3, <1>4, <1>5, <1>6 DEF KeyInv

(* The clock, and a connection that is lost.                               *)
LEMMA KeyOutside ==
    ASSUME FaiInv, KeyInv, Tick \/ Drop
    PROVE  KeyInv'
<1>0. /\ Once /\ Attended /\ Held /\ KeyAgreed /\ DeniedIsExpired
      /\ now \in Nat /\ issued \in [Tokens -> [at : Nat, exp : Nat]]
      /\ cl \in Clients /\ HasToken
  BY DEF KeyInv, FaiInv, Typed
<1>1. CASE Tick
  <2>1. now' = now + 1 /\ UNCHANGED <<file, keys, issued, h, cl, hurt>>
    BY <1>1 DEF Tick
  <2>2. \A t \in Tokens : now >= issued[t].exp => now' >= issued'[t].exp
    BY <1>0, <2>1, SMTT(30)
  <2>3. Once' /\ Attended' /\ KeyAgreed'
    BY <1>0, <2>1 DEF Once, Attended, KeyAgreed
  <2>4. Held'
    BY <1>0, <2>1, <2>2 DEF Held, NextKey, HasToken
  <2>5. DeniedIsExpired'
    BY <1>0, <2>1, <2>2 DEF DeniedIsExpired, HasToken
  <2> QED  BY <2>3, <2>4, <2>5 DEF KeyInv
<1>2. CASE Drop
  <2> DEFINE s == cl.at
  <2>1. /\ cl' = Conn(cl, NoProc, 0) /\ UNCHANGED <<now, issued, file, keys, h>>
        /\ s \in Sessions /\ NoProc \notin Sessions
        /\ hurt' = IF h[s].pc \in Asks THEN hurt \cup {h[s].tok} ELSE hurt
    BY <1>0, <1>2, FaiAssumption DEF Drop, Conn, Cut, Asks, Clients
  <2>2. /\ cl'.at = NoProc /\ cl'.tok = cl.tok /\ cl'.key = cl.key
    <3>1. NoProc \in Sessions \cup {NoProc} /\ 0 \in Nat
      OBVIOUS
    <3> QED  BY <1>0, <2>1, <3>1, ConnType
  <2>3. hurt \subseteq hurt' /\ (h[s].pc \in Asks => h[s].tok \in hurt')
    BY <2>1, SMTT(30)
  <2> HIDE DEF s
  <2>4. Once'
    BY <1>0, <2>1, <2>2, SMTT(30) DEF Once
  <2>5. Attended'
    BY <1>0, <2>1, <2>2, <2>3, SMTT(30) DEF Attended, s
  <2>6. Held'
    BY <1>0, <2>1, <2>2, <2>3, SMTT(30) DEF Held, NextKey, Attended, s, Asks
  <2>7. KeyAgreed' /\ DeniedIsExpired'
    BY <1>0, <2>1, <2>2, <2>3 DEF KeyAgreed, DeniedIsExpired
  <2> QED  BY <2>4, <2>5, <2>6, <2>7 DEF KeyInv
<1> QED  BY <1>1, <1>2

(* FAITOK: the token is new to everyone.                                   *)
LEMMA KeyFaiTok ==
    ASSUME FaiInv, KeyInv, NEW s \in Sessions, NEW t \in Tokens,
           NEW arg \in Args, FaiTok(s, t, arg)
    PROVE  KeyInv'
<1>0. /\ Once /\ Attended /\ Held /\ KeyAgreed /\ DeniedIsExpired
      /\ Typed /\ HasToken
  BY DEF KeyInv, FaiInv
<1> DEFINE r == Issuing(t, Expiry(arg), keys + 1)
           i == [at |-> now, exp |-> Expiry(arg)]
<1>1. /\ h' = [h EXCEPT ![s] = r] /\ issued' = [issued EXCEPT ![t] = i]
      /\ cl' = Conn(cl, s, 0) /\ UNCHANGED <<now, file, hurt>>
      /\ h[s].pc = "idle" /\ issued[t].exp = 0 /\ cl.at = NoProc /\ cl.key = 0
  BY DEF FaiTok, Conn, Issuing
<1>2. Expiry(arg) \in Nat /\ Expiry(arg) > 0 /\ keys + 1 \in Nat
  BY <1>0, ExpiryBounds DEF Typed
<1>3. r.pc = "issue" /\ r.tok = t /\ r.key = 0 /\ i.exp > 0
  BY <1>2, IssuingType
<1> HIDE DEF r, i
<1>4. /\ h'[s] = r /\ issued'[t] = i
      /\ \A q \in Sessions \ {s} : h'[q] = h[q]
      /\ \A u \in Tokens \ {t} : issued'[u] = issued[u]
  BY <1>0, <1>1 DEF Typed
<1>5. /\ cl'.at = s /\ cl'.key = 0
  <2>1. s \in Sessions \cup {NoProc} /\ 0 \in Nat /\ cl \in Clients
    BY <1>0 DEF Typed
  <2> QED  BY <1>1, <2>1, ConnType
<1>6. NoProc \notin Sessions
  BY FaiAssumption, SMTT(30)
<1>7. ASSUME NEW q \in Sessions \ {s}, h[q].pc # "idle"
      PROVE  h[q].tok # t /\ h[q].tok \in Tokens /\ issued'[h[q].tok] = issued[h[q].tok]
  BY <1>0, <1>1, <1>4, <1>7, SMTT(30) DEF Once, HasToken
<1>8. Once'
  <2>1. ASSUME NEW q \in Sessions, h'[q].pc # "idle"
        PROVE  issued'[h'[q].tok].exp > 0
    BY <1>0, <1>3, <1>4, <1>7, <2>1, SMTT(30) DEF Once
  <2>2. ASSUME NEW q \in Sessions, h'[q].pc \in Issues
        PROVE  /\ h'[q].key = 0
               /\ \A p \in Sessions \ {q} :
                     h'[p].pc \in Issues \cup Asks => h'[p].tok # h'[q].tok
               /\ h'[q].pc = "issued" => /\ Written(file'[h'[q].tok])
                                        /\ file'[h'[q].tok].key = h'[q].new
    <3>1. CASE q = s
      BY <1>3, <1>4, <1>7, <3>1, SMTT(30) DEF Issues, Asks
    <3>2. CASE q # s
      BY <1>0, <1>1, <1>3, <1>4, <1>7, <2>2, <3>2, SMTT(30) DEF Once, Issues, Asks
    <3> QED  BY <3>1, <3>2
  <2> QED  BY <1>5, <2>1, <2>2, SMTT(30) DEF Once
<1>9. Attended'
  BY <1>0, <1>1, <1>3, <1>4, <1>5, <1>6 DEF Attended, Issues, Asks
<1>10. Held'
  BY <1>5 DEF Held
<1>11. KeyAgreed'
  BY <1>3, <1>4, <1>5 DEF KeyAgreed
<1>12. DeniedIsExpired'
  BY <1>0, <1>1, <1>3, <1>4, <1>7 DEF DeniedIsExpired
<1> QED  BY <1>8, <1>9, <1>10, <1>11, <1>12 DEF KeyInv

(* savefai(): no other session and no client has the token that is saved.  *)
LEMMA KeySave ==
    ASSUME FaiInv, KeyInv, NEW s \in Sessions, SaveOpen(s) \/ SaveClose(s)
    PROVE  KeyInv'
<1>0. /\ Once /\ Attended /\ Held /\ KeyAgreed /\ DeniedIsExpired
      /\ Typed /\ HasToken /\ TimeKept
  BY DEF KeyInv, FaiInv
<1>1. PICK p \in {"issuing", "issued"}, f \in [exp : Nat, key : Nat] :
         /\ h' = [h EXCEPT ![s].pc = p] /\ file' = [file EXCEPT ![h[s].tok] = f]
         /\ p = "issued" => f.exp > 0 /\ f.key = h[s].new
  <2>1. CASE SaveOpen(s)
    <3>1. Empty \in [exp : Nat, key : Nat]
      BY DEF Empty
    <3>2. /\ h' = [h EXCEPT ![s].pc = "issuing"]
          /\ file' = [file EXCEPT ![h[s].tok] = Empty]
      BY <2>1 DEF SaveOpen
    <3> QED  BY <3>1, <3>2, Zenon
  <2>2. CASE SaveClose(s)
    <3> DEFINE f == [exp |-> h[s].exp, key |-> h[s].new]
    <3>1. f \in [exp : Nat, key : Nat] /\ f.exp = h[s].exp /\ f.key = h[s].new
      BY <1>0 DEF Typed, Sess
    <3>2. h[s].exp > 0
      BY <1>0, <2>2 DEF SaveClose, TimeKept
    <3> QED  BY <2>2, <3>1, <3>2, Zenon DEF SaveClose
  <2> QED  BY <2>1, <2>2
<1>2. h[s].pc \in {"issue", "issuing"} /\ UNCHANGED <<now, issued, keys, cl, hurt>>
  BY DEF SaveOpen, SaveClose
<1>3. /\ h'[s].pc = p /\ h'[s].tok = h[s].tok /\ h'[s].key = h[s].key
      /\ h'[s].new = h[s].new /\ \A r \in Sessions \ {s} : h'[r] = h[r]
  <2>1. p \in Places
    BY DEF Places
  <2> QED  BY <1>0, <1>1, <2>1, Moves, Zenon
<1>4. /\ h[s].tok \in Tokens /\ file'[h[s].tok] = f
      /\ \A t \in Tokens \ {h[s].tok} : file'[t] = file[t]
  BY <1>0, <1>1, <1>2 DEF HasToken, Typed
<1>5. p = "issued" => Written(f)
  BY <1>1, FaiAssumption DEF Written, Empty
<1>6. \A r \in Sessions \ {s} : h[r].pc \in Issues \cup Asks => h[r].tok # h[s].tok
  BY <1>0, <1>2, SMTT(30) DEF Once, Issues
<1>7. Once'
  <2>1. ASSUME NEW q \in Sessions, h'[q].pc \in Issues
        PROVE  /\ h'[q].key = 0
               /\ cl'.key # 0 => h'[q].tok # cl'.tok
               /\ \A r \in Sessions \ {q} :
                     h'[r].pc \in Issues \cup Asks => h'[r].tok # h'[q].tok
               /\ h'[q].pc = "issued" => /\ Written(file'[h'[q].tok])
                                        /\ file'[h'[q].tok].key = h'[q].new
    <3>1. CASE q = s
      BY <1>0, <1>1, <1>2, <1>3, <1>4, <1>5, <1>6, <3>1, SMTT(30) DEF Once, Issues, Asks
    <3>2. CASE q # s
      <4>1. /\ h'[q] = h[q] /\ h[q].pc \in Issues /\ h[q].tok # h[s].tok
            /\ h[q].tok \in Tokens
        BY <1>0, <1>3, <1>6, <2>1, <3>2 DEF HasToken, Issues
      <4>2. file'[h[q].tok] = file[h[q].tok]
        BY <1>4, <4>1
      <4> QED  BY <1>0, <1>2, <1>3, <4>1, <4>2, SMTT(30) DEF Once, Issues, Asks
    <3> QED  BY <3>1, <3>2
  <2> QED  BY <1>0, <1>2, <1>3, <2>1, SMTT(30) DEF Once
<1>8. Attended'
  BY <1>0, <1>1, <1>2, <1>3, SMTT(30) DEF Attended, Issues, Asks
<1>9. Held'
  <2>1. cl.key # 0 => cl.tok \in Tokens /\ cl.tok # h[s].tok
    BY <1>0, <1>2 DEF Once, HasToken, Issues
  <2>2. cl.key # 0 => file'[cl.tok] = file[cl.tok]
    BY <1>4, <2>1, SMTT(30)
  <2>3. cl.key # 0 => cl.at # s
    BY <1>0, <1>2 DEF Attended, Issues
  <2> QED  BY <1>0, <1>2, <1>3, <2>2, <2>3, SMTT(30) DEF Held, NextKey
<1>10. KeyAgreed'
  BY <1>0, <1>1, <1>2, <1>3 DEF KeyAgreed
<1>11. DeniedIsExpired'
  BY <1>0, <1>1, <1>2, <1>3 DEF DeniedIsExpired
<1> QED  BY <1>7, <1>8, <1>9, <1>10, <1>11 DEF KeyInv

(* The replies, of FAITOK and of renewfaikey(): the client has the key of  *)
(* the file.                                                               *)
LEMMA KeyReply ==
    ASSUME FaiInv, KeyInv, NEW s \in Sessions, SaveReply(s) \/ RenewSend(s)
    PROVE  KeyInv'
<1>0. /\ Once /\ Attended /\ Held /\ KeyAgreed /\ DeniedIsExpired
      /\ Typed /\ HasToken /\ TimeKept
  BY DEF KeyInv, FaiInv
<1>1. /\ h' = [h EXCEPT ![s].pc = "in"] /\ h[s].pc \in {"issued", "renewed"}
      /\ UNCHANGED <<now, issued, file, keys, hurt>> /\ (cl.at # s => cl' = cl)
  BY SMTT(30) DEF SaveReply, RenewSend
<1>2. /\ h'[s].pc = "in" /\ h'[s].tok = h[s].tok /\ h'[s].key = h[s].key
      /\ h'[s].new = h[s].new /\ \A r \in Sessions \ {s} : h'[r] = h[r]
  BY <1>0, <1>1, Moves, Zenon DEF Places
<1>3. /\ h[s].tok \in Tokens /\ h[s].new \in Nat /\ cl \in Clients
  BY <1>0, <1>1 DEF HasToken, Typed, Sess
<1>4. cl.at = s => /\ cl'.at = s /\ cl'.key = h[s].new /\ cl'.use = cl.use
                   /\ cl'.tok = h[s].tok
  <2> SUFFICES ASSUME cl.at = s
               PROVE  /\ cl'.at = s /\ cl'.key = h[s].new /\ cl'.use = cl.use
                      /\ cl'.tok = h[s].tok
    OBVIOUS
  <2>1. CASE SaveReply(s)
    <3>1. cl' = Given(cl, h[s].tok, h[s].new)
      BY <2>1 DEF SaveReply, Given
    <3> QED  BY <1>3, <3>1, GivenType
  <2>2. CASE RenewSend(s)
    <3>1. cl' = Keyed(cl, h[s].new) /\ h[s].pc = "renewed"
      BY <2>2 DEF RenewSend, Keyed
    <3>2. cl.tok = h[s].tok
      BY <1>0, <3>1 DEF Attended, Asks
    <3> QED  BY <1>3, <3>1, <3>2, KeyedType, SMTT(30)
  <2> QED  BY <2>1, <2>2
<1>5. \A r \in Sessions \ {s} : h[r].pc \in Issues => h[r].tok # h[s].tok
  BY <1>0, <1>1 DEF Once, Issues, Asks
<1>6. issued[h[s].tok].exp > 0
  BY <1>0, <1>1 DEF Once
<1>7. Once'
  BY <1>0, <1>1, <1>2, <1>4, <1>5, <1>6 DEF Once, Issues, Asks
<1>8. Attended'
  BY <1>0, <1>1, <1>2, <1>4 DEF Attended, Issues, Asks
<1>9. Held'
  <2>1. CASE cl.at # s
    BY <1>0, <1>1, <1>2, <2>1 DEF Held, NextKey
  <2>2. CASE cl.at = s
    <3> SUFFICES ASSUME h[s].tok \notin hurt
                 PROVE  \/ /\ Written(file[h[s].tok])
                           /\ file[h[s].tok].key = h[s].new
                        \/ /\ file[h[s].tok] = NoFile
                           /\ now >= issued[h[s].tok].exp
      BY <1>1, <1>2, <1>4, <2>2, SMTT(30) DEF Held, NextKey
    <3>1. CASE h[s].pc = "issued"
      BY <1>0, <3>1, SMTT(30) DEF Once, Issues
    <3>2. CASE h[s].pc = "renewed"
      BY <1>0, <2>2, <3>2 DEF Held, NextKey, Attended, Asks
    <3> QED  BY <1>1, <3>1, <3>2
  <2> QED  BY <2>1, <2>2
<1>10. KeyAgreed'
  BY <1>0, <1>1, <1>2, <1>4 DEF KeyAgreed, Once, Issues
<1>11. DeniedIsExpired'
  BY <1>0, <1>1, <1>2 DEF DeniedIsExpired
<1> QED  BY <1>7, <1>8, <1>9, <1>10, <1>11 DEF KeyInv

(* A connection with the client's token, which no session is issuing.      *)
LEMMA KeyConnect ==
    ASSUME FaiInv, KeyInv, NEW s \in Sessions, Connect(s)
    PROVE  KeyInv'
<1>0. /\ Once /\ Attended /\ Held /\ KeyAgreed /\ DeniedIsExpired
      /\ Typed /\ HasToken
  BY DEF KeyInv, FaiInv
<1>1. /\ h' = [h EXCEPT ![s] = Asking(cl.tok)] /\ cl' = Conn(cl, s, cl.key)
      /\ UNCHANGED <<now, issued, file, keys, hurt>>
      /\ cl.at = NoProc /\ cl.key # 0 /\ h[s].pc = "idle"
  BY DEF Connect, Asking, Conn
<1>2. /\ cl.tok \in Tokens /\ cl.key \in Nat /\ cl \in Clients
      /\ NoProc \notin Sessions
  BY <1>0, <1>1, FaiAssumption DEF HasToken, Typed, Clients
<1>3. /\ cl'.at = s /\ cl'.tok = cl.tok /\ cl'.key = cl.key /\ cl'.use = cl.key
  <2>1. s \in Sessions \cup {NoProc}
    OBVIOUS
  <2> QED  BY <1>1, <1>2, <2>1, ConnType, SMTT(30)
<1>4. h'[s].pc = "check" /\ h'[s].tok = cl.tok
      /\ \A r \in Sessions \ {s} : h'[r] = h[r]
  BY <1>0, <1>1, <1>2, AskingType, SMTT(30) DEF Typed
<1>5. Once'
  BY <1>0, <1>1, <1>3, <1>4, SMTT(30) DEF Once, Issues, Asks
<1>6. Attended'
  BY <1>0, <1>1, <1>2, <1>3, <1>4, SMTT(30) DEF Attended, Issues, Asks
<1>7. Held'
  BY <1>0, <1>1, <1>2, <1>3, <1>4 DEF Held, NextKey
<1>8. KeyAgreed'
  BY <1>3, <1>4, SMTT(30) DEF KeyAgreed
<1>9. DeniedIsExpired'
  BY <1>0, <1>1, <1>4 DEF DeniedIsExpired
<1> QED  BY <1>5, <1>6, <1>7, <1>8, <1>9 DEF KeyInv

(* chkfaitok(): a token that is not hurt has a file that is complete and   *)
(* has the client's key, or has expired.                                   *)
LEMMA KeyCheck ==
    ASSUME FaiInv, KeyInv, NEW s \in Sessions, ChkFaiTok(s)
    PROVE  KeyInv'
<1>0. /\ Once /\ Attended /\ Held /\ KeyAgreed /\ DeniedIsExpired
      /\ Typed /\ HasToken /\ TimeKept
  BY SMTT(30) DEF KeyInv, FaiInv
<1> DEFINE t == h[s].tok
           f == file[t]
<1>1. /\ h[s].pc = "check" /\ UNCHANGED <<now, issued, keys, cl, hurt>>
      /\ t \in Tokens
  BY <1>0, SMTT(30) DEF ChkFaiTok, HasToken
<1>2. t \notin hurt =>
         /\ cl.at = s /\ cl.key # 0 /\ cl.tok = t /\ cl.use = cl.key
         /\ \/ Written(f) /\ f.key = cl.key
            \/ f = NoFile /\ now >= issued[t].exp
  BY <1>0, <1>1, SMTT(30) DEF Attended, Held, NextKey, Asks
<1>3. \A r \in Sessions \ {s} : h[r].pc \in Issues => h[r].tok # t
  BY <1>0, <1>1, SMTT(30) DEF Once, Asks
<1>4. CASE f \in {NoFile, Empty} \/ now >= f.exp
  <2>1. /\ h' = [h EXCEPT ![s].pc = "denied"]
        /\ file' = file \/ (file' = [file EXCEPT ![t] = NoFile] /\ now >= f.exp
                            /\ Written(f))
    <3>1. now \in Nat /\ (f \notin {NoFile, Empty} => f.exp \in Nat)
      BY <1>0, <1>1, SMTT(30) DEF Typed
    <3> QED  BY <1>4, <3>1 DEF ChkFaiTok, Written
  <2>2. /\ h'[s].pc = "denied" /\ h'[s].tok = t
        /\ \A r \in Sessions \ {s} : h'[r] = h[r]
    BY <1>0, <2>1, Moves, Zenon DEF Places
  <2>3. \A u \in Tokens : u # t => file'[u] = file[u]
    BY <1>0, <2>1 DEF Typed
  <2>4. file'[t] = f \/ (file'[t] = NoFile /\ now >= issued[t].exp)
    BY <1>0, <1>1, <2>1, SMTT(30) DEF Typed, TimeKept, Written
  <2> HIDE DEF t, f
  <2>5. Once'
    <3>1. ASSUME NEW q \in Sessions, h'[q].pc = "issued"
          PROVE  Written(file'[h'[q].tok]) /\ file'[h'[q].tok].key = h'[q].new
      <4>1. h'[q] = h[q] /\ h[q].tok # t /\ h[q].tok \in Tokens
        BY <1>0, <1>3, <2>2, <3>1 DEF HasToken, Issues
      <4> QED  BY <1>0, <2>3, <3>1, <4>1, SMTT(30) DEF Once, Issues
    <3> QED  BY <1>0, <1>1, <2>2, <3>1, SMTT(30) DEF Once, Issues, Asks, t
  <2>6. Attended'
    BY <1>0, <1>1, <2>2, SMTT(30) DEF Attended, Issues, Asks
  <2>7. Held'
    <3>1. CASE cl.key # 0 /\ cl.tok = t
      BY <1>0, <1>1, <1>2, <2>2, <2>4, <3>1, SMTT(30) DEF Held, NextKey, f
    <3>2. CASE cl.key # 0 /\ cl.tok # t
      <4>1. cl.tok \in Tokens /\ file'[cl.tok] = file[cl.tok]
        BY <1>0, <2>3, <3>2 DEF HasToken
      <4>2. cl.at # s
        BY <1>0, <1>1, <3>2 DEF Attended, Asks, t
      <4> QED  BY <1>0, <1>1, <2>2, <3>2, <4>1, <4>2 DEF Held, NextKey
    <3> QED  BY <1>1, <3>1, <3>2, SMTT(30) DEF Held
  <2>8. KeyAgreed'
    BY <1>0, <1>1, <2>2, SMTT(30) DEF KeyAgreed
  <2>9. DeniedIsExpired'
    <3>1. t \notin hurt => now >= issued[t].exp
      BY <1>0, <1>1, <1>2, <1>4, SMTT(30) DEF TimeKept, Written, f
    <3> QED  BY <1>0, <1>1, <2>2, <3>1 DEF DeniedIsExpired
  <2> QED  BY <2>5, <2>6, <2>7, <2>8, <2>9 DEF KeyInv
<1>5. CASE f \notin {NoFile, Empty} /\ now < f.exp
  <2>1. /\ h' = [h EXCEPT ![s].pc = "renew", ![s].exp = f.exp, ![s].key = f.key]
        /\ file' = file
    <3>1. now \in Nat /\ f.exp \in Nat
      BY <1>0, <1>1, <1>5 DEF Typed
    <3> QED  BY <1>5, <3>1 DEF ChkFaiTok
  <2>2. /\ h'[s].pc = "renew" /\ h'[s].tok = t /\ h'[s].key = f.key
        /\ \A r \in Sessions \ {s} : h'[r] = h[r]
    <3> DEFINE g == h[s]
               q == [g EXCEPT !.pc = "renew", !.exp = f.exp, !.key = f.key]
    <3>1. g \in Sess /\ h \in [Sessions -> Sess]
      BY <1>0 DEF Typed
    <3>2. h' = [h EXCEPT ![s] = q]
      BY <2>1, Zenon
    <3>4. g.tok = t
      BY DEF g
    <3> HIDE DEF g, f, t
    <3>3. q.pc = "renew" /\ q.tok = g.tok /\ q.key = f.key
      BY <3>1 DEF Sess
    <3> HIDE DEF q
    <3> QED  BY <3>1, <3>2, <3>3, <3>4
  <2> HIDE DEF t, f
  <2>5. Once'
    <3>1. ASSUME NEW q \in Sessions, h'[q].pc \in Issues
          PROVE  /\ q # s /\ h'[q] = h[q] /\ h[q].pc \in Issues
                 /\ \A r \in Sessions \ {q} :
                       h'[r].pc \in Issues \cup Asks => h'[r].tok # h'[q].tok
      BY <1>0, <1>1, <2>2, <3>1 DEF Once, Issues, Asks, t
    <3>2. \A q \in Sessions : h'[q].pc # "idle" => issued'[h'[q].tok].exp > 0
      BY <1>0, <1>1, <2>2 DEF Once, t
    <3>3. cl.key # 0 => issued[cl.tok].exp > 0
      BY <1>0 DEF Once
    <3>4. UNCHANGED <<cl, issued, file>>
      BY <1>1, <2>1, Zenon
    <3>5. ASSUME NEW q \in Sessions, h[q].pc \in Issues
          PROVE  /\ h[q].key = 0
                 /\ cl.key # 0 => h[q].tok # cl.tok
                 /\ h[q].pc = "issued" => /\ Written(file[h[q].tok])
                                          /\ file[h[q].tok].key = h[q].new
      BY <1>0, <3>5, Zenon DEF Once
    <3>6. ASSUME NEW q \in Sessions, h'[q].pc \in Issues
          PROVE  /\ h'[q].key = 0
                 /\ cl'.key # 0 => h'[q].tok # cl'.tok
                 /\ h'[q].pc = "issued" => /\ Written(file'[h'[q].tok])
                                           /\ file'[h'[q].tok].key = h'[q].new
      BY <3>1, <3>4, <3>5, <3>6
    <3> QED  BY <3>1, <3>2, <3>3, <3>4, <3>6, Zenon DEF Once
  <2>6. Attended'
    BY <1>0, <1>1, <2>2 DEF Attended, Issues, Asks, t
  <2>7. Held'
    <3>1. /\ NextKey' = NextKey
          /\ cl.at \in Sessions /\ h'[cl.at].pc = "renewing"
                <=> cl.at \in Sessions /\ h[cl.at].pc = "renewing"
      BY <1>1, <2>2 DEF NextKey
    <3> QED  BY <1>0, <1>1, <2>1, <3>1 DEF Held
  <2>8. KeyAgreed'
    BY <1>0, <1>1, <1>2, <1>5, <2>2 DEF KeyAgreed
  <2>9. DeniedIsExpired'
    BY <1>0, <1>1, <2>2 DEF DeniedIsExpired
  <2> QED  BY <2>5, <2>6, <2>7, <2>8, <2>9 DEF KeyInv
<1>6. f \in {NoFile, Empty} \/ now >= f.exp \/ now < f.exp
  <2>1. now \in Nat /\ (f \notin {NoFile, Empty} => f.exp \in Nat)
    BY <1>0, <1>1 DEF Typed
  <2> QED  BY <2>1
<1> QED  BY <1>4, <1>5, <1>6

(* renewfaikey() up to the reply: only this session changes the file of a  *)
(* token that is not hurt.                                                 *)
LEMMA KeyRenew ==
    ASSUME FaiInv, KeyInv, NEW s \in Sessions, RenewOpen(s) \/ RenewClose(s)
    PROVE  KeyInv'
<1>0. /\ Once /\ Attended /\ Held /\ KeyAgreed /\ DeniedIsExpired
      /\ Typed /\ HasToken /\ TimeKept
  BY DEF KeyInv, FaiInv
<1> DEFINE t == h[s].tok
<1>1. /\ h[s].pc \in {"renew", "renewing"}
      /\ UNCHANGED <<now, issued, cl, hurt>> /\ t \in Tokens
  BY <1>0, SMTT(30) DEF RenewOpen, RenewClose, HasToken
<1>2. PICK p \in {"renewing", "renewed"}, f \in [exp : Nat, key : Nat] :
         /\ h'[s].pc = p /\ h'[s].tok = t /\ h'[s].key = h[s].key
         /\ \A r \in Sessions \ {s} : h'[r] = h[r]
         /\ file' = [file EXCEPT ![t] = f]
         /\ p = "renewed" => f.exp > 0 /\ f.key = h'[s].new
  <2>1. CASE RenewOpen(s)
    <3>1. Empty \in [exp : Nat, key : Nat]
      BY DEF Empty
    <3>2. /\ h' = [h EXCEPT ![s].pc = "renewing"]
          /\ file' = [file EXCEPT ![t] = Empty]
      BY <2>1 DEF RenewOpen
    <3>3. /\ h'[s].pc = "renewing" /\ h'[s].tok = t /\ h'[s].key = h[s].key
          /\ \A r \in Sessions \ {s} : h'[r] = h[r]
      BY <1>0, <3>2, Moves, Zenon DEF Places
    <3> QED  BY <3>1, <3>2, <3>3, Zenon
  <2>2. CASE RenewClose(s)
    <3> DEFINE f == [exp |-> h[s].exp, key |-> keys + 1]
    <3>1. f \in [exp : Nat, key : Nat] /\ f.exp = h[s].exp /\ f.key = keys + 1
      BY <1>0 DEF Typed, Sess
    <3>2. h[s].exp > 0
      BY <1>0, <2>2 DEF RenewClose, TimeKept
    <3>3. /\ file' = [file EXCEPT ![t] = f]
          /\ h' = [h EXCEPT ![s].pc = "renewed", ![s].new = keys + 1]
      BY <2>2 DEF RenewClose
    <3> HIDE DEF f
    <3> DEFINE g == [h EXCEPT ![s].pc = "renewed"]
    <3>4. /\ g \in [Sessions -> Sess] /\ g[s].pc = "renewed"
          /\ g[s].tok = h[s].tok /\ g[s].key = h[s].key
          /\ \A r \in Sessions \ {s} : g[r] = h[r]
      BY <1>0, SMTT(30) DEF Typed, Sess, Places
    <3>5. h' = [g EXCEPT ![s].new = keys + 1]
      BY <3>3
    <3> HIDE DEF g
    <3>6. /\ h'[s].pc = "renewed" /\ h'[s].tok = t /\ h'[s].key = h[s].key
          /\ h'[s].new = keys + 1 /\ \A r \in Sessions \ {s} : h'[r] = h[r]
      BY <3>4, <3>5 DEF Sess
    <3> QED  BY <3>1, <3>2, <3>3, <3>6, Zenon
  <2> QED  BY <2>1, <2>2
<1>3. p = "renewed" => Written(f)
  BY <1>2, FaiAssumption DEF Written, Empty
<1>4. file'[t] = f /\ \A u \in Tokens \ {t} : file'[u] = file[u]
  BY <1>0, <1>1, <1>2 DEF Typed
<1>5. \A r \in Sessions \ {s} : h[r].pc \in Issues => h[r].tok # t
  BY <1>0, <1>1, SMTT(30) DEF Once, Asks
<1>6. t \notin hurt => cl.at = s /\ cl.tok = t
  BY <1>0, <1>1 DEF Attended, Asks
<1>7. cl.at = s => cl.tok = t
  BY <1>0, <1>1, SMTT(30) DEF Attended, Asks
<1> HIDE DEF t
<1>8. Once'
  <2>1. ASSUME NEW q \in Sessions, h'[q].pc = "issued"
        PROVE  Written(file'[h'[q].tok]) /\ file'[h'[q].tok].key = h'[q].new
    <3>1. h'[q] = h[q] /\ h[q].tok # t /\ h[q].tok \in Tokens
      BY <1>0, <1>2, <1>5, <2>1, SMTT(30) DEF HasToken, Issues
    <3> QED  BY <1>0, <1>4, <2>1, <3>1, SMTT(30) DEF Once, Issues
  <2> QED  BY <1>0, <1>1, <1>2, <2>1, SMTT(30) DEF Once, Issues, Asks, t
<1>9. Attended'
  BY <1>0, <1>1, <1>2, SMTT(30) DEF Attended, Issues, Asks, t
<1>10. Held'
  <2>1. CASE cl.key # 0 /\ cl.tok = t
    BY <1>1, <1>2, <1>3, <1>4, <1>6, <2>1, SMTT(30) DEF Held, NextKey
  <2>2. CASE cl.key # 0 /\ cl.tok # t
    <3>1. file'[cl.tok] = file[cl.tok] /\ cl.at # s
      BY <1>0, <1>4, <1>7, <2>2, SMTT(30) DEF HasToken
    <3> QED  BY <1>0, <1>1, <1>2, <2>2, <3>1, SMTT(30) DEF Held, NextKey
  <2> QED  BY <1>1, <2>1, <2>2, SMTT(30) DEF Held
<1>11. KeyAgreed'
  BY <1>0, <1>1, <1>2, SMTT(30) DEF KeyAgreed, t
<1>12. DeniedIsExpired'
  BY <1>0, <1>1, <1>2 DEF DeniedIsExpired
<1> QED  BY <1>8, <1>9, <1>10, <1>11, <1>12 DEF KeyInv

(* Every step keeps the invariant.                                         *)
LEMMA KeyStep == FaiInv /\ KeyInv /\ [Next]_vars => KeyInv'
<1> SUFFICES ASSUME FaiInv, KeyInv, [Next]_vars PROVE KeyInv'
  OBVIOUS
<1>1. ASSUME NEW s \in Sessions, Denied(s) \/ Quit(s) \/ Kill(s) PROVE KeyInv'
  <2>0. cl \in Clients
    BY DEF FaiInv, Typed
  <2> DEFINE e == [at |-> NoProc, tok |-> NoToken, key |-> 0, use |-> 0]
  <2>1. /\ h' = [h EXCEPT ![s] = Gone] /\ UNCHANGED <<now, issued, file>>
        /\ hurt \subseteq hurt' /\ (cl.at # s => cl' = cl)
        /\ h[s].pc \in {"renewing", "renewed"} => h[s].tok \in hurt'
    BY <1>1 DEF Denied, Quit, Kill, Cut
  <2>2. ASSUME cl.at = s
        PROVE  cl'.at = NoProc /\ (cl'.key # 0 =>
                                     cl'.key = cl.key /\ cl'.tok = cl.tok)
    <3>1. cl' = e \/ cl' = Conn(cl, NoProc, 0)
      BY <1>1, <2>2 DEF Denied, Quit, Kill, Conn
    <3>2. e.at = NoProc /\ e.key = 0
      BY SMTT(30)
    <3> HIDE DEF e
    <3> QED  BY <2>0, <3>1, <3>2, HungUp
  <2> QED  BY <2>1, <2>2, KeyEnds, Zenon
<1>2. CASE UNCHANGED vars
  BY <1>2 DEF vars, KeyInv, Once, Attended, Held, NextKey, KeyAgreed,
              DeniedIsExpired
<1> QED
  BY <1>1, <1>2, KeyOutside, KeyFaiTok, KeySave, KeyReply, KeyConnect,
     KeyCheck, KeyRenew DEF Next, Step

(* The client and its session encrypt with the same key, unless a renewal  *)
(* of the token was cut short: for any number of sessions and tokens.      *)
THEOREM SameKey == Spec => []KeyAgreed
<1>1. KeyInv => KeyAgreed
  BY DEF KeyInv
<1> QED  BY <1>1, FaiInit, FaiStep, KeyInit, KeyStep, PTL DEF Spec

(* chkfaitok() denies a token only when it has expired, unless a renewal   *)
(* of it was cut short.                                                    *)
THEOREM DeniedLate == Spec => []DeniedIsExpired
<1>1. KeyInv => DeniedIsExpired
  BY DEF KeyInv
<1> QED  BY <1>1, FaiInit, FaiStep, KeyInit, KeyStep, PTL DEF Spec
=============================================================================
