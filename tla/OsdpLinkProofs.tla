--------------------------- MODULE OsdpLinkProofs ---------------------------
(***************************************************************************)
(* Theorems about OsdpLink, for any keys, any length of the lines, and any *)
(* number of lost, garbled and late packets, restarts, events, commands    *)
(* and key changes: two active sessions are the same session, a panel that *)
(* enforces the secure channel is online only with it, no read is given    *)
(* twice, commands keep their order and are carried out once in a secure   *)
(* session, where the reads are a read feed and what the panel's           *)
(* application is told is so, and a line without faults keeps one address  *)
(* and one key and tells the truth.                                        *)
(*                                                                         *)
(* A session is named by the random number the panel has drawn for it.     *)
(* Packets arrive in order, so a reader that answered to that name has     *)
(* every older challenge behind it; the rest of the session's data it      *)
(* takes from no one but the panel.                                        *)
(***************************************************************************)
EXTENDS OsdpLink, FiniteSetTheorems, TLAPS

USE LinkAssumption

States == {"INIT", "CAPDET", "SC_CHLNG", "SC_SCRYPT", "SET_SCBK", "ONLINE", "OFFLINE"}
CpFields == {"st", "addr", "phy", "seq", "cmd", "data", "evreq", "retry", "rb",
             "sc", "useD", "key", "cpr", "pdr", "rmac"}
CmdIds == {"ID", "CAP", "POLL", "KEYSET", "CHLNG", "SCRYPT"} \cup PlainCmds
PdFields == {"addr", "seq", "sc", "useD", "install", "key", "skey", "cpr", "pdr", "rmac"}

-----------------------------------------------------------------------------
(* The inductive invariant                                                 *)

\* A panel has no session before the handshake is through.
CpFine(c) ==
    /\ DOMAIN c = CpFields /\ c.st \in States /\ c.sc \in BOOLEAN
    /\ c.st \notin {"SET_SCBK", "ONLINE"} => ~c.sc

\* One that enforces it is not online without.
CpOk(c) == CpFine(c) /\ (Enforce /\ c.st = "ONLINE" => c.sc)

\* The command in hand while an answer is due.
InHand(c) ==
    c.phy # "idle" => /\ c.cmd = "CHLNG" <=> c.st = "SC_CHLNG"
                      /\ c.cmd = "SCRYPT" <=> c.st = "SC_SCRYPT"

IsSeq(s) == \E S : s \in Seq(S)

Commands ==
    /\ cmds \in Seq(PlainCmds) /\ IsSeq(cpq)
    /\ \A i \in 1..Len(cpq) : cpq[i].kind = "cmd" => cpq[i].val \in 1..Len(cmds)

\* The panel, its queue and the lines.
Frame ==
    /\ CpOk(cp) /\ cp.cmd \in CmdIds /\ InHand(cp)
    /\ IsSeq(toPd) /\ IsSeq(toCp) /\ cp.rb \in 0..Len(toCp)
    /\ \A i \in 1..Len(toPd) : toPd[i] = Garbled \/ toPd[i].id \in CmdIds
    /\ Commands

Shapes == Frame /\ DOMAIN pd = PdFields

\* A challenge, its answer and what follows name a random number of the panel.
Named(line, ids) ==
    \A i \in 1..Len(line) :
        line[i].id \in ids => line[i].auth # <<>> /\ line[i].auth[2] \in Nonces
Names ==
    /\ Named(toPd, {"CHLNG", "SCRYPT"}) /\ Named(toCp, {"CCRYPT"})
    /\ pd.cpr \in Nonces \cup {0} /\ (pd.sc => pd.cpr # 0)

\* The session n of the panel, and whether the panel has joined it, with cryptogram k, as
\* the reader's state d and the lines out and in know of it.
Challenge(p, n) == p.id = "CHLNG" /\ p.auth[2] = n
Answered(in, n) == \E i \in 1..Len(in) : in[i].id = "CCRYPT" /\ in[i].auth[2] = n

NoOlder(out, n) == \A i \in 1..Len(out) : out[i].id = "CHLNG" => Challenge(out[i], n)
InOrder(out, n) ==
    \A i, j \in 1..Len(out) :
        i < j /\ Challenge(out[i], n) /\ out[j].id = "CHLNG" => Challenge(out[j], n)
OwnProof(out, n, joined, k) ==
    \A i \in 1..Len(out) :
        out[i].id = "SCRYPT" /\ out[i].auth[2] = n => joined /\ out[i].auth = k
SameSession(d, n, joined, k) == d.sc /\ d.cpr = n => joined /\ PdCrypt(d) = k

Handshake(joined, n, k, d, out, in) ==
    /\ InOrder(out, n)
    /\ d.cpr = n \/ Answered(in, n) \/ joined => NoOlder(out, n)
    /\ Answered(in, n) \/ joined => d.cpr \in {n, 0}
    /\ OwnProof(out, n, joined, k)
    /\ SameSession(d, n, joined, k)

Joined(c) == c.st = "SC_SCRYPT" \/ c.sc
InSession(c) == c.st = "SC_CHLNG" \/ Joined(c)

SessionInv ==
    /\ Shapes /\ Names
    /\ InSession(cp) =>
         /\ cp.cpr \in Nonces
         /\ Handshake(Joined(cp), cp.cpr, CpCrypt(cp), pd, toPd, toCp)

-----------------------------------------------------------------------------
(* Sequences                                                               *)

LEMMA Appended ==
    ASSUME NEW s, IsSeq(s), NEW e
    PROVE  /\ IsSeq(Append(s, e)) /\ Len(s) \in Nat /\ Len(Append(s, e)) = Len(s) + 1
           /\ \A i \in 1..Len(s) : Append(s, e)[i] = s[i]
           /\ Append(s, e)[Len(s) + 1] = e
  <1>1. PICK S : s \in Seq(S)
    BY DEF IsSeq
  <1>2. s \in Seq(S \cup {e})
    BY <1>1
  <1>3. Append(s, e) \in Seq(S \cup {e})
    BY <1>2
  <1> QED  BY <1>1, <1>2, <1>3 DEF IsSeq

LEMMA TailOf ==
    ASSUME NEW s, IsSeq(s), s # <<>>
    PROVE  /\ IsSeq(Tail(s)) /\ Len(s) \in Nat \ {0} /\ Len(Tail(s)) = Len(s) - 1
           /\ \A i \in 1..(Len(s) - 1) : Tail(s)[i] = s[i + 1]
           /\ Head(s) = s[1]
  <1>1. PICK S : s \in Seq(S)
    BY DEF IsSeq
  <1> QED  BY <1>1 DEF IsSeq

LEMMA Prefix ==
    ASSUME NEW s, IsSeq(s), NEW n \in 0..Len(s)
    PROVE  /\ IsSeq(SubSeq(s, 1, n)) /\ Len(SubSeq(s, 1, n)) = n
           /\ \A i \in 1..n : SubSeq(s, 1, n)[i] = s[i]
  <1>1. PICK S : s \in Seq(S)
    BY DEF IsSeq
  <1>2. n \in Nat /\ \A i \in 1..n : s[i] \in S
    BY <1>1
  <1> QED  BY <1>1, <1>2 DEF IsSeq

-----------------------------------------------------------------------------
(* A random number that nobody remembers                                   *)

LEMMA FiniteImage ==
    ASSUME NEW S, IsFiniteSet(S), NEW f, DOMAIN f = S,
           NEW T, \A y \in T : \E x \in S : y = f[x]
    PROVE  IsFiniteSet(T)
  <1> DEFINE R == {f[x] : x \in S}
             g == [x \in S |-> f[x]]
  <1>1. g \in Surjection(S, R)
    BY DEF Surjection
  <1>2. IsFiniteSet(R)
    BY <1>1, FS_Surjection
  <1> QED  BY <1>2, FS_Subset

LEMMA FiniteLine ==
    ASSUME NEW s, IsSeq(s)
    PROVE  IsFiniteSet(Range(s))
  <1>1. DOMAIN s = 1..Len(s) /\ Len(s) \in Nat
    BY DEF IsSeq
  <1>2. IsFiniteSet(1..Len(s))
    BY <1>1, FS_Interval
  <1> QED  BY <1>1, <1>2, FiniteImage DEF Range

LEMMA FreshIsFresh ==
    ASSUME IsSeq(toPd), IsSeq(toCp), ~IsFiniteSet(Nonces)
    PROVE  FreshNonce \in Nonces /\ FreshNonce \notin Remembered
  <1> DEFINE packets == Range(toPd) \cup Range(toCp)
             auths == {p.auth : p \in packets} \ {<<>>}
             seconds == {a[2] : a \in auths}
             thirds == {a[3] : a \in auths}
             held == {cp.cpr, cp.pdr, pd.cpr, pd.pdr}
  <1>1. IsFiniteSet(packets)
    BY FiniteLine, FS_Union
  <1>2. IsFiniteSet(auths)
    <2> DEFINE f == [p \in packets |-> p.auth]
    <2>1. DOMAIN f = packets /\ \A y \in auths : \E p \in packets : y = f[p]
      OBVIOUS
    <2> HIDE DEF f, packets, auths
    <2> QED  BY <1>1, <2>1, FiniteImage
  <1>3. Remembered = (held \cup seconds) \cup thirds
    BY DEF Remembered
  <1> HIDE DEF packets, auths
  <1>4. IsFiniteSet(seconds)
    <2> DEFINE f == [a \in auths |-> a[2]]
    <2>1. DOMAIN f = auths /\ \A y \in seconds : \E a \in auths : y = f[a]
      OBVIOUS
    <2> HIDE DEF f, seconds
    <2> QED  BY <1>2, <2>1, FiniteImage
  <1>5. IsFiniteSet(thirds)
    <2> DEFINE f == [a \in auths |-> a[3]]
    <2>1. DOMAIN f = auths /\ \A y \in thirds : \E a \in auths : y = f[a]
      OBVIOUS
    <2> HIDE DEF f, thirds
    <2> QED  BY <1>2, <2>1, FiniteImage
  <1>6. IsFiniteSet(held)
    <2>1. IsFiniteSet({cp.cpr}) /\ IsFiniteSet({cp.pdr}) /\ IsFiniteSet({pd.cpr})
          /\ IsFiniteSet({pd.pdr})
      BY FS_Singleton
    <2>2. IsFiniteSet({cp.cpr} \cup {cp.pdr}) /\ IsFiniteSet({pd.cpr} \cup {pd.pdr})
      BY <2>1, FS_Union
    <2>3. IsFiniteSet(({cp.cpr} \cup {cp.pdr}) \cup ({pd.cpr} \cup {pd.pdr}))
      BY <2>2, FS_Union
    <2>4. held \subseteq ({cp.cpr} \cup {cp.pdr}) \cup ({pd.cpr} \cup {pd.pdr})
      OBVIOUS
    <2> QED  BY <2>3, <2>4, FS_Subset
  <1> HIDE DEF held, seconds, thirds
  <1>7. IsFiniteSet(Remembered)
    BY <1>3, <1>4, <1>5, <1>6, FS_Union
  <1>8. ~(Nonces \subseteq Remembered)
    BY <1>7, FS_Subset
  <1> QED  BY <1>8 DEF FreshNonce

\* What it is not.
LEMMA FreshName ==
    ASSUME IsSeq(toPd), IsSeq(toCp), ~IsFiniteSet(Nonces), Names
    PROVE  /\ FreshNonce \in Nonces /\ FreshNonce # pd.cpr
           /\ \A i \in 1..Len(toPd) : toPd[i].id \in {"CHLNG", "SCRYPT"}
                                        => toPd[i].auth[2] # FreshNonce
           /\ \A i \in 1..Len(toCp) : toCp[i].id = "CCRYPT" => toCp[i].auth[2] # FreshNonce
  <1>1. /\ FreshNonce \in Nonces /\ FreshNonce \notin Remembered
    BY FreshIsFresh
  <1>2. FreshNonce # pd.cpr
    BY <1>1 DEF Remembered
  <1>3. ASSUME NEW p \in Range(toPd) \cup Range(toCp), p.auth # <<>>
        PROVE  p.auth[2] # FreshNonce
    BY <1>1, <1>3 DEF Remembered
  <1>4. /\ \A i \in 1..Len(toPd) : toPd[i] \in Range(toPd)
        /\ \A i \in 1..Len(toCp) : toCp[i] \in Range(toCp)
    BY DEF Range, IsSeq
  <1> QED  BY <1>1, <1>2, <1>3, <1>4 DEF Names, Named

-----------------------------------------------------------------------------

(* What a session knows of itself                                          *)

\* A session that has just been named: nobody knows of it.
LEMMA NewSession ==
    ASSUME NEW n, NEW k, NEW d, d.cpr # n, NEW out, NEW in,
           \A i \in 1..Len(out) : out[i].id \in {"CHLNG", "SCRYPT"} => out[i].auth[2] # n,
           \A i \in 1..Len(in) : in[i].id = "CCRYPT" => in[i].auth[2] # n
    PROVE  Handshake(FALSE, n, k, d, out, in)
  BY DEF Handshake, InOrder, NoOlder, Challenge, Answered, OwnProof, SameSession

\* The panel joins its session when the reader has answered.
LEMMA JoinSession ==
    ASSUME NEW n, NEW k, NEW k2, NEW d, NEW out, NEW in, Handshake(FALSE, n, k, d, out, in),
           Answered(in, n)
    PROVE  Handshake(TRUE, n, k2, d, out, in)
  BY DEF Handshake, OwnProof, SameSession

\* Before, its cryptogram does not matter.
LEMMA OtherKey ==
    ASSUME NEW n, NEW k, NEW k2, NEW d, NEW out, NEW in, Handshake(FALSE, n, k, d, out, in)
    PROVE  Handshake(FALSE, n, k2, d, out, in)
  BY DEF Handshake, OwnProof, SameSession

\* Answers are read, or dropped.
LEMMA FewerAnswers ==
    ASSUME NEW joined \in BOOLEAN, NEW n, NEW k, NEW d, NEW out, NEW in, NEW in2,
           Handshake(joined, n, k, d, out, in), Answered(in2, n) => Answered(in, n)
    PROVE  Handshake(joined, n, k, d, out, in2)
  BY DEF Handshake

\* The panel sends a packet that is about its session, or none.
LEMMA PanelSends ==
    ASSUME NEW joined \in BOOLEAN, NEW n, NEW k, NEW d, NEW out, IsSeq(out), NEW in,
           Handshake(joined, n, k, d, out, in),
           NEW p, p.id = "CHLNG" => p.auth[2] = n,
           p.id = "SCRYPT" => joined /\ p.auth = k
    PROVE  Handshake(joined, n, k, d, Append(out, p), in)
  <1> DEFINE more == Append(out, p)
  <1>1. /\ Len(out) \in Nat /\ Len(more) = Len(out) + 1
        /\ \A i \in 1..Len(out) : more[i] = out[i]
        /\ more[Len(out) + 1] = p
    BY Appended
  <1> HIDE DEF more
  <1>0. ASSUME NEW i \in 1..Len(more)
        PROVE  \/ i \in 1..Len(out) /\ more[i] = out[i]
               \/ i = Len(out) + 1 /\ more[i] = p
    <2>1. i \in 1..Len(out) \/ i = Len(out) + 1
      BY ONLY <1>1, i \in 1..Len(more)
    <2> QED  BY ONLY <1>1, <2>1
  <1>2. InOrder(more, n)
    <2> SUFFICES ASSUME NEW i \in 1..Len(more), NEW j \in 1..Len(more), i < j,
                        Challenge(more[i], n), more[j].id = "CHLNG"
                 PROVE  Challenge(more[j], n)
      BY DEF InOrder
    <2>1. CASE j = Len(out) + 1
      BY <1>1, <2>1 DEF Challenge
    <2>2. CASE j # Len(out) + 1
      <3>1. i \in 1..Len(out) /\ j \in 1..Len(out)
        BY ONLY <1>1, <2>2, i \in 1..Len(more), j \in 1..Len(more), i < j
      <3>2. more[i] = out[i] /\ more[j] = out[j]
        BY <1>1, <3>1
      <3> QED  BY <3>1, <3>2 DEF Handshake, InOrder
    <2> QED  BY <2>1, <2>2
  <1>3. NoOlder(out, n) => NoOlder(more, n)
    <2>1. p.id = "CHLNG" => Challenge(p, n)
      BY DEF Challenge
    <2> QED  BY <1>0, <2>1 DEF NoOlder
  <1>4. OwnProof(more, n, joined, k)
    <2>1. OwnProof(out, n, joined, k)
      BY DEF Handshake
    <2> QED  BY <1>0, <2>1 DEF OwnProof
  <1> QED  BY <1>2, <1>3, <1>4 DEF Handshake, more

\* What the reader does with the first packet of the line.
ReaderTurns(p, d, e) ==
    \/ p.id = "CHLNG" /\ e.cpr = p.auth[2] /\ ~e.sc
    \/ PdCrypt(e) = PdCrypt(d) /\ e.cpr = d.cpr /\ (e.sc => d.sc)
    \/ p.id = "SCRYPT" /\ PdCrypt(e) = PdCrypt(d) /\ e.cpr = d.cpr
         /\ (e.sc => p.auth = PdCrypt(d))

\* What it answers: of the session of the challenge it has just taken, if at all.
ReaderAnswers(p, e, in, in2) ==
    \A n : Answered(in2, n) => Answered(in, n) \/ (Challenge(p, n) /\ e.cpr = n)

LEMMA ReaderTakes ==
    ASSUME NEW joined \in BOOLEAN, NEW n, n # 0, NEW k, NEW d, NEW e, NEW out, IsSeq(out),
           out # <<>>, NEW in, NEW in2,
           Handshake(joined, n, k, d, out, in), d.sc => d.cpr # 0,
           Head(out).id = "SCRYPT" => Head(out).auth[2] # 0,
           ReaderTurns(Head(out), d, e), ReaderAnswers(Head(out), e, in, in2)
    PROVE  Handshake(joined, n, k, e, Tail(out), in2)
  <1> DEFINE p == Head(out)
             rest == Tail(out)
  <1>1. /\ Len(out) \in Nat \ {0} /\ Len(rest) = Len(out) - 1 /\ p = out[1]
        /\ \A i \in 1..Len(rest) : rest[i] = out[i + 1] /\ i + 1 \in 1..Len(out)
    BY TailOf
  <1> HIDE DEF rest, p
  <1>2. InOrder(rest, n)
    <2> SUFFICES ASSUME NEW i \in 1..Len(rest), NEW j \in 1..Len(rest), i < j,
                        Challenge(rest[i], n), rest[j].id = "CHLNG"
                 PROVE  Challenge(rest[j], n)
      BY DEF InOrder
    <2>1. i \in Int /\ j \in Int
      BY <1>1
    <2>2. i + 1 < j + 1
      BY <2>1
    <2>3. /\ i + 1 \in 1..Len(out) /\ j + 1 \in 1..Len(out)
          /\ rest[i] = out[i + 1] /\ rest[j] = out[j + 1]
      BY ONLY <1>1, i \in 1..Len(rest), j \in 1..Len(rest)
    <2> QED  BY <2>2, <2>3 DEF Handshake, InOrder
  <1>3. NoOlder(out, n) \/ Challenge(p, n) => NoOlder(rest, n)
    <2> SUFFICES ASSUME NoOlder(out, n) \/ Challenge(p, n),
                        NEW i \in 1..Len(rest), rest[i].id = "CHLNG"
                 PROVE  Challenge(rest[i], n)
      BY DEF NoOlder
    <2>1. /\ i + 1 \in 1..Len(out) /\ rest[i] = out[i + 1]
          /\ 1 \in 1..Len(out) /\ 1 < i + 1
      BY <1>1
    <2>2. CASE NoOlder(out, n)
      BY <2>1, <2>2 DEF NoOlder
    <2>3. CASE Challenge(p, n)
      BY <1>1, <2>1, <2>3 DEF Handshake, InOrder
    <2> QED  BY <2>2, <2>3
  <1>4. OwnProof(rest, n, joined, k)
    BY <1>1 DEF Handshake, OwnProof
  <1>5. NoOlder(out, n) /\ p.id = "CHLNG" => Challenge(p, n)
    BY <1>1 DEF NoOlder
  <1>6. Answered(in2, n) => Answered(in, n) \/ (Challenge(p, n) /\ e.cpr = n)
    BY DEF ReaderAnswers, p
  <1>7. e.cpr = n \/ Answered(in2, n) \/ joined => NoOlder(rest, n)
    <2>1. e.cpr = n => d.cpr = n \/ Challenge(p, n)
      BY DEF ReaderTurns, Challenge, p
    <2> QED  BY <1>3, <1>6, <2>1 DEF Handshake
  <1>8. Answered(in2, n) \/ joined => e.cpr \in {n, 0}
    <2>1. Answered(in, n) \/ joined => d.cpr \in {n, 0} /\ NoOlder(out, n)
      BY DEF Handshake
    <2>2. NoOlder(out, n) => e.cpr = d.cpr \/ e.cpr = n
      BY <1>5 DEF ReaderTurns, Challenge, p
    <2> QED  BY <1>6, <2>1, <2>2
  <1>9. SameSession(e, n, joined, k)
    <2> SUFFICES ASSUME e.sc, e.cpr = n
                 PROVE  joined /\ PdCrypt(e) = k
      BY DEF SameSession
    <2>1. PdCrypt(e) = PdCrypt(d) /\ d.cpr = n
      BY DEF ReaderTurns
    <2>2. CASE d.sc
      BY <2>1, <2>2 DEF Handshake, SameSession
    <2>3. CASE ~d.sc
      <3>1. p.id = "SCRYPT" /\ p.auth = PdCrypt(d)
        BY <2>3 DEF ReaderTurns, p
      <3>2. p.auth[2] = n
        BY <2>1, <3>1 DEF PdCrypt
      <3> QED  BY <1>1, <2>1, <3>1, <3>2 DEF Handshake, OwnProof
    <2> QED  BY <2>2, <2>3
  <1> QED  BY <1>2, <1>4, <1>7, <1>8, <1>9 DEF Handshake, rest

-----------------------------------------------------------------------------

(* The reader takes a packet                                               *)

ReaderStep(p, d, e, in, in2) ==
    /\ DOMAIN e = PdFields /\ e.cpr \in Nonces \cup {0} /\ (e.sc => e.cpr # 0)
    /\ ReaderTurns(p, d, e) /\ ReaderAnswers(p, e, in, in2)
    /\ IsSeq(in2) /\ Len(in) <= Len(in2) /\ Named(in2, {"CCRYPT"})

\* A reply of which only the answer to a challenge names a session.
LEMMA ReaderSends ==
    ASSUME IsSeq(toCp), Named(toCp, {"CCRYPT"}), NEW p, NEW e, NEW r, Transmit(toCp, r),
           r.id = "CCRYPT" => /\ r.auth # <<>> /\ r.auth[2] = e.cpr /\ e.cpr \in Nonces
                              /\ Challenge(p, e.cpr)
    PROVE  /\ ReaderAnswers(p, e, toCp, toCp')
           /\ IsSeq(toCp') /\ Len(toCp) <= Len(toCp') /\ Named(toCp', {"CCRYPT"})
  <1>1. Garbled.id = "garbled"
    BY DEF Garbled, Packet
  <1>2. Len(toCp) \in Nat
    BY Appended
  <1>3. ASSUME NEW x, x \in {r, Garbled}, toCp' = Append(toCp, x)
        PROVE  /\ ReaderAnswers(p, e, toCp, toCp')
               /\ IsSeq(toCp') /\ Len(toCp) <= Len(toCp') /\ Named(toCp', {"CCRYPT"})
    <2>1. /\ IsSeq(toCp') /\ Len(toCp') = Len(toCp) + 1
          /\ \A i \in 1..Len(toCp) : toCp'[i] = toCp[i]
          /\ toCp'[Len(toCp) + 1] = x
      BY <1>3, Appended
    <2>2. ASSUME NEW i \in 1..Len(toCp'), toCp'[i].id = "CCRYPT"
          PROVE  \/ i \in 1..Len(toCp) /\ toCp'[i] = toCp[i]
                 \/ toCp'[i] = r
      BY <1>1, <1>2, <1>3, <2>1, <2>2
    <2>3. ReaderAnswers(p, e, toCp, toCp')
      BY <2>2 DEF ReaderAnswers, Answered
    <2>4. Named(toCp', {"CCRYPT"})
      BY <2>2 DEF Named
    <2> QED  BY <1>2, <2>1, <2>3, <2>4
  <1>4. CASE toCp' = toCp
    BY <1>2, <1>4 DEF ReaderAnswers
  <1> QED  BY <1>3, <1>4 DEF Transmit

\* The reply to anything else; the counter of the MACs moves on, or the session ends.
LEMMA ReaderReplies ==
    ASSUME IsSeq(toCp), Named(toCp, {"CCRYPT"}), NEW p, NEW d, DOMAIN d = PdFields,
           d.cpr \in Nonces \cup {0}, d.sc => d.cpr # 0,
           NEW id, id # "CCRYPT", NEW data, NEW chained, PdSendReply(d, id, data, chained)
    PROVE  /\ \A e : ReaderAnswers(p, e, toCp, toCp')
           /\ IsSeq(toCp') /\ Len(toCp) <= Len(toCp') /\ Named(toCp', {"CCRYPT"})
           /\ DOMAIN Sent(d) = PdFields /\ PdCrypt(Sent(d)) = PdCrypt(d)
           /\ Sent(d).cpr = d.cpr /\ Sent(d).sc = d.sc
  <1>1. PICK r : Transmit(toCp, r) /\ r.id = id
    BY DEF PdSendReply, PdSend, Packet
  <1>2. /\ \A e : ReaderAnswers(p, e, toCp, toCp')
        /\ IsSeq(toCp') /\ Len(toCp) <= Len(toCp') /\ Named(toCp', {"CCRYPT"})
    BY <1>1, ReaderSends
  <1>3. /\ DOMAIN Sent(d) = PdFields /\ PdCrypt(Sent(d)) = PdCrypt(d)
        /\ Sent(d).cpr = d.cpr /\ Sent(d).sc = d.sc
    BY DEF Sent, PdFields, PdCrypt
  <1> QED  BY <1>2, <1>3

LEMMA ReaderPlainly ==
    ASSUME IsSeq(toCp), Named(toCp, {"CCRYPT"}), NEW p, NEW d, DOMAIN d = PdFields,
           d.cpr \in Nonces \cup {0}, d.sc => d.cpr # 0,
           NEW id, id # "CCRYPT", NEW data, NEW chained, PdReply(d, id, data, chained)
    PROVE  ReaderStep(p, d, pd', toCp, toCp')
  BY ReaderReplies DEF PdReply, ReaderStep, ReaderTurns

LEMMA ReaderExecutes ==
    ASSUME IsSeq(toCp), Named(toCp, {"CCRYPT"}), NEW p, NEW d, DOMAIN d = PdFields,
           d.cpr \in Nonces \cup {0}, d.sc => d.cpr # 0, p.id \in CmdIds,
           p.id \in {"CHLNG", "SCRYPT"} => p.auth[2] \in Nonces, PdExecute(d, p)
    PROVE  ReaderStep(p, d, pd', toCp, toCp')
  <1>1. ASSUME NEW id, id # "CCRYPT", PdAnswer(d, id)
        PROVE  ReaderStep(p, d, pd', toCp, toCp')
    BY <1>1, ReaderPlainly DEF PdAnswer
  <1>2. CASE PdPoll(d)
    BY <1>2, ReaderPlainly DEF PdPoll
  <1>3. CASE PdKeyset(d, p)
    <2>1. CASE ~d.sc
      BY <1>1, <1>3, <2>1 DEF PdKeyset
    <2>2. CASE d.sc
      <3>1. /\ PdSendReply(d, "ACK", NoData, d.seq)
            /\ pd' = [Sent(d) EXCEPT !.key = p.data.val, !.useD = FALSE, !.install = FALSE,
                                     !.sc = FALSE]
        BY <1>3, <2>2 DEF PdKeyset
      <3>2. /\ DOMAIN Sent(d) = PdFields /\ PdCrypt(Sent(d)) = PdCrypt(d)
            /\ Sent(d).cpr = d.cpr /\ Sent(d).sc = d.sc
            /\ \A e : ReaderAnswers(p, e, toCp, toCp')
            /\ IsSeq(toCp') /\ Len(toCp) <= Len(toCp') /\ Named(toCp', {"CCRYPT"})
        BY <3>1, ReaderReplies
      <3>3. DOMAIN pd' = PdFields /\ PdCrypt(pd') = PdCrypt(Sent(d)) /\ pd'.cpr = Sent(d).cpr
            /\ ~pd'.sc
        BY <3>1, <3>2 DEF PdFields, PdCrypt
      <3> QED  BY <3>2, <3>3 DEF ReaderStep, ReaderTurns
    <2> QED  BY <2>1, <2>2
  <1>4. CASE p.id = "CHLNG" /\ PdChlng(d, p)
    <2> DEFINE n == [d EXCEPT !.sc = FALSE, !.cpr = p.auth[2], !.pdr = FreshNonce, !.rmac = 0,
                              !.skey = IF d.useD THEN SCBKD ELSE d.key]
    <2>1. PdSend(n, "CCRYPT", "hs", PdCrypt(n), NoData) /\ pd' = n
      BY <1>4 DEF PdChlng
    <2>2. DOMAIN n = PdFields /\ n.cpr = p.auth[2] /\ ~n.sc
      BY DEF PdFields
    <2> HIDE DEF n
    <2>3. PICK r : Transmit(toCp, r) /\ r.id = "CCRYPT" /\ r.auth = PdCrypt(n)
      BY <2>1 DEF PdSend, Packet
    <2>4. r.auth # <<>> /\ r.auth[2] = n.cpr
      BY <2>3 DEF PdCrypt
    <2>5. n.cpr \in Nonces /\ Challenge(p, n.cpr)
      BY <1>4, <2>2 DEF Challenge
    <2>6. /\ ReaderAnswers(p, n, toCp, toCp')
          /\ IsSeq(toCp') /\ Len(toCp) <= Len(toCp') /\ Named(toCp', {"CCRYPT"})
      BY <2>3, <2>4, <2>5, ReaderSends
    <2> QED  BY <1>4, <2>1, <2>2, <2>5, <2>6 DEF ReaderStep, ReaderTurns
  <1>5. CASE p.id = "SCRYPT" /\ PdScrypt(d, p)
    <2>1. CASE d.sc
      BY <1>1, <1>5, <2>1 DEF PdScrypt
    <2>2. CASE ~d.sc
      <3>1. /\ PdSend(d, "RMAC_I", "hs", PdCrypt(d), NoData)
            /\ pd' = [d EXCEPT !.sc = (p.auth = PdCrypt(d)), !.rmac = 0]
        BY <1>5, <2>2 DEF PdScrypt
      <3>2. /\ DOMAIN pd' = PdFields /\ PdCrypt(pd') = PdCrypt(d) /\ pd'.cpr = d.cpr
            /\ pd'.sc = (p.auth = PdCrypt(d))
        BY <3>1 DEF PdFields, PdCrypt
      <3>3. PICK r : Transmit(toCp, r) /\ r.id = "RMAC_I"
        BY <3>1 DEF PdSend, Packet
      <3>4. /\ ReaderAnswers(p, pd', toCp, toCp')
            /\ IsSeq(toCp') /\ Len(toCp) <= Len(toCp') /\ Named(toCp', {"CCRYPT"})
        BY <3>3, ReaderSends
      <3>5. pd'.sc => pd'.cpr # 0
        <4>1. p.auth = PdCrypt(d) => p.auth[2] = d.cpr
          BY DEF PdCrypt
        <4> QED  BY <1>5, <3>2, <4>1
      <3> QED  BY <1>5, <3>2, <3>4, <3>5 DEF ReaderStep, ReaderTurns
    <2> QED  BY <2>1, <2>2
  <1>6. CASE PdCommand(d, p)
    <2>1. PICK ok \in BOOLEAN :
            LET r == IF ok THEN CmdReply(p) ELSE RefusedReply(p) IN
            /\ PdSendReply(d, r.id, r.data, d.seq)
            /\ pd' = IF r.id = "COM" THEN [Sent(d) EXCEPT !.addr = p.data.val] ELSE Sent(d)
      BY <1>6 DEF PdCommand
    <2> DEFINE r == IF ok THEN CmdReply(p) ELSE RefusedReply(p)
    <2>2. r.id # "CCRYPT"
      BY DEF CmdReply, RefusedReply
    <2>3. /\ PdSendReply(d, r.id, r.data, d.seq)
          /\ pd' \in {[Sent(d) EXCEPT !.addr = p.data.val], Sent(d)}
      BY <2>1
    <2> HIDE DEF r
    <2>4. /\ DOMAIN Sent(d) = PdFields /\ PdCrypt(Sent(d)) = PdCrypt(d)
          /\ Sent(d).cpr = d.cpr /\ Sent(d).sc = d.sc
          /\ \A e : ReaderAnswers(p, e, toCp, toCp')
          /\ IsSeq(toCp') /\ Len(toCp) <= Len(toCp') /\ Named(toCp', {"CCRYPT"})
      BY <2>2, <2>3, ReaderReplies
    <2>5. DOMAIN pd' = PdFields /\ PdCrypt(pd') = PdCrypt(Sent(d)) /\ pd'.cpr = Sent(d).cpr
          /\ pd'.sc = Sent(d).sc
      BY <2>3, <2>4 DEF PdFields, PdCrypt
    <2> QED  BY <2>4, <2>5 DEF ReaderStep, ReaderTurns
  <1>7. \/ \E id \in {"NAK", "PDID", "PDCAP"} : PdAnswer(d, id)
        \/ PdPoll(d)
        \/ PdKeyset(d, p)
        \/ p.id = "CHLNG" /\ PdChlng(d, p)
        \/ p.id = "SCRYPT" /\ PdScrypt(d, p)
        \/ PdCommand(d, p)
    <2>1. CASE Enforce /\ ~d.sc /\ p.id \notin {"ID", "CAP", "CHLNG", "SCRYPT"}
      BY <2>1 DEF PdExecute
    <2>2. CASE ~(Enforce /\ ~d.sc /\ p.id \notin {"ID", "CAP", "CHLNG", "SCRYPT"})
      BY <2>2 DEF PdExecute, CmdIds, PlainCmds
    <2> QED  BY <2>1, <2>2
  <1> QED  BY <1>1, <1>2, <1>3, <1>4, <1>5, <1>6, <1>7

-----------------------------------------------------------------------------

\* With what it does before and after: the sequence number, and the security block.
LEMMA ReaderDecodes ==
    ASSUME IsSeq(toCp), Named(toCp, {"CCRYPT"}), NEW p, NEW d, DOMAIN d = PdFields,
           d.cpr \in Nonces \cup {0}, d.sc => d.cpr # 0, p.id \in CmdIds,
           p.id \in {"CHLNG", "SCRYPT"} => p.auth[2] \in Nonces,
           PdDecode(d, p) \/ PdRefuse(d)
    PROVE  ReaderStep(p, d, pd', toCp, toCp')
  <1>1. CASE PdRefuse(d)
    BY <1>1, ReaderPlainly DEF PdRefuse
  <1>2. CASE PdDecode(d, p)
    <2>1. CASE PdExecute(d, p)
      BY <2>1, ReaderExecutes
    <2>2. ASSUME NEW u, PdExecute([d EXCEPT !.useD = u], p)
          PROVE  ReaderStep(p, d, pd', toCp, toCp')
      <3> DEFINE f == [d EXCEPT !.useD = u]
      <3>1. DOMAIN f = PdFields /\ f.cpr = d.cpr /\ f.sc = d.sc /\ PdCrypt(f) = PdCrypt(d)
        BY DEF PdFields, PdCrypt
      <3>2. PdExecute(f, p)
        BY <2>2
      <3> HIDE DEF f
      <3>3. ReaderStep(p, f, pd', toCp, toCp')
        BY <3>1, <3>2, ReaderExecutes
      <3> QED  BY <3>1, <3>3 DEF ReaderStep, ReaderTurns
    <2>3. ASSUME NEW s, s => d.sc, PdRefuse([d EXCEPT !.sc = s])
          PROVE  ReaderStep(p, d, pd', toCp, toCp')
      <3> DEFINE f == [d EXCEPT !.sc = s]
      <3>1. DOMAIN f = PdFields /\ f.cpr = d.cpr /\ (f.sc => d.sc) /\ PdCrypt(f) = PdCrypt(d)
        BY <2>3 DEF PdFields, PdCrypt
      <3>2. PdRefuse(f)
        BY <2>3
      <3> HIDE DEF f
      <3>3. ReaderStep(p, f, pd', toCp, toCp')
        BY <3>1, <3>2, ReaderPlainly DEF PdRefuse
      <3> QED  BY <3>1, <3>3 DEF ReaderStep, ReaderTurns
    <2>4. \/ PdExecute(d, p)
          \/ PdExecute([d EXCEPT !.useD = @ \/ (p.dflt /\ d.install)], p)
          \/ PdRefuse([d EXCEPT !.sc = @ /\ p.sec # "mac"])
      BY <1>2 DEF PdDecode
    <2>5. (d.sc /\ p.sec # "mac") => d.sc
      OBVIOUS
    <2> QED  BY <2>1, <2>2, <2>3, <2>4, <2>5
  <1> QED  BY <1>1, <1>2

LEMMA ReaderReceives ==
    ASSUME Shapes, Names, PdReceive
    PROVE  /\ toPd # <<>> /\ toPd' = Tail(toPd)
           /\ ReaderStep(Head(toPd), pd, pd', toCp, toCp')
  <1> DEFINE p == Head(toPd)
             d == PdSeq(pd, p)
  <1>1. /\ toPd # <<>> /\ toPd' = Tail(toPd)
        /\ IF p = Garbled
           THEN pd' = [pd EXCEPT !.sc = FALSE] /\ UNCHANGED toCp
           ELSE IF p.addr # pd.addr THEN UNCHANGED <<pd, toCp>>
           ELSE IF d.seq = p.seq THEN PdDecode(d, p) ELSE PdRefuse(d)
    BY DEF PdReceive, pdSide
  <1>2. /\ IsSeq(toPd) /\ IsSeq(toCp) /\ DOMAIN pd = PdFields /\ Named(toCp, {"CCRYPT"})
        /\ pd.cpr \in Nonces \cup {0} /\ (pd.sc => pd.cpr # 0)
    BY DEF Shapes, Frame, Names
  <1>3. 1 \in 1..Len(toPd) /\ p = toPd[1]
    BY <1>1, <1>2, TailOf
  <1>4. /\ p = Garbled \/ p.id \in CmdIds
        /\ p.id \in {"CHLNG", "SCRYPT"} => p.auth[2] \in Nonces
    BY <1>3 DEF Shapes, Frame, Names, Named
  <1>5. /\ DOMAIN d = PdFields /\ d.cpr = pd.cpr /\ (d.sc => pd.sc)
        /\ PdCrypt(d) = PdCrypt(pd)
    BY <1>2 DEF PdSeq, PdFields, PdCrypt
  <1>6. Len(toCp) \in Nat
    BY <1>2, Appended
  <1> HIDE DEF p, d
  <1>7. ASSUME UNCHANGED <<pd, toCp>>
        PROVE  ReaderStep(p, pd, pd', toCp, toCp')
    BY <1>2, <1>6, <1>7 DEF ReaderStep, ReaderTurns, ReaderAnswers
  <1>8. ASSUME pd' = [pd EXCEPT !.sc = FALSE], UNCHANGED toCp
        PROVE  ReaderStep(p, pd, pd', toCp, toCp')
    <2>1. DOMAIN pd' = PdFields /\ pd'.cpr = pd.cpr /\ ~pd'.sc /\ PdCrypt(pd') = PdCrypt(pd)
      BY <1>2, <1>8 DEF PdFields, PdCrypt
    <2> QED  BY <1>2, <1>6, <1>8, <2>1 DEF ReaderStep, ReaderTurns, ReaderAnswers
  <1>9. ASSUME p # Garbled, PdDecode(d, p) \/ PdRefuse(d)
        PROVE  ReaderStep(p, pd, pd', toCp, toCp')
    <2>1. ReaderStep(p, d, pd', toCp, toCp')
      BY <1>2, <1>4, <1>5, <1>9, ReaderDecodes
    <2> QED  BY <1>5, <2>1 DEF ReaderStep, ReaderTurns
  <1>10. ReaderStep(p, pd, pd', toCp, toCp')
    BY <1>1, <1>7, <1>8, <1>9
  <1> QED  BY <1>1, <1>10 DEF p

-----------------------------------------------------------------------------

(* The panel's state moves on                                              *)

\* What a step of the state machine makes of the session: none, a new one, or the one before.
Outcome(c, n) ==
    \/ ~InSession(n)
    \/ n.st = "SC_CHLNG" /\ ~n.sc /\ n.cpr = FreshNonce
    \/ c.st = "SC_CHLNG" /\ ~c.sc /\ n.st = "SC_CHLNG" /\ ~n.sc /\ n.cpr = c.cpr
    \/ c.st = "SC_CHLNG" /\ ~c.sc /\ n.st = "SC_SCRYPT" /\ n.cpr = c.cpr
    \/ /\ Joined(c) /\ Joined(n) /\ n.cpr = c.cpr /\ CpCrypt(n) = CpCrypt(c)
       /\ n.st \in {"SC_CHLNG", "SC_SCRYPT"} => c.st \in {"SC_CHLNG", "SC_SCRYPT"}

LEMMA ErrOutcome ==
    ASSUME NEW c, CpFine(c), Settle(c, ErrNext(c))
    PROVE  /\ CpOk(cp') /\ cp'.phy = "idle" /\ cp'.rb = c.rb /\ cp'.cmd = c.cmd
           /\ \/ ~InSession(cp')
              \/ c.st = "SC_CHLNG" /\ ~c.sc /\ cp'.st = "SC_CHLNG" /\ ~cp'.sc /\ cp'.cpr = c.cpr
  <1>1. /\ DOMAIN c = CpFields /\ c.st \in States /\ c.sc \in BOOLEAN
        /\ c.st \notin {"SET_SCBK", "ONLINE"} => ~c.sc
    BY DEF CpFine
  <1> DEFINE e == ErrNext(c)
             m == [e EXCEPT !.phy = "idle",
                            !.evreq = e.evreq /\ ~("ONLINE" \in {c.st, e.st})]
  <1>2. /\ DOMAIN e = CpFields /\ e.rb = c.rb /\ e.cmd = c.cmd /\ e.cpr = c.cpr
        /\ e.sc = FALSE \/ e.sc = c.sc
        /\ c.st = "SC_CHLNG" =>
             IF Enforce THEN e.st = "OFFLINE"
             ELSE e.st = "ONLINE" \/ e.st = "SC_CHLNG"
        /\ c.st = "SC_SCRYPT" => e.st = (IF Enforce THEN "OFFLINE" ELSE "ONLINE")
        /\ c.st = "SET_SCBK" => e.st = "OFFLINE" \/ (~Enforce /\ e.st = "ONLINE" /\ ~e.sc)
        /\ c.st \notin {"SC_CHLNG", "SC_SCRYPT", "SET_SCBK"} => e.st = "OFFLINE"
    BY <1>1 DEF ErrNext, CpFields, States
  <1>3. cp' = IF m.st = c.st THEN m
              ELSE CASE m.st = "OFFLINE"  -> [m EXCEPT !.sc = FALSE]
                     [] m.st = "SC_CHLNG" -> [m EXCEPT !.cpr = FreshNonce, !.pdr = 0, !.rmac = 0]
                     [] OTHER             -> m
    BY DEF Settle
  <1> HIDE DEF e
  <1>4. /\ DOMAIN m = CpFields /\ m.st = e.st /\ m.sc = e.sc /\ m.rb = e.rb /\ m.cmd = e.cmd
        /\ m.cpr = e.cpr /\ m.phy = "idle"
    BY <1>2 DEF CpFields
  <1> HIDE DEF m
  <1>5. /\ DOMAIN cp' = CpFields /\ cp'.st = m.st /\ cp'.rb = m.rb /\ cp'.cmd = m.cmd
        /\ cp'.phy = "idle"
        /\ cp'.sc = m.sc \/ (m.st = "OFFLINE" /\ cp'.sc = FALSE)
        /\ m.st = "OFFLINE" /\ c.st # "OFFLINE" => ~cp'.sc
        /\ m.st # "SC_CHLNG" \/ c.st = "SC_CHLNG" => cp'.cpr = m.cpr
    BY <1>3, <1>4 DEF CpFields
  <1>6. CpOk(cp')
    BY <1>1, <1>2, <1>4, <1>5 DEF CpOk, CpFine, States
  <1> QED  BY <1>1, <1>2, <1>4, <1>5, <1>6 DEF InSession, Joined, States

LEMMA OkOutcome ==
    ASSUME NEW c, CpOk(c), Settle(c, OkNext(c))
    PROVE  /\ CpOk(cp') /\ cp'.phy = "idle" /\ cp'.rb = c.rb /\ cp'.cmd = c.cmd
           /\ Outcome(c, cp')
  <1>1. /\ DOMAIN c = CpFields /\ c.st \in States /\ c.sc \in BOOLEAN
        /\ c.st \notin {"SET_SCBK", "ONLINE"} => ~c.sc
        /\ Enforce /\ c.st = "ONLINE" => c.sc
    BY DEF CpOk, CpFine
  <1> DEFINE e == OkNext(c)
             m == [e EXCEPT !.phy = "idle",
                            !.evreq = e.evreq /\ ~("ONLINE" \in {c.st, e.st})]
  <1>2. /\ DOMAIN e = CpFields /\ e.rb = c.rb /\ e.cmd = c.cmd /\ e.cpr = c.cpr
        /\ e.pdr = c.pdr /\ e.sc \in BOOLEAN
        /\ c.st = "INIT" => e.st = "CAPDET" /\ e.sc = c.sc
        /\ c.st = "CAPDET" => e.sc = c.sc /\ (\/ e.st = "SC_CHLNG" \/ e.st = "OFFLINE"
                                              \/ ~Enforce /\ e.st = "ONLINE")
        /\ c.st = "SC_CHLNG" => e.st = "SC_SCRYPT" /\ e.sc = c.sc
        /\ c.st = "SC_SCRYPT" => /\ e.st = "SET_SCBK" \/ e.st = "ONLINE"
                                 /\ e.sc = TRUE /\ e.useD = c.useD /\ e.key = c.key
        /\ c.st = "SET_SCBK" => e.st = "SC_CHLNG" /\ ~e.sc
        /\ c.st = "ONLINE" => e = c \/ (e.st = "SC_CHLNG" /\ ~e.sc)
        /\ c.st = "OFFLINE" => e = c
    BY <1>1 DEF OkNext, KeysetComplete, CpFields, States
  <1>3. cp' = IF m.st = c.st THEN m
              ELSE CASE m.st = "OFFLINE"  -> [m EXCEPT !.sc = FALSE]
                     [] m.st = "SC_CHLNG" -> [m EXCEPT !.cpr = FreshNonce, !.pdr = 0, !.rmac = 0]
                     [] OTHER             -> m
    BY DEF Settle
  <1> HIDE DEF e
  <1>4. /\ DOMAIN m = CpFields /\ m.st = e.st /\ m.sc = e.sc /\ m.rb = e.rb /\ m.cmd = e.cmd
        /\ m.cpr = e.cpr /\ m.phy = "idle" /\ CpCrypt(m) = CpCrypt(e)
    BY <1>2 DEF CpFields, CpCrypt, CpSessionKey
  <1> HIDE DEF m
  <1>5. /\ DOMAIN cp' = CpFields /\ cp'.st = m.st /\ cp'.rb = m.rb /\ cp'.cmd = m.cmd
        /\ cp'.phy = "idle"
        /\ m.st # "OFFLINE" => cp'.sc = m.sc
        /\ m.st = "OFFLINE" => cp'.sc = FALSE \/ (c.st = "OFFLINE" /\ cp'.sc = m.sc)
        /\ m.st # "SC_CHLNG" => cp'.cpr = m.cpr /\ CpCrypt(cp') = CpCrypt(m)
        /\ m.st = "SC_CHLNG" /\ c.st # "SC_CHLNG" => cp'.cpr = FreshNonce
    BY <1>3, <1>4 DEF CpFields, CpCrypt, CpSessionKey
  <1>6. CpOk(cp')
    BY <1>1, <1>2, <1>4, <1>5 DEF CpOk, CpFine, States
  <1>7. c.st = "SC_SCRYPT" => CpCrypt(e) = CpCrypt(c)
    BY <1>2 DEF CpCrypt, CpSessionKey
  <1>8. Outcome(c, cp')
    BY <1>1, <1>2, <1>4, <1>5, <1>7 DEF Outcome, InSession, Joined, States
  <1> QED  BY <1>2, <1>4, <1>5, <1>6, <1>8

-----------------------------------------------------------------------------

\* What a panel's state has in common with the one before a step that leaves its session.
Kept(c, n) ==
    /\ DOMAIN n = CpFields /\ n.st = c.st /\ n.sc = c.sc /\ n.cpr = c.cpr
    /\ CpCrypt(n) = CpCrypt(c) /\ n.rb = c.rb /\ n.rmac = c.rmac

LEMMA KeptFine ==
    ASSUME NEW c, NEW n, Kept(c, n)
    PROVE  /\ CpFine(c) => CpFine(n)
           /\ CpOk(c) => CpOk(n)
  BY DEF Kept, CpFine, CpOk

Ready == Commands /\ cp.cmd \in CmdIds /\ InHand(cp)

\* Whatever it transmits, it is in a session or not as before, and so is the packet.
LEMMA PanelTransmits ==
    ASSUME CpOk(cp), CpSetup \/ CpOnline \/ CpResend
    PROVE  /\ Kept(cp, cp') /\ (toCp' = toCp \/ toCp' = SubSeq(toCp, 1, cp.rb))
           /\ Ready => cp'.cmd \in CmdIds /\ InHand(cp')
           /\ toPd' \in {toPd, Append(toPd, Garbled), Append(toPd, CpPacket(cp'))}
           /\ toPd' # toPd => cp'.phy = "reply"
  <1> USE DEF CpFields
  <1>1. DOMAIN cp = CpFields
    BY DEF CpOk, CpFine
  <1>2. ASSUME NEW c, Kept(cp, c), CpTransmit(c),
               Ready => /\ c.cmd \in CmdIds
                        /\ c.cmd = "CHLNG" <=> c.st = "SC_CHLNG"
                        /\ c.cmd = "SCRYPT" <=> c.st = "SC_SCRYPT"
        PROVE  /\ Kept(cp, cp') /\ (toCp' = toCp \/ toCp' = SubSeq(toCp, 1, cp.rb))
               /\ Ready => cp'.cmd \in CmdIds /\ InHand(cp')
               /\ toPd' \in {toPd, Append(toPd, Garbled), Append(toPd, CpPacket(cp'))}
               /\ toPd' # toPd => cp'.phy = "reply"
    <2>1. /\ cp' = [c EXCEPT !.phy = "reply", !.seq = NextSeq(@)]
          /\ Transmit(toPd, CpPacket(cp'))
          /\ toCp' = IF HasFlush THEN SubSeq(toCp, 1, c.rb) ELSE toCp
      BY <1>2 DEF CpTransmit
    <2>2. DOMAIN c = CpFields
      BY <1>2 DEF Kept
    <2>3. /\ cp'.st = c.st /\ cp'.sc = c.sc /\ cp'.cpr = c.cpr /\ CpCrypt(cp') = CpCrypt(c)
          /\ cp'.rb = c.rb /\ cp'.cmd = c.cmd /\ cp'.phy = "reply" /\ DOMAIN cp' = CpFields
          /\ cp'.rmac = c.rmac
      BY <2>1, <2>2 DEF CpCrypt, CpSessionKey
    <2>4. Kept(cp, cp')
      BY <1>2, <2>3 DEF Kept
    <2>5. toPd' \in {toPd, Append(toPd, Garbled), Append(toPd, CpPacket(cp'))}
      BY <2>1 DEF Transmit
    <2>6. c.rb = cp.rb
      BY <1>2 DEF Kept
    <2> QED  BY <1>2, <2>1, <2>3, <2>4, <2>5, <2>6 DEF InHand
  <1>3. CASE CpSetup
    <2> DEFINE c == [cp EXCEPT !.cmd = HandshakeCmd(cp.st)]
    <2>1. CpTransmit(c)
      BY <1>3 DEF CpSetup
    <2>2. /\ Kept(cp, c) /\ c.cmd = HandshakeCmd(cp.st) /\ c.st = cp.st
      BY <1>1 DEF Kept, CpCrypt, CpSessionKey
    <2>3. /\ c.cmd \in CmdIds /\ (c.cmd = "CHLNG" <=> c.st = "SC_CHLNG")
          /\ (c.cmd = "SCRYPT" <=> c.st = "SC_SCRYPT")
      BY <1>3, <2>2 DEF CpSetup, CpOk, CpFine, States, HandshakeCmd, CmdIds
    <2> QED  BY <1>2, <2>1, <2>2, <2>3
  <1>4. CASE CpOnline
    <2>1. cp.st = "ONLINE"
      BY <1>4 DEF CpOnline
    <2>2. CASE cpq = <<>>
      <3> DEFINE c == [cp EXCEPT !.cmd = "POLL"]
      <3>1. CpTransmit(c)
        BY <1>4, <2>2 DEF CpOnline
      <3>2. Kept(cp, c) /\ c.cmd = "POLL" /\ c.st = "ONLINE"
        BY <1>1, <2>1 DEF Kept, CpCrypt, CpSessionKey
      <3> QED  BY <1>2, <3>1, <3>2 DEF CmdIds
    <2>3. CASE cpq # <<>>
      <3> DEFINE h == [cp EXCEPT !.data = Head(cpq)]
      <3>1. IF h.data.kind = "cmd" THEN CpTransmit([h EXCEPT !.cmd = cmds[h.data.val]])
            ELSE IF h.sc THEN CpTransmit([h EXCEPT !.cmd = "KEYSET"])
            ELSE cp' = h /\ UNCHANGED <<toPd, toCp, used>>
        BY <1>4, <2>3 DEF CpOnline
      <3>2. h.data = Head(cpq) /\ Kept(cp, h) /\ h.st = "ONLINE" /\ h.cmd = cp.cmd
            /\ h.phy = "idle"
        BY <1>1, <1>4, <2>1 DEF CpOnline, Kept, CpCrypt, CpSessionKey
      <3> HIDE DEF h
      <3>3. CASE \E x : /\ CpTransmit([h EXCEPT !.cmd = x])
                        /\ Commands => x \in PlainCmds \cup {"KEYSET"}
        <4>1. PICK x : /\ CpTransmit([h EXCEPT !.cmd = x])
                       /\ Commands => x \in PlainCmds \cup {"KEYSET"}
          BY <3>3
        <4> DEFINE c == [h EXCEPT !.cmd = x]
        <4>2. Kept(cp, c) /\ c.st = "ONLINE" /\ c.cmd = x
          BY <3>2 DEF Kept, CpCrypt, CpSessionKey
        <4>3. CpTransmit(c)
          BY <4>1
        <4>4. Ready => x \in CmdIds \ {"CHLNG", "SCRYPT"}
          BY <4>1 DEF Ready, CmdIds, PlainCmds
        <4> HIDE DEF c
        <4> QED  BY <1>2, <4>2, <4>3, <4>4
      <3>4. CASE cp' = h /\ UNCHANGED <<toPd, toCp, used>>
        BY <3>2, <3>4 DEF Ready, InHand
      <3>5. Commands /\ h.data.kind = "cmd" => cmds[h.data.val] \in PlainCmds
        <4> SUFFICES ASSUME Commands, h.data.kind = "cmd"
                     PROVE  cmds[h.data.val] \in PlainCmds
          OBVIOUS
        <4>1. 1 \in 1..Len(cpq) /\ Head(cpq) = cpq[1]
          BY <2>3, TailOf DEF Commands
        <4> QED  BY <3>2, <4>1 DEF Commands
      <3> QED  BY <3>1, <3>3, <3>4, <3>5
    <2> QED  BY <2>2, <2>3
  <1>5. CASE CpResend
    <2>1. cp.phy = "wait" /\ CpTransmit(cp)
      BY <1>5 DEF CpResend
    <2>2. Kept(cp, cp)
      BY <1>1 DEF Kept
    <2>3. Ready => /\ cp.cmd \in CmdIds
                   /\ cp.cmd = "CHLNG" <=> cp.st = "SC_CHLNG"
                   /\ cp.cmd = "SCRYPT" <=> cp.st = "SC_SCRYPT"
      BY <2>1 DEF Ready, InHand
    <2> QED  BY <1>2, <2>1, <2>2, <2>3
  <1> QED  BY <1>3, <1>4, <1>5

\* A reply: the state machine moves, and a session goes on only with the reader's answer.
LEMMA PanelReceives ==
    ASSUME CpOk(cp), CpReceive
    PROVE  /\ CpOk(cp') /\ cp'.phy = "idle" /\ cp'.rb = Len(toCp) - 1 /\ cp'.cmd = cp.cmd
           /\ toCp # <<>> /\ toCp' = Tail(toCp)
           /\ InHand(cp) => Outcome(cp, cp')
           /\ InHand(cp) /\ cp.st = "SC_CHLNG" /\ cp'.st = "SC_SCRYPT"
                => Head(toCp).id = "CCRYPT" /\ Head(toCp).auth[2] = cp.cpr
  <1> USE DEF CpFields
  <1> DEFINE p == Head(toCp)
             c == [cp EXCEPT !.rb = RxRb(toCp)]
  <1>1. /\ cp.phy = "reply" /\ toCp # <<>> /\ toCp' = Tail(toCp)
        /\ IF p = Garbled \/ p.addr # c.addr THEN CpError(c)
           ELSE IF ~Accepts(c, p) THEN CpError(Bad(c, p))
           ELSE IF HandshakeError(c, p) THEN CpError(c)
           ELSE CpDone(Decoded(c, p), p.id)
    BY DEF CpReceive
  <1>2. DOMAIN cp = CpFields /\ CpOk(c)
    BY DEF CpOk, CpFine
  <1>3. /\ DOMAIN c = CpFields /\ c.st = cp.st /\ c.sc = cp.sc /\ c.cpr = cp.cpr
        /\ CpCrypt(c) = CpCrypt(cp) /\ c.rb = Len(toCp) - 1 /\ c.cmd = cp.cmd
    BY <1>2 DEF CpCrypt, CpSessionKey, RxRb
  <1> HIDE DEF p, c
  <1>4. ASSUME NEW e, CpError(e), CpFine(e), e.st = c.st, e.cpr = c.cpr, e.cmd = c.cmd,
               e.rb = c.rb
        PROVE  /\ CpOk(cp') /\ cp'.phy = "idle" /\ cp'.rb = Len(toCp) - 1 /\ cp'.cmd = cp.cmd
               /\ Outcome(cp, cp') /\ cp'.st # "SC_SCRYPT"
    <2>1. Settle(e, ErrNext(e))
      BY <1>4 DEF CpError
    <2>2. /\ CpOk(cp') /\ cp'.phy = "idle" /\ cp'.rb = e.rb /\ cp'.cmd = e.cmd
          /\ \/ ~InSession(cp')
             \/ e.st = "SC_CHLNG" /\ ~e.sc /\ cp'.st = "SC_CHLNG" /\ ~cp'.sc /\ cp'.cpr = e.cpr
      BY <1>4, <2>1, ErrOutcome
    <2>3. cp.st = "SC_CHLNG" => ~cp.sc
      BY DEF CpOk, CpFine
    <2> QED  BY <1>3, <1>4, <2>2, <2>3 DEF Outcome, InSession, Joined
  <1>5. CASE CpError(c)
    BY <1>1, <1>2, <1>3, <1>4, <1>5 DEF CpOk
  <1>6. CASE CpError(Bad(c, p))
    <2> DEFINE e == Bad(c, p)
    <2>1. /\ CpFine(e) /\ e.st = c.st /\ e.cpr = c.cpr /\ e.cmd = c.cmd /\ e.rb = c.rb
      BY <1>2, <1>3 DEF Bad, CpOk, CpFine
    <2> HIDE DEF e
    <2> QED  BY <1>1, <1>4, <1>6, <2>1 DEF e
  <1>7. CASE ~HandshakeError(c, p) /\ CpDone(Decoded(c, p), p.id)
    <2> DEFINE m == Decoded(c, p)
               e == [m EXCEPT !.retry = 0]
    <2>1. /\ DOMAIN m = CpFields /\ m.st = c.st /\ m.sc = c.sc /\ m.cpr = c.cpr
          /\ m.cmd = c.cmd /\ m.rb = c.rb /\ m.useD = c.useD /\ m.key = c.key
          /\ p.id # "CCRYPT" => m.pdr = c.pdr
      BY <1>3 DEF Decoded, TakeEvent
    <2>2. IF Expected(e, p.id) THEN Settle(e, OkNext(e)) ELSE CpError(e)
      BY <1>7 DEF CpDone
    <2> HIDE DEF m
    <2>3. /\ DOMAIN e = CpFields /\ e.st = c.st /\ e.sc = c.sc /\ e.cpr = c.cpr
          /\ e.cmd = c.cmd /\ e.rb = c.rb
          /\ p.id # "CCRYPT" => CpCrypt(e) = CpCrypt(c)
      BY <2>1 DEF CpCrypt, CpSessionKey
    <2> HIDE DEF e
    <2>4. CpOk(e)
      BY <1>2, <2>3 DEF CpOk, CpFine
    <2>5. CASE CpError(e)
      BY <1>1, <1>4, <2>3, <2>4, <2>5 DEF CpOk
    <2>6. CASE Expected(e, p.id) /\ Settle(e, OkNext(e))
      <3>1. /\ CpOk(cp') /\ cp'.phy = "idle" /\ cp'.rb = e.rb /\ cp'.cmd = e.cmd
            /\ Outcome(e, cp')
        BY <2>4, <2>6, OkOutcome
      <3>2. InHand(cp) /\ p.id = "CCRYPT" => c.st = "SC_CHLNG"
        BY <1>1, <1>3, <1>7 DEF HandshakeError, InHand
      <3>3. c.st = "SC_CHLNG" => p.id = "CCRYPT"
        BY <2>3, <2>6 DEF Expected
      <3>4. p.id = "CCRYPT" => p.auth[2] = c.cpr
        BY <1>7 DEF HandshakeError
      <3>5. c.st = "SC_CHLNG" => ~c.sc
        BY <1>2 DEF CpOk, CpFine
      <3>6. InHand(cp) => Outcome(cp, cp')
        BY <1>3, <2>3, <3>1, <3>2, <3>5 DEF Outcome, Joined
      <3> QED  BY <1>1, <1>3, <2>3, <3>1, <3>3, <3>4, <3>6 DEF p
    <2> QED  BY <2>2, <2>5, <2>6
  <1> QED  BY <1>1, <1>5, <1>6, <1>7

-----------------------------------------------------------------------------

\* The steps of the panel that are not about a packet.
LEMMA PanelMoves ==
    ASSUME CpOk(cp), CpTimeout \/ CpRetryOnline \/ CpRetrySc
    PROVE  /\ CpOk(cp') /\ cp'.cmd = cp.cmd /\ cp'.rb = cp.rb /\ (InHand(cp) => InHand(cp'))
           /\ toCp' = toCp /\ toPd' = toPd
           /\ Outcome(cp, cp') /\ (cp.st = "SC_CHLNG" => cp'.st # "SC_SCRYPT")
  <1> USE DEF CpFields
  <1>1. /\ DOMAIN cp = CpFields /\ cp.st \in States
        /\ cp.st \notin {"SET_SCBK", "ONLINE"} => ~cp.sc
    BY DEF CpOk, CpFine
  <1>2. CASE CpTimeout
    <2>1. toCp' = toCp /\ toPd' = toPd /\ cp.phy = "reply"
      BY <1>2 DEF CpTimeout
    <2>2. CASE cp' = [cp EXCEPT !.phy = "wait", !.retry = @ + 1]
      <3>1. /\ DOMAIN cp' = CpFields /\ cp'.st = cp.st /\ cp'.sc = cp.sc /\ cp'.cpr = cp.cpr
            /\ cp'.rb = cp.rb /\ cp'.cmd = cp.cmd /\ CpCrypt(cp') = CpCrypt(cp)
        BY <1>1, <2>2 DEF CpCrypt, CpSessionKey
      <3>2. CpOk(cp') /\ (InHand(cp) => InHand(cp'))
        BY <2>1, <3>1 DEF CpOk, CpFine, InHand
      <3>3. Outcome(cp, cp')
        BY <1>1, <3>1 DEF Outcome, InSession, Joined
      <3> QED  BY <2>1, <3>1, <3>2, <3>3
    <2>3. CASE CpError(cp)
      <3>1. Settle(cp, ErrNext(cp))
        BY <2>3 DEF CpError
      <3>2. /\ CpOk(cp') /\ cp'.phy = "idle" /\ cp'.rb = cp.rb /\ cp'.cmd = cp.cmd
            /\ \/ ~InSession(cp')
               \/ cp.st = "SC_CHLNG" /\ ~cp.sc /\ cp'.st = "SC_CHLNG" /\ ~cp'.sc /\ cp'.cpr = cp.cpr
        BY <3>1, ErrOutcome DEF CpOk
      <3> QED  BY <2>1, <3>2 DEF Outcome, InSession, Joined, InHand
    <2> QED  BY <1>2, <2>2, <2>3 DEF CpTimeout
  <1>3. CASE CpRetryOnline
    <2>1. /\ cp.st = "OFFLINE" /\ toCp' = toCp /\ toPd' = toPd
          /\ cp' = [cp EXCEPT !.st = "INIT", !.seq = -1, !.retry = 0]
      BY <1>3 DEF CpRetryOnline
    <2>2. /\ DOMAIN cp' = CpFields /\ cp'.st = "INIT" /\ ~cp'.sc
          /\ cp'.rb = cp.rb /\ cp'.cmd = cp.cmd /\ cp'.phy = cp.phy /\ cp'.sc = cp.sc
      BY <1>1, <2>1
    <2>3. CpOk(cp') /\ Outcome(cp, cp') /\ (InHand(cp) => InHand(cp'))
      BY <2>1, <2>2 DEF CpOk, CpFine, States, Outcome, InSession, Joined, InHand
    <2> QED  BY <2>1, <2>2, <2>3
  <1>4. CASE CpRetrySc
    <2> DEFINE e == [cp EXCEPT !.st = "SC_CHLNG"]
               m == [e EXCEPT !.phy = "idle",
                              !.evreq = e.evreq /\ ~("ONLINE" \in {cp.st, e.st})]
    <2>1. /\ cp.phy = "idle" /\ cp.st = "ONLINE" /\ ~cp.sc /\ toCp' = toCp /\ toPd' = toPd
          /\ Settle(cp, e)
      BY <1>4 DEF CpRetrySc
    <2>2. /\ DOMAIN m = CpFields /\ m.st = "SC_CHLNG" /\ ~m.sc /\ m.rb = cp.rb
          /\ m.cmd = cp.cmd /\ m.phy = "idle" /\ m.sc = cp.sc
      BY <1>1, <2>1
    <2>3. cp' = IF m.st = cp.st THEN m
                ELSE CASE m.st = "OFFLINE"  -> [m EXCEPT !.sc = FALSE]
                       [] m.st = "SC_CHLNG" ->
                            [m EXCEPT !.cpr = FreshNonce, !.pdr = 0, !.rmac = 0]
                       [] OTHER             -> m
      BY <2>1 DEF Settle
    <2> HIDE DEF m
    <2>4. cp' = [m EXCEPT !.cpr = FreshNonce, !.pdr = 0, !.rmac = 0]
      BY <2>1, <2>2, <2>3
    <2>5. /\ DOMAIN cp' = CpFields /\ cp'.st = "SC_CHLNG" /\ ~cp'.sc /\ cp'.rb = cp.rb
          /\ cp'.cmd = cp.cmd /\ cp'.phy = "idle" /\ cp'.cpr = FreshNonce /\ cp'.sc = cp.sc
      BY <2>2, <2>4
    <2>6. CpOk(cp') /\ Outcome(cp, cp') /\ InHand(cp')
      BY <2>5 DEF CpOk, CpFine, States, Outcome, InHand
    <2> QED  BY <2>1, <2>5, <2>6
  <1> QED  BY <1>2, <1>3, <1>4

-----------------------------------------------------------------------------

(* Who enforces the secure channel is online only with it                  *)

\* The steps that leave the panel as it is.
NotThePanel ==
    \/ PdSubmit
    \/ \E kind \in PlainCmds : CpSubmit(kind)
    \/ \E k \in NewKeys : CpSubmitKeyset(k)
    \/ PdReceive \/ PdScTimeout \/ PdReset

LEMMA OtherSteps ==
    ASSUME NotThePanel \/ UNCHANGED vars
    PROVE  UNCHANGED cp
  BY DEF NotThePanel, PdSubmit, CpSubmit, CpSubmitKeyset, PdReceive, PdScTimeout, PdReset,
         vars, cpSide

LEMMA StepsOfNext ==
    ASSUME Next
    PROVE  \/ NotThePanel
           \/ CpSetup \/ CpOnline \/ CpResend
           \/ CpReceive
           \/ CpTimeout \/ CpRetryOnline \/ CpRetrySc
  BY DEF Next, NotThePanel, CpStep

LEMMA CpOkKept ==
    ASSUME CpOk(cp), [Next]_vars
    PROVE  CpOk(cp')
  <1>1. CASE CpSetup \/ CpOnline \/ CpResend
    <2>1. Kept(cp, cp')
      BY <1>1, PanelTransmits
    <2> QED  BY <2>1, KeptFine
  <1>2. CASE CpReceive
    BY <1>2, PanelReceives
  <1>3. CASE CpTimeout \/ CpRetryOnline \/ CpRetrySc
    BY <1>3, PanelMoves
  <1>4. CASE NotThePanel \/ UNCHANGED vars
    BY <1>4, OtherSteps
  <1> QED  BY <1>1, <1>2, <1>3, <1>4, StepsOfNext

\* A panel set up with OSDP_FLAG_ENFORCE_SECURE is never online without an active session: not
\* after a failed handshake, a wrong MAC, a key change or a retry (get_next_ok_state,
\* get_next_err_state, cp_state_change).
THEOREM OnlineSecurely == Spec => []OnlineIsSecure
  <1>1. Init => CpOk(cp)
    BY DEF Init, CpBoot, CpOk, CpFine, CpFields, States
  <1>2. CpOk(cp) /\ [Next]_vars => CpOk(cp)'
    BY CpOkKept
  <1>3. CpOk(cp) => OnlineIsSecure
    BY DEF CpOk, OnlineIsSecure
  <1> QED  BY <1>1, <1>2, <1>3, PTL DEF Spec

-----------------------------------------------------------------------------

(* Two active sessions are one                                             *)

\* The packet in hand is of the session, and names it.
LEMMA PacketOfSession ==
    ASSUME CpOk(cp'), cp'.cmd \in CmdIds, InHand(cp'), cp'.phy = "reply", NEW n, n = cp'.cpr
    PROVE  LET p == CpPacket(cp') IN
           /\ p.id \in CmdIds
           /\ p.id \in {"CHLNG", "SCRYPT"} =>
                InSession(cp') /\ p.auth # <<>> /\ p.auth[2] = n
           /\ p.id = "SCRYPT" => Joined(cp') /\ p.auth = CpCrypt(cp')
  <1> DEFINE c == cp'
             p == CpPacket(c)
  <1>1. /\ c.cmd = "CHLNG" => c.st = "SC_CHLNG"
        /\ c.cmd = "SCRYPT" => c.st = "SC_SCRYPT"
        /\ c.st \in {"SC_CHLNG", "SC_SCRYPT"} => ~c.sc
    BY DEF InHand, CpOk, CpFine
  <1> HIDE DEF c
  <1>2. p.id = c.cmd
    BY DEF CpPacket, Packet
  <1>3. c.cmd = "CHLNG" /\ ~c.sc => p.auth = <<NoKey, c.cpr, 0>>
    BY DEF CpPacket, Packet
  <1>4. c.cmd = "SCRYPT" /\ ~c.sc => p.auth = CpCrypt(c)
    BY DEF CpPacket, Packet
  <1>5. CpCrypt(c) # <<>> /\ CpCrypt(c)[2] = c.cpr
    BY DEF CpCrypt
  <1>6. c.cmd \in CmdIds /\ c.cpr = n
    BY DEF c
  <1>7. /\ p.id \in CmdIds
        /\ p.id \in {"CHLNG", "SCRYPT"} => InSession(c) /\ p.auth # <<>> /\ p.auth[2] = n
        /\ p.id = "SCRYPT" => Joined(c) /\ p.auth = CpCrypt(c)
    BY <1>1, <1>2, <1>3, <1>4, <1>5, <1>6 DEF InSession, Joined
  <1> QED  BY <1>7 DEF c

\* Fewer packets of the reader's are still named.
LEMMA FewerNamed ==
    ASSUME Shapes, Named(toCp, {"CCRYPT"}), NEW m \in 0..Len(toCp)
    PROVE  LET s == SubSeq(toCp, 1, m) IN
           /\ IsSeq(s) /\ Len(s) = m /\ Named(s, {"CCRYPT"})
           /\ \A n : Answered(s, n) => Answered(toCp, n)
  <1> DEFINE s == SubSeq(toCp, 1, m)
  <1>1. /\ IsSeq(s) /\ Len(s) = m
        /\ \A i \in 1..m : s[i] = toCp[i]
    BY Prefix DEF Shapes, Frame
  <1>2. \A i \in 1..m : i \in 1..Len(toCp)
    BY Appended DEF Shapes, Frame
  <1> HIDE DEF s
  <1>3. Named(s, {"CCRYPT"}) /\ \A n : Answered(s, n) => Answered(toCp, n)
    BY <1>1, <1>2 DEF Named, Answered
  <1> QED  BY <1>1, <1>3 DEF s

LEMMA ReadNamed ==
    ASSUME Shapes, Named(toCp, {"CCRYPT"}), toCp # <<>>
    PROVE  /\ IsSeq(Tail(toCp)) /\ Len(Tail(toCp)) = Len(toCp) - 1 /\ Len(toCp) \in Nat \ {0}
           /\ Named(Tail(toCp), {"CCRYPT"})
           /\ \A n : Answered(Tail(toCp), n) => Answered(toCp, n)
           /\ \A n : Head(toCp).id = "CCRYPT" /\ Head(toCp).auth[2] = n => Answered(toCp, n)
  <1> DEFINE s == Tail(toCp)
  <1>1. /\ IsSeq(s) /\ Len(toCp) \in Nat \ {0} /\ Len(s) = Len(toCp) - 1
        /\ \A i \in 1..(Len(toCp) - 1) : s[i] = toCp[i + 1]
        /\ Head(toCp) = toCp[1]
    BY TailOf DEF Shapes, Frame
  <1>2. \A i \in 1..Len(s) : i + 1 \in 1..Len(toCp) /\ s[i] = toCp[i + 1]
    BY <1>1
  <1>3. 1 \in 1..Len(toCp)
    BY <1>1
  <1> HIDE DEF s
  <1>4. Named(s, {"CCRYPT"}) /\ \A n : Answered(s, n) => Answered(toCp, n)
    BY <1>2 DEF Named, Answered
  <1>5. \A n : Head(toCp).id = "CCRYPT" /\ Head(toCp).auth[2] = n => Answered(toCp, n)
    BY <1>1, <1>3 DEF Answered
  <1> QED  BY <1>1, <1>4, <1>5 DEF s

\* A panel's step that transmits takes at most one command off the queue.
LEMMA QueueTaken ==
    ASSUME Commands, cpq # <<>>, cpq' = Tail(cpq), cmds' = cmds
    PROVE  Commands'
  <1>1. /\ IsSeq(Tail(cpq)) /\ Len(cpq) \in Nat \ {0} /\ Len(Tail(cpq)) = Len(cpq) - 1
        /\ \A i \in 1..(Len(cpq) - 1) : Tail(cpq)[i] = cpq[i + 1]
    BY TailOf DEF Commands
  <1>2. \A i \in 1..Len(cpq') : i + 1 \in 1..Len(cpq) /\ cpq'[i] = cpq[i + 1]
    BY <1>1
  <1> QED  BY <1>1, <1>2 DEF Commands

LEMMA QueueGrown ==
    ASSUME Commands,
           \/ \E kind \in PlainCmds : CpSubmit(kind)
           \/ \E k \in NewKeys : CpSubmitKeyset(k)
    PROVE  Commands'
  <1>1. PICK x : /\ cpq' = Append(cpq, x) /\ cmds' \in Seq(PlainCmds)
                 /\ Len(cmds) \in Nat /\ Len(cmds') \in Nat /\ Len(cmds) <= Len(cmds')
                 /\ x.kind = "cmd" => x.val \in 1..Len(cmds')
    <2>1. CASE \E kind \in PlainCmds : CpSubmit(kind)
      <3>1. PICK kind \in PlainCmds : /\ cmds' = Append(cmds, kind)
                                      /\ cpq' = Append(cpq, CmdData(Len(cmds')))
        BY <2>1 DEF CpSubmit
      <3>2. cmds' \in Seq(PlainCmds) /\ Len(cmds') = Len(cmds) + 1 /\ Len(cmds) \in Nat
        BY <3>1 DEF Commands
      <3>3. CmdData(Len(cmds')).val \in 1..Len(cmds')
        BY <3>2 DEF CmdData
      <3> QED  BY <3>1, <3>2, <3>3
    <2>2. CASE \E k \in NewKeys : CpSubmitKeyset(k)
      <3>1. PICK k \in NewKeys : cpq' = Append(cpq, KeyData(k)) /\ cmds' = cmds
        BY <2>2 DEF CpSubmitKeyset, submitted
      <3>2. KeyData(k).kind # "cmd"
        BY DEF KeyData
      <3>3. cmds' \in Seq(PlainCmds) /\ Len(cmds') = Len(cmds) /\ Len(cmds) \in Nat
        BY <3>1 DEF Commands
      <3> QED  BY <3>1, <3>2, <3>3
    <2> QED  BY <2>1, <2>2
  <1>2. /\ IsSeq(cpq') /\ Len(cpq) \in Nat /\ Len(cpq') = Len(cpq) + 1
        /\ \A i \in 1..Len(cpq) : cpq'[i] = cpq[i]
        /\ cpq'[Len(cpq) + 1] = x
    BY <1>1, Appended DEF Commands
  <1>3. ASSUME NEW i \in 1..Len(cpq'), cpq'[i].kind = "cmd"
        PROVE  cpq'[i].val \in 1..Len(cmds')
    <2>1. CASE i = Len(cpq) + 1
      BY <1>1, <1>2, <1>3, <2>1
    <2>2. CASE i # Len(cpq) + 1
      <3>1. i \in 1..Len(cpq) /\ cpq'[i] = cpq[i]
        BY <1>2, <2>2
      <3>2. cpq'[i].val \in 1..Len(cmds)
        BY <1>3, <3>1 DEF Commands
      <3> QED  BY ONLY <1>1, <3>2
    <2> QED  BY <2>1, <2>2
  <1> QED  BY <1>1, <1>2, <1>3 DEF Commands

LEMMA SessionTransmits ==
    ASSUME SessionInv, CpSetup \/ CpOnline \/ CpResend
    PROVE  SessionInv'
  <1>1. /\ Shapes /\ Names
        /\ InSession(cp) => /\ cp.cpr \in Nonces
                            /\ Handshake(Joined(cp), cp.cpr, CpCrypt(cp), pd, toPd, toCp)
    BY DEF SessionInv
  <1>2. /\ Kept(cp, cp') /\ (toCp' = toCp \/ toCp' = SubSeq(toCp, 1, cp.rb))
        /\ cp'.cmd \in CmdIds /\ InHand(cp') /\ CpOk(cp')
        /\ toPd' \in {toPd, Append(toPd, Garbled), Append(toPd, CpPacket(cp'))}
        /\ toPd' # toPd => cp'.phy = "reply"
    BY <1>1, PanelTransmits, KeptFine DEF Shapes, Frame, Ready
  <1>3. pd' = pd /\ cmds' = cmds /\ (cpq' = cpq \/ (cpq # <<>> /\ cpq' = Tail(cpq)))
    BY DEF CpSetup, CpOnline, CpResend, pdSide, submitted
  <1>4. IsSeq(toPd) /\ IsSeq(toCp) /\ cp.rb \in 0..Len(toCp) /\ Named(toCp, {"CCRYPT"})
    BY <1>1 DEF Shapes, Frame, Names
  <1>5. /\ IsSeq(toCp') /\ cp'.rb \in 0..Len(toCp') /\ Named(toCp', {"CCRYPT"})
        /\ \A n : Answered(toCp', n) => Answered(toCp, n)
    <2>1. CASE toCp' = toCp
      BY <1>2, <1>4, <2>1 DEF Kept
    <2>2. CASE toCp' = SubSeq(toCp, 1, cp.rb)
      <3>1. cp.rb \in 0..cp.rb
        BY <1>4, Appended
      <3> QED  BY <1>1, <1>2, <1>4, <2>2, <3>1, FewerNamed DEF Kept
    <2> QED  BY <1>2, <2>1, <2>2
  <1>6. Commands'
    <2>1. CASE cpq' = cpq
      BY <1>1, <1>3, <2>1 DEF Shapes, Frame, Commands
    <2>2. CASE cpq # <<>> /\ cpq' = Tail(cpq)
      BY <1>1, <1>3, <2>2, QueueTaken DEF Shapes, Frame
    <2> QED  BY <1>3, <2>1, <2>2
  <1>7. /\ cp'.cpr = cp.cpr /\ (InSession(cp') <=> InSession(cp))
        /\ (Joined(cp') <=> Joined(cp)) /\ CpCrypt(cp') = CpCrypt(cp)
    BY <1>2 DEF Kept, InSession, Joined
  <1>8. Joined(cp') \in BOOLEAN /\ Joined(cp) \in BOOLEAN
    BY <1>1, <1>2 DEF Joined, Shapes, Frame, CpOk, CpFine
  <1>9. InSession(cp) => Handshake(Joined(cp), cp.cpr, CpCrypt(cp), pd, toPd, toCp')
    BY <1>1, <1>5, <1>8, FewerAnswers
  <1>10. ASSUME NEW p, toPd' = Append(toPd, p), p = Garbled \/ p.id \in CmdIds,
                p.id \in {"CHLNG", "SCRYPT"} =>
                    InSession(cp) /\ p.auth # <<>> /\ p.auth[2] = cp.cpr,
                p.id = "SCRYPT" => Joined(cp) /\ p.auth = CpCrypt(cp)
         PROVE  SessionInv'
    <2>1. /\ IsSeq(toPd') /\ Len(toPd) \in Nat /\ Len(toPd') = Len(toPd) + 1
          /\ \A i \in 1..Len(toPd) : toPd'[i] = toPd[i]
          /\ toPd'[Len(toPd) + 1] = p
      BY <1>4, <1>10, Appended
    <2>2. \A i \in 1..Len(toPd') : \/ i \in 1..Len(toPd) /\ toPd'[i] = toPd[i]
                                   \/ toPd'[i] = p
      BY <2>1
    <2>3. Shapes'
      BY <1>1, <1>2, <1>3, <1>5, <1>6, <1>10, <2>1, <2>2 DEF Shapes, Frame, Garbled, Packet
    <2>4. Names'
      BY <1>1, <1>3, <1>5, <1>10, <2>2 DEF Names, Named
    <2>5. InSession(cp) => Handshake(Joined(cp), cp.cpr, CpCrypt(cp), pd, toPd', toCp')
      BY <1>4, <1>8, <1>9, <1>10, PanelSends
    <2> QED  BY <1>1, <1>3, <1>7, <1>8, <2>3, <2>4, <2>5 DEF SessionInv
  <1>11. CASE toPd' = toPd
    <2>1. Shapes' /\ Names'
      BY <1>1, <1>2, <1>3, <1>5, <1>6, <1>11 DEF Shapes, Frame, Names, Garbled, Packet
    <2> QED  BY <1>1, <1>3, <1>7, <1>8, <1>9, <1>11, <2>1 DEF SessionInv
  <1>12. CASE toPd' = Append(toPd, Garbled)
    <2>1. Garbled.id = "garbled"
      BY DEF Garbled, Packet
    <2> QED  BY <1>10, <1>12, <2>1
  <1>13. CASE toPd' # toPd /\ toPd' = Append(toPd, CpPacket(cp'))
    BY <1>2, <1>7, <1>10, <1>13, PacketOfSession
  <1> QED  BY <1>2, <1>11, <1>12, <1>13

-----------------------------------------------------------------------------

\* The state machine moves on, when a reply is read or not: the session is new, the one
\* before, or joined with the reader's answer.
LEMMA SessionMoves ==
    ASSUME SessionInv, ~IsFiniteSet(Nonces), Outcome(cp, cp'), UNCHANGED <<pd, toPd>>,
           cp.st = "SC_CHLNG" /\ cp'.st = "SC_SCRYPT" => Answered(toCp, cp.cpr),
           \A n : Answered(toCp', n) => Answered(toCp, n),
           CpOk(cp')
    PROVE  InSession(cp') =>
             /\ cp'.cpr \in Nonces
             /\ Handshake(Joined(cp'), cp'.cpr, CpCrypt(cp'), pd', toPd', toCp')
  <1> SUFFICES ASSUME InSession(cp')
               PROVE  /\ cp'.cpr \in Nonces
                      /\ Handshake(Joined(cp'), cp'.cpr, CpCrypt(cp'), pd, toPd, toCp')
    OBVIOUS
  <1>1. /\ Shapes /\ Names
        /\ InSession(cp) => /\ cp.cpr \in Nonces
                            /\ Handshake(Joined(cp), cp.cpr, CpCrypt(cp), pd, toPd, toCp)
    BY DEF SessionInv
  <1>2. Joined(cp) \in BOOLEAN /\ Joined(cp') \in BOOLEAN
    BY <1>1 DEF Joined, Shapes, Frame, CpOk, CpFine
  <1>3. SUFFICES ASSUME NEW n, cp'.cpr = n, NEW k, CpCrypt(cp') = k,
                        NEW j \in BOOLEAN, Joined(cp') = j
                 PROVE  n \in Nonces /\ Handshake(j, n, k, pd, toPd, toCp)
    BY <1>2, FewerAnswers
  <1>4. CASE cp'.st = "SC_CHLNG" /\ ~cp'.sc /\ cp'.cpr = FreshNonce
    <2>1. j = FALSE /\ n = FreshNonce
      BY <1>3, <1>4 DEF Joined
    <2>2. /\ n \in Nonces /\ pd.cpr # n
          /\ \A i \in 1..Len(toPd) : toPd[i].id \in {"CHLNG", "SCRYPT"} => toPd[i].auth[2] # n
          /\ \A i \in 1..Len(toCp) : toCp[i].id = "CCRYPT" => toCp[i].auth[2] # n
      BY <1>1, <2>1, FreshName DEF Shapes, Frame
    <2>3. Handshake(FALSE, n, k, pd, toPd, toCp)
      BY ONLY <2>2, NewSession
    <2> QED  BY <2>1, <2>2, <2>3
  <1>5. CASE cp.st = "SC_CHLNG" /\ ~cp.sc /\ cp'.st = "SC_CHLNG" /\ ~cp'.sc /\ cp'.cpr = cp.cpr
    <2>1. j = FALSE /\ Joined(cp) = FALSE /\ InSession(cp)
      BY <1>2, <1>3, <1>5 DEF Joined, InSession
    <2>2. n \in Nonces /\ Handshake(FALSE, n, CpCrypt(cp), pd, toPd, toCp)
      BY <1>1, <1>3, <1>5, <2>1
    <2>3. Handshake(FALSE, n, k, pd, toPd, toCp)
      BY ONLY <2>2, OtherKey
    <2> QED  BY <2>1, <2>2, <2>3
  <1>6. CASE cp.st = "SC_CHLNG" /\ ~cp.sc /\ cp'.st = "SC_SCRYPT" /\ cp'.cpr = cp.cpr
    <2>1. j = TRUE /\ Joined(cp) = FALSE /\ InSession(cp)
      BY <1>2, <1>3, <1>6 DEF Joined, InSession
    <2>2. n \in Nonces /\ Handshake(FALSE, n, CpCrypt(cp), pd, toPd, toCp)
      BY <1>1, <1>3, <1>6, <2>1
    <2>3. Answered(toCp, n)
      BY <1>3, <1>6
    <2>4. Handshake(TRUE, n, k, pd, toPd, toCp)
      BY ONLY <2>2, <2>3, JoinSession
    <2> QED  BY <2>1, <2>2, <2>4
  <1>7. CASE Joined(cp) /\ Joined(cp') /\ cp'.cpr = cp.cpr /\ CpCrypt(cp') = CpCrypt(cp)
    <2>1. j = TRUE /\ Joined(cp) = TRUE /\ InSession(cp)
      BY <1>2, <1>3, <1>7 DEF InSession
    <2> QED  BY <1>1, <1>3, <1>7, <2>1
  <1> QED  BY <1>4, <1>5, <1>6, <1>7 DEF Outcome

LEMMA SessionReceives ==
    ASSUME SessionInv, ~IsFiniteSet(Nonces), CpReceive
    PROVE  SessionInv'
  <1>1. Shapes /\ Names
    BY DEF SessionInv
  <1>2. /\ CpOk(cp') /\ cp'.phy = "idle" /\ cp'.rb = Len(toCp) - 1 /\ cp'.cmd = cp.cmd
        /\ toCp # <<>> /\ toCp' = Tail(toCp) /\ Outcome(cp, cp')
        /\ cp.st = "SC_CHLNG" /\ cp'.st = "SC_SCRYPT"
             => Head(toCp).id = "CCRYPT" /\ Head(toCp).auth[2] = cp.cpr
    BY <1>1, PanelReceives DEF Shapes, Frame
  <1>3. UNCHANGED <<pd, toPd, cmds, cpq>>
    BY DEF CpReceive, pdSide, submitted
  <1>4. /\ IsSeq(toCp') /\ Len(toCp') = Len(toCp) - 1 /\ Len(toCp) \in Nat \ {0}
        /\ Named(toCp', {"CCRYPT"})
        /\ \A n : Answered(toCp', n) => Answered(toCp, n)
        /\ \A n : Head(toCp).id = "CCRYPT" /\ Head(toCp).auth[2] = n => Answered(toCp, n)
    BY <1>1, <1>2, ReadNamed DEF Names
  <1>5. InSession(cp') => /\ cp'.cpr \in Nonces
                          /\ Handshake(Joined(cp'), cp'.cpr, CpCrypt(cp'), pd', toPd', toCp')
    BY <1>2, <1>3, <1>4, SessionMoves
  <1>6. cp'.rb \in 0..Len(toCp')
    BY <1>2, <1>4
  <1>7. Shapes' /\ Names'
    BY <1>1, <1>2, <1>3, <1>4, <1>6
       DEF Shapes, Frame, Names, Named, InHand, Commands, Garbled, Packet
  <1> QED  BY <1>5, <1>7 DEF SessionInv

LEMMA SessionWaits ==
    ASSUME SessionInv, ~IsFiniteSet(Nonces), CpTimeout \/ CpRetryOnline \/ CpRetrySc
    PROVE  SessionInv'
  <1>1. Shapes /\ Names
    BY DEF SessionInv
  <1>2. /\ CpOk(cp') /\ cp'.cmd = cp.cmd /\ cp'.rb = cp.rb /\ InHand(cp')
        /\ toCp' = toCp /\ toPd' = toPd /\ Outcome(cp, cp')
        /\ cp.st = "SC_CHLNG" => cp'.st # "SC_SCRYPT"
    BY <1>1, PanelMoves DEF Shapes, Frame
  <1>3. UNCHANGED <<pd, toPd, cmds, cpq>>
    BY DEF CpTimeout, CpRetryOnline, CpRetrySc, pdSide, submitted
  <1>4. InSession(cp') => /\ cp'.cpr \in Nonces
                          /\ Handshake(Joined(cp'), cp'.cpr, CpCrypt(cp'), pd', toPd', toCp')
    BY <1>2, <1>3, SessionMoves
  <1>5. Shapes' /\ Names'
    BY <1>1, <1>2, <1>3 DEF Shapes, Frame, Names, Named, Commands, Garbled, Packet
  <1> QED  BY <1>4, <1>5 DEF SessionInv

LEMMA SessionReader ==
    ASSUME SessionInv, PdReceive
    PROVE  SessionInv'
  <1>1. /\ Shapes /\ Names
        /\ InSession(cp) => /\ cp.cpr \in Nonces
                            /\ Handshake(Joined(cp), cp.cpr, CpCrypt(cp), pd, toPd, toCp)
    BY DEF SessionInv
  <1>2. /\ toPd # <<>> /\ toPd' = Tail(toPd)
        /\ ReaderStep(Head(toPd), pd, pd', toCp, toCp')
    BY <1>1, ReaderReceives
  <1>3. UNCHANGED <<cp, cpq, cmds>>
    BY DEF PdReceive, cpSide, submitted
  <1>4. /\ IsSeq(toPd) /\ IsSeq(Tail(toPd)) /\ Len(toPd) \in Nat \ {0}
        /\ Len(Tail(toPd)) = Len(toPd) - 1
        /\ \A i \in 1..(Len(toPd) - 1) : Tail(toPd)[i] = toPd[i + 1]
        /\ Head(toPd) = toPd[1]
    BY <1>1, <1>2, TailOf DEF Shapes, Frame
  <1>5. /\ \A i \in 1..Len(toPd') : i + 1 \in 1..Len(toPd) /\ toPd'[i] = toPd[i + 1]
        /\ 1 \in 1..Len(toPd)
    BY <1>2, <1>4
  <1>6. Head(toPd).id = "SCRYPT" => Head(toPd).auth[2] # 0
    BY <1>1, <1>4, <1>5 DEF Names, Named
  <1>7. cp.rb \in 0..Len(toCp')
    <2>1. Len(toCp) \in Nat /\ Len(toCp') \in Nat /\ Len(toCp) <= Len(toCp')
      BY <1>1, <1>2, Appended DEF Shapes, Frame, ReaderStep
    <2> QED  BY <1>1, <2>1 DEF Shapes, Frame
  <1>8. Shapes'
    BY <1>1, <1>2, <1>3, <1>4, <1>5, <1>7 DEF Shapes, Frame, ReaderStep, Commands, Garbled, Packet
  <1>9. Names'
    BY <1>1, <1>2, <1>5 DEF Names, Named, ReaderStep
  <1>10. ASSUME InSession(cp)
         PROVE  Handshake(Joined(cp), cp.cpr, CpCrypt(cp), pd', toPd', toCp')
    <2>1. cp.cpr # 0 /\ Joined(cp) \in BOOLEAN /\ (pd.sc => pd.cpr # 0)
      BY <1>1, <1>10 DEF Joined, Shapes, Frame, CpOk, CpFine, Names, LinkAssumption
    <2>2. ReaderTurns(Head(toPd), pd, pd') /\ ReaderAnswers(Head(toPd), pd', toCp, toCp')
      BY <1>2 DEF ReaderStep
    <2> QED  BY <1>1, <1>2, <1>4, <1>6, <1>10, <2>1, <2>2, ReaderTakes
  <1> QED  BY <1>1, <1>3, <1>8, <1>9, <1>10 DEF SessionInv, InSession, Joined, CpCrypt, CpSessionKey

\* The reader forgets its session, or everything.
LEMMA SessionEnds ==
    ASSUME SessionInv, PdScTimeout \/ PdReset
    PROVE  SessionInv'
  <1>1. /\ Shapes /\ Names
        /\ InSession(cp) => /\ cp.cpr \in Nonces
                            /\ Handshake(Joined(cp), cp.cpr, CpCrypt(cp), pd, toPd, toCp)
    BY DEF SessionInv
  <1>2. UNCHANGED <<cp, cpq, cmds, toCp>>
    BY DEF PdScTimeout, PdReset, cpSide, submitted
  <1>3. ASSUME NEW n, NEW k, NEW j, Handshake(j, n, k, pd, toPd, toCp), DOMAIN pd = PdFields
        PROVE  /\ Handshake(j, n, k, pd', toPd', toCp)
               /\ DOMAIN pd' = PdFields /\ ~pd'.sc /\ pd'.cpr \in {pd.cpr, 0}
               /\ toPd' \in {toPd, <<>>}
    <2>1. CASE PdScTimeout
      <3>1. pd' = [pd EXCEPT !.sc = FALSE] /\ toPd' = toPd
        BY <2>1 DEF PdScTimeout
      <3>2. DOMAIN pd' = PdFields /\ ~pd'.sc /\ pd'.cpr = pd.cpr
        BY <1>3, <3>1 DEF PdFields
      <3> QED  BY <1>3, <3>1, <3>2 DEF Handshake, SameSession
    <2>2. CASE PdReset
      <3>1. pd' = PdBoot /\ toPd' = <<>>
        BY <2>2 DEF PdReset
      <3>2. DOMAIN pd' = PdFields /\ ~pd'.sc /\ pd'.cpr = 0
        BY <3>1 DEF PdBoot, PdFields
      <3>3. \A i \in 1..Len(toPd') : FALSE
        BY <3>1
      <3> QED  BY <1>3, <3>1, <3>2, <3>3
               DEF Handshake, SameSession, InOrder, NoOlder, OwnProof
    <2> QED  BY <2>1, <2>2
  <1>4. /\ DOMAIN pd' = PdFields /\ ~pd'.sc /\ pd'.cpr \in {pd.cpr, 0} /\ toPd' \in {toPd, <<>>}
    <2>1. CASE PdScTimeout
      BY <1>1, <2>1 DEF PdScTimeout, Shapes, Frame, PdFields
    <2>2. CASE PdReset
      BY <2>2 DEF PdReset, PdBoot, PdFields
    <2> QED  BY <2>1, <2>2
  <1>5. IsSeq(toPd')
    <2>1. <<>> \in Seq({})
      OBVIOUS
    <2> QED  BY <1>1, <1>4, <2>1 DEF Shapes, Frame, IsSeq
  <1>6. \A i \in 1..Len(toPd') : i \in 1..Len(toPd) /\ toPd'[i] = toPd[i]
    BY <1>4
  <1>7. Shapes' /\ Names'
    BY <1>1, <1>2, <1>4, <1>5, <1>6 DEF Shapes, Frame, Names, Named, Commands, Garbled, Packet
  <1> QED  BY <1>1, <1>2, <1>3, <1>7
           DEF SessionInv, Shapes, Frame, InSession, Joined, CpCrypt, CpSessionKey

\* The applications submit.
LEMMA SessionApplications ==
    ASSUME SessionInv,
           \/ PdSubmit \/ UNCHANGED vars
           \/ \E kind \in PlainCmds : CpSubmit(kind)
           \/ \E k \in NewKeys : CpSubmitKeyset(k)
    PROVE  SessionInv'
  <1>1. UNCHANGED <<cp, pd, toPd, toCp>>
    BY DEF PdSubmit, CpSubmit, CpSubmitKeyset, vars, cpSide, pdSide
  <1>2. Commands
    BY DEF SessionInv, Shapes, Frame
  <1>3. Commands'
    <2>1. CASE UNCHANGED <<cpq, cmds>>
      BY <1>2, <2>1 DEF Commands
    <2>2. CASE ~UNCHANGED <<cpq, cmds>>
      BY <1>2, <2>2, QueueGrown DEF PdSubmit, vars, cpSide, submitted
    <2> QED  BY <2>1, <2>2
  <1> QED  BY <1>1, <1>3
           DEF SessionInv, Shapes, Frame, Names, InSession, Joined, CpCrypt, CpSessionKey

LEMMA SessionKept ==
    ASSUME SessionInv, ~IsFiniteSet(Nonces), [Next]_vars
    PROVE  SessionInv'
  <1>1. CASE UNCHANGED vars
    BY <1>1, SessionApplications
  <1>2. CASE NotThePanel
    BY <1>2, SessionApplications, SessionReader, SessionEnds DEF NotThePanel
  <1>3. CASE Next /\ ~NotThePanel
    BY <1>3, StepsOfNext, SessionTransmits, SessionReceives, SessionWaits
  <1> QED  BY <1>1, <1>2, <1>3

LEMMA SessionInit == Init => SessionInv
  <1> SUFFICES ASSUME Init PROVE SessionInv
    OBVIOUS
  <1>1. cp = CpBoot /\ cpq = <<>> /\ pd = PdBoot /\ toPd = <<>> /\ toCp = <<>> /\ cmds = <<>>
    BY DEF Init
  <1>2. Shapes
    BY <1>1 DEF CpBoot, PdBoot, Shapes, Frame, CpOk, CpFine, CpFields, PdFields, States, CmdIds,
                InHand, IsSeq, Commands
  <1>3. Names /\ ~InSession(cp)
    BY <1>1 DEF CpBoot, PdBoot, Names, Named, InSession, Joined
  <1> QED  BY <1>2, <1>3 DEF SessionInv

\* Two ends that both hold their session active hold the same session, of the same keys and
\* random numbers, whatever was lost, late or restarted (osdp_sc.c, cp_decode_response,
\* pd_decode_command), as long as random numbers do not run out.
THEOREM SameSessions ==
    ASSUME ~IsFiniteSet(Nonces)
    PROVE  Spec => []SessionsAgree
  <1>1. Init => SessionInv
    BY SessionInit
  <1>2. SessionInv /\ [Next]_vars => SessionInv'
    BY SessionKept
  <1>3. SessionInv => SessionsAgree
    <2> SUFFICES ASSUME SessionInv, cp.sc, pd.sc
                 PROVE  CpCrypt(cp) = PdCrypt(pd)
      BY DEF SessionsAgree
    <2>1. Joined(cp) /\ InSession(cp)
      BY DEF Joined, InSession
    <2>2. pd.cpr \in {cp.cpr, 0} /\ pd.cpr # 0
      BY <2>1 DEF SessionInv, Handshake, Names
    <2> QED  BY <2>1, <2>2 DEF SessionInv, Handshake, SameSession
  <1> QED  BY <1>1, <1>2, <1>3, PTL DEF Spec

-----------------------------------------------------------------------------

(* What goes through the queues and over the line                          *)

\* A reply that no panel takes for a card read.
NoRead(x) == x.id # "RAW" /\ (x.id = "LSTATR" => x.data.kind # "event")

\* The reader sends x, or nothing of it; with a read, that is the oldest in the queue.
Answers(p, x) ==
    /\ toCp' \in {toCp, Append(toCp, x)}
    /\ \/ NoRead(x) /\ (pdq' = pdq \/ (pdq # <<>> /\ pdq' = Tail(pdq)))
       \/ /\ pdq # <<>> /\ pdq' = Tail(pdq)
          /\ x.id = "RAW" /\ x.data = EventData(Head(pdq))
    /\ \/ executed' = executed
       \/ /\ p.id \in PlainCmds
          /\ \E ok \in BOOLEAN : executed' = Append(executed, <<p.data.val, ok>>)

LEMMA SendsOne ==
    ASSUME NEW d, NEW id, NEW data, NEW chained, PdSendReply(d, id, data, chained)
    PROVE  \E x : /\ toCp' \in {toCp, Append(toCp, x)}
                  /\ x = Garbled \/ (x.id = id /\ x.data = data)
  <1>1. PICK r : Transmit(toCp, r) /\ r.id = id /\ r.data = data
    BY DEF PdSendReply, PdSend, Packet
  <1> QED  BY <1>1 DEF Transmit

LEMMA AnswersPlainly ==
    ASSUME NEW p, NEW d, NEW id, id \notin {"RAW", "LSTATR"}, NEW data, NEW chained,
           PdSendReply(d, id, data, chained), UNCHANGED <<pdq, executed>>
    PROVE  \E x : Answers(p, x)
  <1>1. PICK x : /\ toCp' \in {toCp, Append(toCp, x)}
                 /\ x = Garbled \/ (x.id = id /\ x.data = data)
    BY SendsOne
  <1>2. NoRead(x)
    BY <1>1 DEF NoRead, Garbled, Packet
  <1> QED  BY <1>1, <1>2 DEF Answers

LEMMA AnswersRefusal ==
    ASSUME NEW p, NEW d, NEW id \in {"NAK", "PDID", "PDCAP"}, PdAnswer(d, id) \/ PdRefuse(d)
    PROVE  \E x : Answers(p, x)
  BY AnswersPlainly DEF PdAnswer, PdRefuse, PdReply

LEMMA AnswersPoll ==
    ASSUME NEW p, NEW d, PdPoll(d)
    PROVE  \E x : Answers(p, x)
  <1>1. CASE pdq = <<>>
    BY <1>1, AnswersPlainly DEF PdPoll, PdReply
  <1>2. CASE pdq # <<>>
    <2>1. /\ PdSendReply(d, "RAW", EventData(Head(pdq)), d.seq)
          /\ pdq' = Tail(pdq) /\ executed' = executed
      BY <1>2 DEF PdPoll, PdReply
    <2>2. PICK x : /\ toCp' \in {toCp, Append(toCp, x)}
                   /\ x = Garbled \/ (x.id = "RAW" /\ x.data = EventData(Head(pdq)))
      BY <2>1, SendsOne
    <2>3. NoRead(Garbled)
      BY DEF NoRead, Garbled, Packet
    <2> QED  BY <1>2, <2>1, <2>2, <2>3 DEF Answers
  <1> QED  BY <1>1, <1>2

LEMMA AnswersCommand ==
    ASSUME NEW p, p.id \in PlainCmds, NEW d, PdCommand(d, p)
    PROVE  \E x : Answers(p, x)
  <1>1. PICK ok \in BOOLEAN :
          LET r == IF ok THEN CmdReply(p) ELSE RefusedReply(p) IN
          /\ executed' = Append(executed, <<p.data.val, ok>>)
          /\ PdSendReply(d, r.id, r.data, d.seq)
          /\ pdq' = pdq
    BY DEF PdCommand
  <1> DEFINE r == IF ok THEN CmdReply(p) ELSE RefusedReply(p)
  <1>2. NoRead(r)
    BY DEF NoRead, CmdReply, RefusedReply, StatusData
  <1> HIDE DEF r
  <1>3. PICK id, data, seq : /\ id = r.id /\ data = r.data
                             /\ PdSendReply(d, id, data, seq)
    BY <1>1 DEF r
  <1>4. PICK x : /\ toCp' \in {toCp, Append(toCp, x)}
                 /\ x = Garbled \/ (x.id = id /\ x.data = data)
    BY <1>3, SendsOne
  <1>5. NoRead(x)
    BY <1>2, <1>3, <1>4 DEF NoRead, Garbled, Packet
  <1> QED  BY <1>1, <1>4, <1>5 DEF Answers

LEMMA AnswersExecuted ==
    ASSUME NEW p, p.id \in CmdIds, NEW d, PdExecute(d, p)
    PROVE  \E x : Answers(p, x)
  <1>1. CASE PdKeyset(d, p)
    <2>1. CASE d.sc
      <3>1. PdSendReply(d, "ACK", NoData, d.seq) /\ UNCHANGED <<pdq, executed>>
        BY <1>1, <2>1 DEF PdKeyset
      <3> QED  BY <3>1, AnswersPlainly
    <2>2. CASE ~d.sc
      BY <1>1, <2>2, AnswersRefusal DEF PdKeyset
    <2> QED  BY <2>1, <2>2
  <1>2. ASSUME NEW e, NEW id, id \in {"CCRYPT", "RMAC_I"}, NEW auth,
               PdSend(e, id, "hs", auth, NoData), UNCHANGED <<pdq, executed>>
        PROVE  \E x : Answers(p, x)
    <2>1. PICK r : Transmit(toCp, r) /\ r.id = id
      BY <1>2 DEF PdSend, Packet
    <2>2. toCp' \in {toCp, Append(toCp, r)} \/ toCp' \in {toCp, Append(toCp, Garbled)}
      BY <2>1 DEF Transmit
    <2>3. NoRead(r) /\ NoRead(Garbled)
      BY <1>2, <2>1 DEF NoRead, Garbled, Packet
    <2>4. Answers(p, r) \/ Answers(p, Garbled)
      BY <1>2, <2>2, <2>3 DEF Answers
    <2> QED  BY <2>4
  <1>3. CASE PdChlng(d, p)
    BY <1>2, <1>3 DEF PdChlng
  <1>4. CASE PdScrypt(d, p)
    BY <1>2, <1>4, AnswersRefusal DEF PdScrypt
  <1>5. CASE p.id \in PlainCmds /\ PdCommand(d, p)
    BY <1>5, AnswersCommand
  <1>6. \/ \E id \in {"NAK", "PDID", "PDCAP"} : PdAnswer(d, id)
        \/ PdPoll(d)
        \/ PdKeyset(d, p)
        \/ PdChlng(d, p)
        \/ PdScrypt(d, p)
        \/ p.id \in PlainCmds /\ PdCommand(d, p)
    <2>1. CASE Enforce /\ ~d.sc /\ p.id \notin {"ID", "CAP", "CHLNG", "SCRYPT"}
      BY <2>1 DEF PdExecute
    <2>2. CASE ~(Enforce /\ ~d.sc /\ p.id \notin {"ID", "CAP", "CHLNG", "SCRYPT"})
      BY <2>2 DEF PdExecute, CmdIds, PlainCmds
    <2> QED  BY <2>1, <2>2
  <1> QED  BY <1>1, <1>3, <1>4, <1>5, <1>6, AnswersPoll, AnswersRefusal

LEMMA AnswersReceived ==
    ASSUME Frame, PdReceive
    PROVE  /\ toPd # <<>> /\ toPd' = Tail(toPd)
           /\ UNCHANGED <<cpSide, submitted>>
           /\ \E x : Answers(Head(toPd), x)
  <1> DEFINE p == Head(toPd)
             d == PdSeq(pd, p)
  <1>1. /\ toPd # <<>> /\ toPd' = Tail(toPd) /\ UNCHANGED <<cpSide, submitted>>
        /\ \/ p = Garbled /\ UNCHANGED <<pdq, executed, toCp>>
           \/ UNCHANGED <<pdq, executed, toCp>>
           \/ p # Garbled /\ (PdDecode(d, p) \/ PdRefuse(d))
    BY DEF PdReceive, pdSide
  <1>2. p = Garbled \/ p.id \in CmdIds
    <2>1. p = toPd[1] /\ 1 \in 1..Len(toPd)
      BY <1>1, TailOf DEF Frame
    <2> QED  BY <2>1 DEF Frame
  <1> HIDE DEF p, d
  <1>3. CASE UNCHANGED <<pdq, executed, toCp>>
    <2>1. NoRead(Garbled)
      BY DEF NoRead, Garbled, Packet
    <2>2. Answers(p, Garbled)
      BY <1>3, <2>1 DEF Answers
    <2> QED  BY <1>1, <2>2 DEF p
  <1>4. CASE p # Garbled /\ PdRefuse(d)
    BY <1>1, <1>4, AnswersRefusal DEF p
  <1>5. CASE p # Garbled /\ PdDecode(d, p)
    <2>1. \/ \E e : PdExecute(e, p)
          \/ \E e : PdRefuse(e)
      BY <1>5 DEF PdDecode
    <2>2. CASE \E e : PdExecute(e, p)
      BY <1>1, <1>2, <1>5, <2>2, AnswersExecuted DEF p
    <2>3. CASE \E e : PdRefuse(e)
      BY <1>1, <2>3, AnswersRefusal DEF p
    <2> QED  BY <2>1, <2>2, <2>3
  <1> QED  BY <1>1, <1>3, <1>4, <1>5

-----------------------------------------------------------------------------

LEMMA FrameTransmits ==
    ASSUME Frame, CpSetup \/ CpOnline \/ CpResend
    PROVE  Frame'
  <1>1. /\ Kept(cp, cp') /\ (toCp' = toCp \/ toCp' = SubSeq(toCp, 1, cp.rb))
        /\ cp'.cmd \in CmdIds /\ InHand(cp') /\ CpOk(cp')
        /\ toPd' \in {toPd, Append(toPd, Garbled), Append(toPd, CpPacket(cp'))}
    BY PanelTransmits, KeptFine DEF Frame, Ready
  <1>2. cmds' = cmds /\ (cpq' = cpq \/ (cpq # <<>> /\ cpq' = Tail(cpq)))
    BY DEF CpSetup, CpOnline, CpResend, submitted
  <1>3. Commands'
    <2>1. CASE cpq' = cpq
      BY <1>2, <2>1 DEF Frame, Commands
    <2> QED  BY <1>2, <2>1, QueueTaken DEF Frame
  <1>4. IsSeq(toPd) /\ IsSeq(toCp) /\ cp.rb \in 0..Len(toCp)
    BY DEF Frame
  <1>5. IsSeq(toCp') /\ cp'.rb \in 0..Len(toCp')
    <2>1. CASE toCp' = toCp
      BY <1>1, <1>4, <2>1 DEF Kept
    <2>2. CASE toCp' = SubSeq(toCp, 1, cp.rb)
      <3>1. cp.rb \in 0..cp.rb
        BY <1>4, Appended
      <3> QED  BY <1>1, <1>4, <2>2, <3>1, Prefix DEF Kept
    <2> QED  BY <1>1, <2>1, <2>2
  <1>6. CpPacket(cp').id \in CmdIds
    BY <1>1 DEF CpPacket, Packet
  <1>7. ASSUME NEW p, toPd' = Append(toPd, p), p = Garbled \/ p.id \in CmdIds
        PROVE  /\ IsSeq(toPd')
               /\ \A i \in 1..Len(toPd') : toPd'[i] = Garbled \/ toPd'[i].id \in CmdIds
    <2>1. /\ IsSeq(toPd') /\ Len(toPd) \in Nat /\ Len(toPd') = Len(toPd) + 1
          /\ \A i \in 1..Len(toPd) : toPd'[i] = toPd[i]
          /\ toPd'[Len(toPd) + 1] = p
      BY <1>4, <1>7, Appended
    <2>2. \A i \in 1..Len(toPd') : \/ i \in 1..Len(toPd) /\ toPd'[i] = toPd[i]
                                   \/ toPd'[i] = p
      BY <2>1
    <2> QED  BY <1>7, <2>1, <2>2 DEF Frame
  <1>8. /\ IsSeq(toPd')
        /\ \A i \in 1..Len(toPd') : toPd'[i] = Garbled \/ toPd'[i].id \in CmdIds
    <2>1. CASE toPd' = toPd
      BY <2>1 DEF Frame
    <2> QED  BY <1>1, <1>6, <1>7, <2>1
  <1>9. Garbled' = Garbled
    BY DEF Garbled, Packet
  <1> QED  BY <1>1, <1>3, <1>5, <1>8, <1>9 DEF Frame

LEMMA FrameReads ==
    ASSUME Frame, PdReceive
    PROVE  Frame'
  <1>1. /\ toPd # <<>> /\ toPd' = Tail(toPd) /\ UNCHANGED <<cpSide, submitted>>
        /\ \E x : toCp' \in {toCp, Append(toCp, x)}
    BY AnswersReceived DEF Answers
  <1>2. /\ IsSeq(toCp) /\ Len(toCp) \in Nat /\ cp.rb \in 0..Len(toCp)
    BY Appended DEF Frame
  <1>3. IsSeq(toCp') /\ Len(toCp') \in Nat /\ Len(toCp) <= Len(toCp')
    <2>1. CASE toCp' = toCp
      BY <1>2, <2>1
    <2>2. ASSUME NEW x, toCp' = Append(toCp, x)
          PROVE  IsSeq(toCp') /\ Len(toCp') \in Nat /\ Len(toCp) <= Len(toCp')
      <3>1. IsSeq(toCp') /\ Len(toCp') = Len(toCp) + 1
        BY <1>2, <2>2, Appended
      <3> QED  BY <1>2, <3>1
    <2> QED  BY <1>1, <2>1, <2>2
  <1>4. cp'.rb \in 0..Len(toCp')
    BY <1>1, <1>2, <1>3 DEF cpSide
  <1>5. /\ IsSeq(toPd')
        /\ \A i \in 1..Len(toPd') : toPd'[i] = Garbled \/ toPd'[i].id \in CmdIds
    <2>1. /\ IsSeq(Tail(toPd)) /\ Len(toPd) \in Nat \ {0} /\ Len(Tail(toPd)) = Len(toPd) - 1
          /\ \A i \in 1..(Len(toPd) - 1) : Tail(toPd)[i] = toPd[i + 1]
      BY <1>1, TailOf DEF Frame
    <2>2. \A i \in 1..Len(toPd') : i + 1 \in 1..Len(toPd) /\ toPd'[i] = toPd[i + 1]
      BY <1>1, <2>1
    <2> QED  BY <1>1, <2>1, <2>2 DEF Frame
  <1>6. Garbled' = Garbled /\ UNCHANGED <<cp, cpq, cmds>>
    BY <1>1 DEF Garbled, Packet, cpSide, submitted
  <1> QED  BY <1>3, <1>4, <1>5, <1>6 DEF Frame, Commands

LEMMA FrameKept ==
    ASSUME Frame, [Next]_vars
    PROVE  Frame'
  <1>1. Garbled' = Garbled
    BY DEF Garbled, Packet
  <1>2. CASE CpReceive
    <2>1. /\ CpOk(cp') /\ cp'.phy = "idle" /\ cp'.rb = Len(toCp) - 1 /\ cp'.cmd = cp.cmd
          /\ toCp # <<>> /\ toCp' = Tail(toCp)
      BY <1>2, PanelReceives DEF Frame
    <2>2. UNCHANGED <<toPd, cmds, cpq>>
      BY <1>2 DEF CpReceive, submitted
    <2>3. IsSeq(toCp') /\ cp'.rb \in 0..Len(toCp')
      BY <2>1, TailOf DEF Frame
    <2> QED  BY <1>1, <2>1, <2>2, <2>3 DEF Frame, InHand, Commands
  <1>3. CASE CpTimeout \/ CpRetryOnline \/ CpRetrySc
    <2>1. /\ CpOk(cp') /\ cp'.cmd = cp.cmd /\ cp'.rb = cp.rb /\ InHand(cp')
          /\ toCp' = toCp /\ toPd' = toPd
      BY <1>3, PanelMoves DEF Frame
    <2>2. UNCHANGED <<cmds, cpq>>
      BY <1>3 DEF CpTimeout, CpRetryOnline, CpRetrySc, submitted
    <2> QED  BY <1>1, <2>1, <2>2 DEF Frame, Commands
  <1>4. CASE \/ \E kind \in PlainCmds : CpSubmit(kind)
             \/ \E k \in NewKeys : CpSubmitKeyset(k)
    <2>1. UNCHANGED <<cp, toPd, toCp>>
      BY <1>4 DEF CpSubmit, CpSubmitKeyset
    <2> QED  BY <1>1, <1>4, <2>1, QueueGrown DEF Frame
  <1>5. CASE PdSubmit \/ PdScTimeout \/ UNCHANGED vars
    <2>1. UNCHANGED <<cp, cpq, cmds, toPd, toCp>>
      BY <1>5 DEF PdSubmit, PdScTimeout, vars, cpSide, submitted
    <2> QED  BY <1>1, <2>1 DEF Frame, Commands
  <1>6. CASE PdReset
    <2>1. UNCHANGED <<cp, cpq, cmds, toCp>> /\ toPd' = <<>>
      BY <1>6 DEF PdReset, cpSide, submitted
    <2>2. IsSeq(toPd') /\ 1..Len(toPd') = {}
      <3>1. <<>> \in Seq({})
        OBVIOUS
      <3> QED  BY <2>1, <3>1 DEF IsSeq
    <2> QED  BY <1>1, <2>1, <2>2 DEF Frame, Commands
  <1> QED  BY <1>2, <1>3, <1>4, <1>5, <1>6, StepsOfNext, FrameTransmits, FrameReads
           DEF NotThePanel

LEMMA FrameInit == Init => Frame
  BY SessionInit DEF SessionInv, Shapes

-----------------------------------------------------------------------------

(* No read is given twice, or after a later one                            *)

\* The reads that have been given, the one that waits in the panel to be given, those on the
\* line and those in the reader's queue are each later than the ones before: up to m, n and k.
GivenUpTo(r, m) ==
    /\ r \in Seq(Nat)
    /\ \A j \in 1..Len(r) :
         r[j] # 0 => r[j] <= m /\ \A i \in 1..Len(r) : i < j => r[i] < r[j]
HeldUpTo(c, m, n) == c.evreq /\ c.data.kind = "event" => c.data.val \in (m + 1)..n
LineUpTo(in, n, k) ==
    \A i \in 1..Len(in) :
        /\ in[i].id = "RAW" =>
             /\ in[i].data.kind = "event" /\ in[i].data.val \in (n + 1)..k
             /\ \A j \in 1..Len(in) :
                  i < j /\ in[j].id = "RAW" => in[i].data.val < in[j].data.val
        /\ in[i].id = "LSTATR" => in[i].data.kind # "event"
QueueUpTo(q, k, e) ==
    \A i \in 1..Len(q) : q[i] \in (k + 1)..e /\ \A j \in 1..Len(q) : i < j => q[i] < q[j]

PanelReads(m, n) ==
    /\ DOMAIN delivered = {"reads", "reports"}
    /\ GivenUpTo(delivered.reads, m) /\ HeldUpTo(cp, m, n)
ReaderReads(n, k) ==
    /\ events \in Nat /\ k <= events /\ IsSeq(pdq)
    /\ LineUpTo(toCp, n, k) /\ QueueUpTo(pdq, k, events)
NoneQueued == \A i \in 1..Len(cpq) : cpq[i].kind \in {"cmd", "key"}

ReadsInv ==
    /\ Frame /\ NoneQueued
    /\ \E m, n, k \in Nat : m <= n /\ n <= k /\ PanelReads(m, n) /\ ReaderReads(n, k)

LEMMA GivenMore ==
    ASSUME NEW r, NEW m \in Nat, GivenUpTo(r, m), NEW m2 \in Nat, m <= m2,
           NEW v \in Nat, v = 0 \/ v \in (m + 1)..m2
    PROVE  GivenUpTo(Append(r, v), m2)
  <1> DEFINE s == Append(r, v)
  <1>1. /\ r \in Seq(Nat) /\ s \in Seq(Nat) /\ Len(r) \in Nat /\ Len(s) = Len(r) + 1
        /\ \A i \in 1..Len(r) : s[i] = r[i] /\ r[i] \in Nat
        /\ s[Len(r) + 1] = v
    <2>1. r \in Seq(Nat)
      BY DEF GivenUpTo
    <2> QED  BY ONLY <2>1, v \in Nat
  <1> HIDE DEF s
  <1>2. ASSUME NEW i \in 1..Len(r)
        PROVE  s[i] \in Nat /\ s[i] <= m
    <2>1. s[i] = r[i] /\ s[i] \in Nat
      BY <1>1
    <2>2. s[i] # 0 => s[i] <= m
      BY <2>1 DEF GivenUpTo
    <2> QED  BY <2>1, <2>2
  <1>3. ASSUME NEW j \in 1..Len(s), s[j] # 0
        PROVE  s[j] <= m2 /\ \A i \in 1..Len(s) : i < j => s[i] < s[j]
    <2>1. CASE j = Len(r) + 1
      <3>1. s[j] \in (m + 1)..m2
        BY <1>1, <1>3, <2>1
      <3>2. \A i \in 1..Len(s) : i < j => i \in 1..Len(r)
        BY <1>1, <2>1
      <3>3. ASSUME NEW i \in 1..Len(s), i < j
            PROVE  s[i] < s[j]
        <4> DEFINE a == s[i]
                   b == s[j]
        <4>1. a \in Nat /\ a <= m /\ b \in (m + 1)..m2
          BY <1>2, <3>1, <3>2, <3>3
        <4> HIDE DEF a, b
        <4>2. a < b
          BY <4>1
        <4> QED  BY <4>2 DEF a, b
      <3>4. s[j] <= m2
        BY <3>1
      <3> QED  BY <3>3, <3>4
    <2>2. CASE j # Len(r) + 1
      <3>1. j \in 1..Len(r)
        BY <1>1, <2>2
      <3>2. s[j] = r[j] /\ (\A i \in 1..Len(s) : i < j => i \in 1..Len(r))
        <4>1. s[j] = r[j]
          BY <1>1, <3>1
        <4>2. \A i \in 1..Len(s) : i < j => i \in 1..Len(r)
          BY <1>1, <3>1
        <4> QED  BY <4>1, <4>2
      <3>3. s[j] <= m /\ \A i \in 1..Len(r) : i < j => s[i] < s[j]
        BY <1>1, <1>3, <3>1, <3>2 DEF GivenUpTo
      <3>4. s[j] <= m2
        BY <1>2, <3>1, <3>3
      <3> QED  BY <3>2, <3>3, <3>4
    <2> QED  BY <2>1, <2>2
  <1>4. GivenUpTo(s, m2)
    BY <1>1, <1>3 DEF GivenUpTo
  <1> QED  BY <1>4 DEF s

LEMMA LineMore ==
    ASSUME NEW in, IsSeq(in), NEW n \in Nat, NEW k \in Nat, NEW k2 \in Nat, n <= k, k <= k2,
           LineUpTo(in, n, k), NEW x,
           \/ NoRead(x)
           \/ x.id = "RAW" /\ x.data.kind = "event" /\ x.data.val \in (k + 1)..k2
    PROVE  LineUpTo(Append(in, x), n, k2)
  <1> DEFINE s == Append(in, x)
  <1>1. /\ Len(in) \in Nat /\ Len(s) = Len(in) + 1
        /\ \A i \in 1..Len(in) : s[i] = in[i]
        /\ s[Len(in) + 1] = x
    BY Appended
  <1> HIDE DEF s
  <1>2. \A i \in 1..Len(s) : \/ i \in 1..Len(in) /\ s[i] = in[i]
                             \/ i = Len(in) + 1 /\ s[i] = x
    BY <1>1
  <1>3. ASSUME NEW i \in 1..Len(s), s[i].id = "RAW"
        PROVE  /\ s[i].data.kind = "event" /\ s[i].data.val \in (n + 1)..k2
               /\ \A j \in 1..Len(s) :
                    i < j /\ s[j].id = "RAW" => s[i].data.val < s[j].data.val
    <2>1. CASE i \in 1..Len(in) /\ s[i] = in[i]
      <3>1. /\ s[i].data.kind = "event" /\ s[i].data.val \in (n + 1)..k
            /\ \A j \in 1..Len(in) :
                  i < j /\ in[j].id = "RAW" => s[i].data.val < in[j].data.val
        BY <1>3, <2>1 DEF LineUpTo
      <3>2. ASSUME NEW j \in 1..Len(s), i < j, s[j].id = "RAW"
            PROVE  s[i].data.val < s[j].data.val
        <4>1. CASE j \in 1..Len(in) /\ s[j] = in[j]
          BY <3>1, <3>2, <4>1
        <4>2. CASE s[j] = x
          <5> DEFINE a == s[i].data.val
                     b == s[j].data.val
          <5>1. a \in (n + 1)..k /\ b \in (k + 1)..k2
            BY <3>1, <3>2, <4>2 DEF NoRead
          <5> HIDE DEF a, b
          <5>2. a < b
            BY ONLY <5>1, n \in Nat, k \in Nat, k2 \in Nat
          <5> QED  BY <5>2 DEF a, b
        <4> QED  BY <1>2, <4>1, <4>2
      <3> QED  BY <3>1, <3>2
    <2>2. CASE i = Len(in) + 1 /\ s[i] = x
      <3>1. s[i].data.kind = "event" /\ s[i].data.val \in (k + 1)..k2
        BY <1>3, <2>2 DEF NoRead
      <3>2. \A j \in 1..Len(s) : ~(i < j)
        BY ONLY <1>1, <2>2
      <3>3. s[i].data.val \in (n + 1)..k2
        BY ONLY <3>1, n \in Nat, k \in Nat, k2 \in Nat, n <= k
      <3> QED  BY <3>1, <3>2, <3>3
    <2> QED  BY <1>2, <2>1, <2>2
  <1>4. ASSUME NEW i \in 1..Len(s), s[i].id = "LSTATR"
        PROVE  s[i].data.kind # "event"
    BY <1>2, <1>4 DEF LineUpTo, NoRead
  <1>5. LineUpTo(s, n, k2)
    BY <1>3, <1>4 DEF LineUpTo
  <1> QED  BY <1>5 DEF s

LEMMA LineLess ==
    ASSUME NEW in, IsSeq(in), NEW l \in 0..Len(in), NEW n, NEW k, LineUpTo(in, n, k)
    PROVE  LineUpTo(SubSeq(in, 1, l), n, k)
  <1> DEFINE s == SubSeq(in, 1, l)
  <1>1. /\ Len(s) = l /\ \A i \in 1..l : s[i] = in[i]
        /\ \A i \in 1..l : i \in 1..Len(in)
    <2>1. Len(in) \in Nat
      BY Appended
    <2>2. l \in Nat /\ l <= Len(in)
      BY <2>1
    <2> QED  BY <2>1, <2>2, Prefix
  <1> HIDE DEF s
  <1>2. LineUpTo(s, n, k)
    BY <1>1 DEF LineUpTo
  <1> QED  BY <1>2 DEF s

LEMMA LineRead ==
    ASSUME NEW in, IsSeq(in), in # <<>>, NEW n \in Nat, NEW k \in Nat, LineUpTo(in, n, k)
    PROVE  /\ LineUpTo(Tail(in), n, k)
           /\ Head(in).id = "RAW" =>
                /\ Head(in).data.kind = "event" /\ Head(in).data.val \in (n + 1)..k
                /\ LineUpTo(Tail(in), Head(in).data.val, k)
           /\ Head(in).id = "LSTATR" => Head(in).data.kind # "event"
  <1> DEFINE s == Tail(in)
             h == Head(in)
  <1>1. /\ Len(in) \in Nat \ {0} /\ Len(s) = Len(in) - 1
        /\ \A i \in 1..(Len(in) - 1) : s[i] = in[i + 1]
        /\ h = in[1]
    BY TailOf
  <1>2. /\ 1 \in 1..Len(in)
        /\ \A i \in 1..Len(s) : i + 1 \in 1..Len(in) /\ s[i] = in[i + 1] /\ 1 < i + 1
        /\ \A i, j \in 1..Len(s) : i < j => i + 1 < j + 1
    BY <1>1
  <1> HIDE DEF s, h
  <1>3. ASSUME NEW i \in 1..Len(s), s[i].id = "RAW"
        PROVE  /\ s[i].data.kind = "event" /\ s[i].data.val \in (n + 1)..k
               /\ \A j \in 1..Len(s) :
                    i < j /\ s[j].id = "RAW" => s[i].data.val < s[j].data.val
    BY <1>2, <1>3 DEF LineUpTo
  <1>4. \A i \in 1..Len(s) : s[i].id = "LSTATR" => s[i].data.kind # "event"
    BY <1>2 DEF LineUpTo
  <1>5. /\ h.id = "RAW" => h.data.kind = "event" /\ h.data.val \in (n + 1)..k
        /\ h.id = "LSTATR" => h.data.kind # "event"
    BY <1>1, <1>2 DEF LineUpTo
  <1>6. ASSUME h.id = "RAW", NEW i \in 1..Len(s), s[i].id = "RAW"
        PROVE  s[i].data.val \in (h.data.val + 1)..k
    <2> DEFINE a == h.data.val
               b == s[i].data.val
    <2>1. a < b
      BY <1>1, <1>2, <1>6 DEF LineUpTo
    <2>2. a \in (n + 1)..k /\ b \in (n + 1)..k
      BY <1>3, <1>5, <1>6
    <2> HIDE DEF a, b
    <2>3. b \in (a + 1)..k
      BY <2>1, <2>2
    <2> QED  BY <2>3 DEF a, b
  <1>7. LineUpTo(s, n, k)
    BY <1>3, <1>4 DEF LineUpTo
  <1>8. h.id = "RAW" => LineUpTo(s, h.data.val, k)
    BY <1>3, <1>4, <1>6 DEF LineUpTo
  <1> QED  BY <1>5, <1>7, <1>8 DEF s, h

LEMMA QueueRead ==
    ASSUME NEW q, IsSeq(q), q # <<>>, NEW k \in Nat, NEW e \in Nat, QueueUpTo(q, k, e)
    PROVE  /\ Head(q) \in (k + 1)..e /\ QueueUpTo(Tail(q), Head(q), e)
           /\ QueueUpTo(Tail(q), k, e) /\ IsSeq(Tail(q))
  <1> DEFINE s == Tail(q)
             h == Head(q)
  <1>1. /\ IsSeq(s) /\ Len(q) \in Nat \ {0} /\ Len(s) = Len(q) - 1
        /\ \A i \in 1..(Len(q) - 1) : s[i] = q[i + 1]
        /\ h = q[1]
    BY TailOf
  <1>2. /\ 1 \in 1..Len(q)
        /\ \A i \in 1..Len(s) : i + 1 \in 1..Len(q) /\ s[i] = q[i + 1] /\ 1 < i + 1
        /\ \A i, j \in 1..Len(s) : i < j => i + 1 < j + 1
    BY <1>1
  <1> HIDE DEF s, h
  <1>3. h \in (k + 1)..e
    BY <1>1, <1>2 DEF QueueUpTo
  <1>4. ASSUME NEW i \in 1..Len(s)
        PROVE  /\ s[i] \in (k + 1)..e /\ h < s[i]
               /\ \A j \in 1..Len(s) : i < j => s[i] < s[j]
    BY <1>1, <1>2 DEF QueueUpTo
  <1>5. ASSUME NEW i \in 1..Len(s)
        PROVE  s[i] \in (h + 1)..e
    <2>1. s[i] \in (k + 1)..e /\ h < s[i]
      BY <1>4
    <2> QED  BY ONLY <1>3, <2>1, k \in Nat, e \in Nat
  <1>6. QueueUpTo(s, k, e) /\ QueueUpTo(s, h, e)
    BY <1>4, <1>5 DEF QueueUpTo
  <1> QED  BY <1>1, <1>3, <1>6 DEF s, h

LEMMA QueueMore ==
    ASSUME NEW q, IsSeq(q), NEW k \in Nat, NEW e \in Nat, k <= e, QueueUpTo(q, k, e)
    PROVE  QueueUpTo(q, k, e + 1) /\ QueueUpTo(Append(q, e + 1), k, e + 1)
  <1> DEFINE s == Append(q, e + 1)
  <1>1. /\ Len(q) \in Nat /\ Len(s) = Len(q) + 1
        /\ \A i \in 1..Len(q) : s[i] = q[i]
        /\ s[Len(q) + 1] = e + 1
    BY Appended
  <1> HIDE DEF s
  <1>2. ASSUME NEW i \in 1..Len(q)
        PROVE  q[i] \in (k + 1)..(e + 1) /\ q[i] < e + 1
    <2>1. q[i] \in (k + 1)..e
      BY DEF QueueUpTo
    <2> QED  BY ONLY <2>1, k \in Nat, e \in Nat
  <1>3. ASSUME NEW i \in 1..Len(s)
        PROVE  s[i] \in (k + 1)..(e + 1) /\ \A j \in 1..Len(s) : i < j => s[i] < s[j]
    <2>1. CASE i = Len(q) + 1
      <3>1. s[i] = e + 1 /\ \A j \in 1..Len(s) : ~(i < j)
        BY ONLY <1>1, <2>1
      <3>2. e + 1 \in (k + 1)..(e + 1)
        BY ONLY k \in Nat, e \in Nat, k <= e
      <3> QED  BY <3>1, <3>2
    <2>2. CASE i # Len(q) + 1
      <3>1. i \in 1..Len(q) /\ s[i] = q[i]
        <4>1. i \in 1..Len(q)
          BY ONLY <1>1, <2>2, i \in 1..Len(s)
        <4> QED  BY <1>1, <4>1
      <3>2. ASSUME NEW j \in 1..Len(s), i < j
            PROVE  s[i] < s[j]
        <4>1. CASE j = Len(q) + 1
          BY <1>1, <1>2, <3>1, <4>1
        <4>2. CASE j # Len(q) + 1
          <5>1. j \in 1..Len(q) /\ s[j] = q[j]
            BY ONLY <1>1, <4>2, j \in 1..Len(s)
          <5> QED  BY <3>1, <3>2, <5>1 DEF QueueUpTo
        <4> QED  BY <4>1, <4>2
      <3> QED  BY <1>2, <3>1, <3>2
    <2> QED  BY <2>1, <2>2
  <1>4. QueueUpTo(s, k, e + 1) /\ QueueUpTo(q, k, e + 1)
    BY <1>2, <1>3 DEF QueueUpTo
  <1> QED  BY <1>4 DEF s

-----------------------------------------------------------------------------

\* What a transmission does with the command in hand.
TakesCommand ==
    \/ UNCHANGED cpq /\ cp'.data = cp.data
         /\ (cp'.cmd \in PlainCmds => cp.phy # "idle" /\ cp.cmd = cp'.cmd)
    \/ /\ cp.st = "ONLINE" /\ cpq # <<>> /\ cpq' = Tail(cpq) /\ cp'.data = Head(cpq)
       /\ cp'.phy # "idle" /\ cp'.cmd \in PlainCmds => Head(cpq).kind = "cmd"

LEMMA PanelTakes ==
    ASSUME CpOk(cp), CpSetup \/ CpOnline \/ CpResend
    PROVE  TakesCommand /\ cp'.evreq = cp.evreq /\ UNCHANGED <<delivered, told, pdSide, submitted>>
  <1>1. DOMAIN cp = CpFields /\ cp.st \in States
    BY DEF CpOk, CpFine
  <1>2. ASSUME NEW c, DOMAIN c = CpFields, CpTransmit(c)
        PROVE  cp'.data = c.data /\ cp'.cmd = c.cmd /\ cp'.evreq = c.evreq
    BY <1>2 DEF CpTransmit, CpFields
  <1>3. CASE CpSetup
    <2> DEFINE c == [cp EXCEPT !.cmd = HandshakeCmd(cp.st)]
    <2>1. /\ CpTransmit(c) /\ UNCHANGED <<cpq, delivered, told, pdSide, submitted>>
          /\ cp.st \notin {"ONLINE", "OFFLINE"}
      BY <1>3 DEF CpSetup
    <2>2. DOMAIN c = CpFields /\ c.data = cp.data /\ c.evreq = cp.evreq
          /\ c.cmd = HandshakeCmd(cp.st)
      BY <1>1 DEF CpFields
    <2> HIDE DEF c
    <2>3. c.cmd \notin PlainCmds
      BY <1>1, <2>1, <2>2 DEF HandshakeCmd, States, PlainCmds
    <2> QED  BY <1>2, <2>1, <2>2, <2>3 DEF TakesCommand
  <1>4. CASE CpOnline
    <2>1. UNCHANGED <<delivered, told, pdSide, submitted>>
      BY <1>4 DEF CpOnline
    <2>2. CASE cpq = <<>>
      <3> DEFINE c == [cp EXCEPT !.cmd = "POLL"]
      <3>1. CpTransmit(c) /\ UNCHANGED cpq
        BY <1>4, <2>2 DEF CpOnline
      <3>2. DOMAIN c = CpFields /\ c.data = cp.data /\ c.evreq = cp.evreq /\ c.cmd = "POLL"
        BY <1>1 DEF CpFields
      <3> HIDE DEF c
      <3> QED  BY <1>2, <2>1, <3>1, <3>2 DEF TakesCommand, PlainCmds
    <2>3. CASE cpq # <<>>
      <3> DEFINE h == [cp EXCEPT !.data = Head(cpq)]
      <3>1. /\ cpq' = Tail(cpq) /\ cp.phy = "idle" /\ cp.st = "ONLINE"
            /\ IF h.data.kind = "cmd" THEN CpTransmit([h EXCEPT !.cmd = cmds[h.data.val]])
               ELSE IF h.sc THEN CpTransmit([h EXCEPT !.cmd = "KEYSET"])
               ELSE cp' = h /\ UNCHANGED <<toPd, toCp, used>>
        BY <1>4, <2>3 DEF CpOnline
      <3>2. DOMAIN h = CpFields /\ h.data = Head(cpq) /\ h.evreq = cp.evreq /\ h.phy = cp.phy
        BY <1>1 DEF CpFields
      <3> HIDE DEF h
      <3>3. CASE cp' = h
        BY <2>1, <2>3, <3>1, <3>2, <3>3 DEF TakesCommand
      <3>4. ASSUME NEW x, CpTransmit([h EXCEPT !.cmd = x]), x \in PlainCmds => h.data.kind = "cmd"
            PROVE  TakesCommand /\ cp'.evreq = cp.evreq
        <4> DEFINE c == [h EXCEPT !.cmd = x]
        <4>1. DOMAIN c = CpFields /\ c.data = h.data /\ c.evreq = h.evreq /\ c.cmd = x
          BY <3>2 DEF CpFields
        <4>2. CpTransmit(c)
          BY <3>4
        <4> HIDE DEF c
        <4> QED  BY <1>2, <2>3, <3>1, <3>2, <3>4, <4>1, <4>2 DEF TakesCommand
      <3>5. "KEYSET" \notin PlainCmds
        BY DEF PlainCmds
      <3> QED  BY <2>1, <3>1, <3>3, <3>4, <3>5, <3>2
    <2> QED  BY <2>2, <2>3
  <1>5. CASE CpResend
    <2>1. cp.phy = "wait" /\ CpTransmit(cp) /\ UNCHANGED <<cpq, delivered, told, pdSide, submitted>>
      BY <1>5 DEF CpResend
    <2> QED  BY <1>1, <1>2, <2>1 DEF TakesCommand
  <1> QED  BY <1>3, <1>4, <1>5

\* What the end of a reply, or of the wait for one, does with what the panel holds.
Hands(c) ==
    \E d \in {c.data, KeyData(c.key)} :
        \/ cp'.data = d /\ (cp'.evreq => c.evreq) /\ delivered' = delivered
        \/ c.evreq /\ ~cp'.evreq /\ delivered' = Given(d)

LEMMA SettleHands ==
    ASSUME NEW c, NEW e, DOMAIN e = CpFields, Settle(c, e), e.evreq => c.evreq,
           e.data \in {c.data, KeyData(c.key)}
    PROVE  Hands(c)
  <1> DEFINE online == "ONLINE" \in {c.st, e.st}
             m == [e EXCEPT !.phy = "idle", !.evreq = @ /\ ~online]
  <1>1. /\ delivered' = IF online /\ e.evreq THEN Given(e.data) ELSE delivered
        /\ cp' = IF m.st = c.st THEN m
                 ELSE CASE m.st = "OFFLINE"  -> [m EXCEPT !.sc = FALSE]
                        [] m.st = "SC_CHLNG" -> [m EXCEPT !.cpr = FreshNonce, !.pdr = 0, !.rmac = 0]
                        [] OTHER             -> m
    BY DEF Settle
  <1>2. DOMAIN m = CpFields /\ m.data = e.data /\ m.evreq = (e.evreq /\ ~online)
    BY DEF CpFields
  <1> HIDE DEF m, online
  <1>3. cp'.data = m.data /\ cp'.evreq = m.evreq
    BY <1>1, <1>2 DEF CpFields
  <1> QED  BY <1>1, <1>2, <1>3 DEF Hands

LEMMA PanelHands ==
    ASSUME NEW c, DOMAIN c = CpFields, CpError(c) \/ Settle(c, OkNext(c))
    PROVE  Hands(c)
  <1>1. CASE CpError(c)
    <2>1. DOMAIN ErrNext(c) = CpFields /\ ErrNext(c).evreq = c.evreq /\ ErrNext(c).data = c.data
      BY DEF ErrNext, CpFields
    <2> QED  BY <1>1, <2>1, SettleHands DEF CpError
  <1>2. CASE Settle(c, OkNext(c))
    <2>1. /\ DOMAIN OkNext(c) = CpFields /\ OkNext(c).evreq = c.evreq
          /\ OkNext(c).data \in {c.data, KeyData(c.key)}
      BY DEF OkNext, KeysetComplete, CpFields
    <2> QED  BY <1>2, <2>1, SettleHands
  <1> QED  BY <1>1, <1>2

\* A packet that is read makes of the panel's state c, of which only a card read matters here.
Reads(c) ==
    \/ c.evreq = cp.evreq /\ c.data \in {cp.data, NoData}
    \/ Head(toCp).id \in {"RAW", "LSTATR"} /\ c.data = Head(toCp).data

LEMMA PanelReadsOne ==
    ASSUME CpOk(cp), CpReceive
    PROVE  /\ toCp # <<>> /\ toCp' = Tail(toCp) /\ UNCHANGED <<cpq, pdSide, submitted>>
           /\ \E c : DOMAIN c = CpFields /\ Reads(c) /\ Hands(c)
  <1> DEFINE p == Head(toCp)
             c == [cp EXCEPT !.rb = RxRb(toCp)]
  <1>1. /\ toCp # <<>> /\ toCp' = Tail(toCp) /\ UNCHANGED <<cpq, pdSide, submitted>>
        /\ \/ CpError(c)
           \/ CpError(Bad(c, p))
           \/ CpDone(Decoded(c, p), p.id)
    BY DEF CpReceive
  <1>2. DOMAIN c = CpFields /\ c.evreq = cp.evreq /\ c.data = cp.data
    BY DEF CpOk, CpFine, CpFields
  <1> HIDE DEF p, c
  <1>3. CASE CpError(c)
    BY <1>1, <1>2, <1>3, PanelHands DEF Reads
  <1>4. CASE CpError(Bad(c, p))
    <2> DEFINE e == Bad(c, p)
    <2>1. DOMAIN e = CpFields /\ e.evreq = c.evreq /\ e.data = NoData
      BY <1>2 DEF Bad, CpFields
    <2>2. CpError(e)
      BY <1>4
    <2> HIDE DEF e
    <2> QED  BY <1>1, <1>2, <2>1, <2>2, PanelHands DEF Reads
  <1>5. CASE CpDone(Decoded(c, p), p.id)
    <2> DEFINE m == Decoded(c, p)
               e == [m EXCEPT !.retry = 0]
    <2>1. /\ DOMAIN m = CpFields
          /\ \/ m.evreq = c.evreq /\ m.data = c.data
             \/ p.id \in {"RAW", "LSTATR"} /\ m.data = p.data
      BY <1>2 DEF Decoded, TakeEvent, CpFields
    <2>2. CpError(e) \/ Settle(e, OkNext(e))
      BY <1>5 DEF CpDone
    <2> HIDE DEF m
    <2>3. DOMAIN e = CpFields /\ e.evreq = m.evreq /\ e.data = m.data
      BY <2>1 DEF CpFields
    <2> HIDE DEF e
    <2>4. Reads(e)
      BY <1>2, <2>1, <2>3 DEF Reads, p
    <2> QED  BY <1>1, <2>2, <2>3, <2>4, PanelHands
  <1> QED  BY <1>1, <1>3, <1>4, <1>5

-----------------------------------------------------------------------------

LEMMA HandsReads ==
    ASSUME NEW m \in Nat, NEW n \in Nat, m <= n, DOMAIN delivered = {"reads", "reports"},
           GivenUpTo(delivered.reads, m), NEW c, HeldUpTo(c, m, n), Hands(c)
    PROVE  \E m2 \in Nat : m2 <= n /\ PanelReads(m2, n)'
  <1>1. PICK d \in {c.data, KeyData(c.key)} :
          \/ cp'.data = d /\ (cp'.evreq => c.evreq) /\ delivered' = delivered
          \/ c.evreq /\ ~cp'.evreq /\ delivered' = Given(d)
    BY DEF Hands
  <1>2. c.evreq /\ d.kind = "event" => d.val \in (m + 1)..n
    BY <1>1 DEF HeldUpTo, KeyData
  <1>3. CASE cp'.data = d /\ (cp'.evreq => c.evreq) /\ delivered' = delivered
    <2>1. HeldUpTo(cp', m, n)
      BY <1>2, <1>3 DEF HeldUpTo
    <2> QED  BY <1>3, <2>1 DEF PanelReads
  <1>4. CASE c.evreq /\ ~cp'.evreq /\ delivered' = Given(d)
    <2>1. \A m2 : HeldUpTo(cp', m2, n)
      BY <1>4 DEF HeldUpTo
    <2>2. CASE d.kind = "status"
      <3>1. DOMAIN delivered' = {"reads", "reports"} /\ delivered'.reads = delivered.reads
        BY <1>4, <2>2 DEF Given
      <3> QED  BY <2>1, <3>1 DEF PanelReads
    <2>3. CASE d.kind # "status"
      <3> DEFINE v == IF d.kind = "event" THEN d.val ELSE 0
      <3>1. /\ DOMAIN delivered' = {"reads", "reports"}
            /\ delivered'.reads = Append(delivered.reads, v)
        BY <1>4, <2>3 DEF Given
      <3>2. CASE d.kind = "event"
        <4>1. v \in (m + 1)..n
          BY <1>2, <1>4, <3>2
        <4> HIDE DEF v
        <4>2. v \in Nat /\ m <= v /\ v <= n /\ v \in (m + 1)..v
          BY <4>1
        <4>3. GivenUpTo(Append(delivered.reads, v), v)
          BY <4>2, GivenMore
        <4> QED  BY <2>1, <3>1, <4>2, <4>3 DEF PanelReads
      <3>3. CASE d.kind # "event"
        <4>1. v = 0 /\ 0 \in Nat /\ m <= m
          BY <3>3
        <4> HIDE DEF v
        <4>2. GivenUpTo(Append(delivered.reads, v), m)
          BY <4>1, GivenMore
        <4> QED  BY <2>1, <3>1, <4>2 DEF PanelReads
      <3> QED  BY <3>2, <3>3
    <2> QED  BY <2>2, <2>3
  <1> QED  BY <1>1, <1>3, <1>4

LEMMA ReadsTransmitted ==
    ASSUME ReadsInv, CpSetup \/ CpOnline \/ CpResend
    PROVE  NoneQueued' /\ \E m, n, k \in Nat :
              m <= n /\ n <= k /\ PanelReads(m, n)' /\ ReaderReads(n, k)'
  <1>1. PICK m, n, k \in Nat : m <= n /\ n <= k /\ PanelReads(m, n) /\ ReaderReads(n, k)
    BY DEF ReadsInv
  <1>2. /\ TakesCommand /\ cp'.evreq = cp.evreq
        /\ UNCHANGED <<delivered, told, pdSide, submitted>>
        /\ toCp' = toCp \/ toCp' = SubSeq(toCp, 1, cp.rb)
    BY PanelTakes, PanelTransmits DEF ReadsInv, Frame
  <1>3. cpq # <<>> => /\ Head(cpq) = cpq[1] /\ 1 \in 1..Len(cpq)
                      /\ Len(Tail(cpq)) = Len(cpq) - 1 /\ Len(cpq) \in Nat
                      /\ \A i \in 1..(Len(cpq) - 1) : Tail(cpq)[i] = cpq[i + 1]
    BY TailOf DEF ReadsInv, Frame, Commands
  <1>4. cp'.data = cp.data \/ cp'.data.kind \in {"cmd", "key"}
    BY <1>2, <1>3 DEF TakesCommand, ReadsInv, NoneQueued
  <1>5. NoneQueued'
    <2>1. CASE cpq' = cpq
      BY <2>1 DEF ReadsInv, NoneQueued
    <2>2. CASE cpq # <<>> /\ cpq' = Tail(cpq)
      <3>1. \A i \in 1..Len(cpq') : i + 1 \in 1..Len(cpq) /\ cpq'[i] = cpq[i + 1]
        BY <1>3, <2>2
      <3> QED  BY <3>1 DEF ReadsInv, NoneQueued
    <2> QED  BY <1>2, <2>1, <2>2 DEF TakesCommand
  <1>6. HeldUpTo(cp', m, n)
    BY <1>1, <1>2, <1>4 DEF PanelReads, HeldUpTo
  <1>7. LineUpTo(toCp', n, k)
    BY <1>1, <1>2, LineLess DEF ReaderReads, ReadsInv, Frame
  <1> QED  BY <1>1, <1>2, <1>5, <1>6, <1>7 DEF PanelReads, ReaderReads, pdSide, submitted

LEMMA ReadsReceived ==
    ASSUME ReadsInv, CpReceive
    PROVE  NoneQueued' /\ \E m, n, k \in Nat :
              m <= n /\ n <= k /\ PanelReads(m, n)' /\ ReaderReads(n, k)'
  <1>1. PICK m, n, k \in Nat : m <= n /\ n <= k /\ PanelReads(m, n) /\ ReaderReads(n, k)
    BY DEF ReadsInv
  <1>2. /\ toCp # <<>> /\ toCp' = Tail(toCp) /\ UNCHANGED <<cpq, pdSide, submitted>>
    BY PanelReadsOne DEF ReadsInv, Frame
  <1>3. PICK c : DOMAIN c = CpFields /\ Reads(c) /\ Hands(c)
    BY PanelReadsOne DEF ReadsInv, Frame
  <1>4. /\ LineUpTo(toCp', n, k)
        /\ Head(toCp).id = "RAW" =>
             /\ Head(toCp).data.kind = "event" /\ Head(toCp).data.val \in (n + 1)..k
             /\ LineUpTo(toCp', Head(toCp).data.val, k)
        /\ Head(toCp).id = "LSTATR" => Head(toCp).data.kind # "event"
    BY <1>1, <1>2, LineRead DEF ReaderReads, ReadsInv, Frame
  <1>5. PICK n2 \in Nat : m <= n2 /\ n2 <= k /\ HeldUpTo(c, m, n2) /\ LineUpTo(toCp', n2, k)
    <2>1. CASE HeldUpTo(c, m, n)
      BY <1>1, <1>4, <2>1
    <2>2. CASE Head(toCp).id = "RAW" /\ c.data = Head(toCp).data
      <3> DEFINE v == Head(toCp).data.val
      <3>1. v \in (n + 1)..k /\ LineUpTo(toCp', v, k) /\ c.data.val = v
        BY <1>4, <2>2
      <3> HIDE DEF v
      <3>2. v \in Nat /\ m <= v /\ v <= k /\ v \in (m + 1)..v
        BY <1>1, <3>1
      <3>3. HeldUpTo(c, m, v)
        BY <3>1, <3>2 DEF HeldUpTo
      <3> QED  BY <3>1, <3>2, <3>3
    <2>3. HeldUpTo(c, m, n) \/ (Head(toCp).id = "RAW" /\ c.data = Head(toCp).data)
      BY <1>1, <1>3, <1>4 DEF Reads, PanelReads, HeldUpTo, NoData
    <2> QED  BY <2>1, <2>2, <2>3
  <1>6. PICK m2 \in Nat : m2 <= n2 /\ PanelReads(m2, n2)'
    BY <1>1, <1>3, <1>5, HandsReads DEF PanelReads
  <1>7. ReaderReads(n2, k)'
    BY <1>1, <1>2, <1>5 DEF ReaderReads, pdSide, submitted
  <1>8. NoneQueued'
    BY <1>2 DEF ReadsInv, NoneQueued
  <1> QED  BY <1>5, <1>6, <1>7, <1>8

LEMMA ReadsWaited ==
    ASSUME ReadsInv, CpTimeout \/ CpRetryOnline \/ CpRetrySc
    PROVE  NoneQueued' /\ \E m, n, k \in Nat :
              m <= n /\ n <= k /\ PanelReads(m, n)' /\ ReaderReads(n, k)'
  <1>1. PICK m, n, k \in Nat : m <= n /\ n <= k /\ PanelReads(m, n) /\ ReaderReads(n, k)
    BY DEF ReadsInv
  <1>2. UNCHANGED <<cpq, pdSide, submitted, toCp>>
    BY DEF CpTimeout, CpRetryOnline, CpRetrySc
  <1>3. DOMAIN cp = CpFields
    BY DEF ReadsInv, Frame, CpOk, CpFine
  <1>4. \/ Hands(cp)
        \/ cp'.evreq = cp.evreq /\ cp'.data = cp.data /\ delivered' = delivered
    <2>1. CASE CpTimeout
      <3>1. CASE CpError(cp)
        BY <1>3, <3>1, PanelHands
      <3>2. CASE cp' = [cp EXCEPT !.phy = "wait", !.retry = @ + 1] /\ delivered' = delivered
        BY <1>3, <3>2 DEF CpFields
      <3> QED  BY <2>1, <3>1, <3>2 DEF CpTimeout
    <2>2. CASE CpRetryOnline
      BY <1>3, <2>2 DEF CpRetryOnline, CpFields
    <2>3. CASE CpRetrySc
      <3> DEFINE e == [cp EXCEPT !.st = "SC_CHLNG"]
      <3>1. DOMAIN e = CpFields /\ e.evreq = cp.evreq /\ e.data = cp.data
        BY <1>3 DEF CpFields
      <3>2. Settle(cp, e)
        BY <2>3 DEF CpRetrySc
      <3> HIDE DEF e
      <3> QED  BY <3>1, <3>2, SettleHands
    <2> QED  BY <2>1, <2>2, <2>3
  <1>5. \E m2 \in Nat : m2 <= n /\ PanelReads(m2, n)'
    <2>1. CASE Hands(cp)
      BY <1>1, <2>1, HandsReads DEF PanelReads
    <2>2. CASE cp'.evreq = cp.evreq /\ cp'.data = cp.data /\ delivered' = delivered
      BY <1>1, <2>2 DEF PanelReads, HeldUpTo
    <2> QED  BY <1>4, <2>1, <2>2
  <1>6. ReaderReads(n, k)' /\ NoneQueued'
    BY <1>1, <1>2 DEF ReaderReads, pdSide, submitted, ReadsInv, NoneQueued
  <1> QED  BY <1>1, <1>5, <1>6

LEMMA ReadsAnswered ==
    ASSUME ReadsInv, PdReceive
    PROVE  NoneQueued' /\ \E m, n, k \in Nat :
              m <= n /\ n <= k /\ PanelReads(m, n)' /\ ReaderReads(n, k)'
  <1>1. PICK m, n, k \in Nat : m <= n /\ n <= k /\ PanelReads(m, n) /\ ReaderReads(n, k)
    BY DEF ReadsInv
  <1>2. UNCHANGED <<cpSide, submitted>> /\ \E x : Answers(Head(toPd), x)
    BY AnswersReceived DEF ReadsInv
  <1>3. PICK x : Answers(Head(toPd), x)
    BY <1>2
  <1>4. /\ IsSeq(toCp) /\ IsSeq(pdq) /\ events \in Nat /\ k <= events
        /\ LineUpTo(toCp, n, k) /\ QueueUpTo(pdq, k, events)
    BY <1>1 DEF ReadsInv, Frame, ReaderReads
  <1>5. \E k2 \in Nat : n <= k2 /\ k2 <= events /\ LineUpTo(toCp', n, k2)
                        /\ IsSeq(pdq') /\ QueueUpTo(pdq', k2, events)
    <2>1. CASE NoRead(x) /\ (pdq' = pdq \/ (pdq # <<>> /\ pdq' = Tail(pdq)))
      <3>1. LineUpTo(toCp', n, k)
        <4>1. LineUpTo(Append(toCp, x), n, k)
          <5>1. k <= k
            BY <1>1
          <5> QED  BY <1>1, <1>4, <2>1, <5>1, LineMore
        <4> QED  BY <1>3, <1>4, <4>1 DEF Answers
      <3>2. IsSeq(pdq') /\ QueueUpTo(pdq', k, events)
        <4>1. CASE pdq' = pdq
          BY <1>4, <4>1
        <4>2. CASE pdq # <<>> /\ pdq' = Tail(pdq)
          BY <1>4, <4>2, QueueRead
        <4> QED  BY <2>1, <4>1, <4>2
      <3> QED  BY <1>1, <1>4, <3>1, <3>2
    <2>2. CASE pdq # <<>> /\ pdq' = Tail(pdq) /\ x.id = "RAW" /\ x.data = EventData(Head(pdq))
      <3> DEFINE h == Head(pdq)
      <3>1. h \in (k + 1)..events /\ QueueUpTo(pdq', h, events) /\ IsSeq(pdq')
        BY <1>4, <2>2, QueueRead
      <3>2. x.id = "RAW" /\ x.data.kind = "event" /\ x.data.val = h
        BY <2>2 DEF EventData
      <3> HIDE DEF h
      <3>3. h \in Nat /\ k <= h /\ h <= events /\ n <= h /\ h \in (k + 1)..h
        BY <1>1, <1>4, <3>1
      <3>4. LineUpTo(Append(toCp, x), n, h) /\ LineUpTo(toCp, n, h)
        <4>1. LineUpTo(Append(toCp, x), n, h)
          BY <1>1, <1>4, <3>2, <3>3, LineMore
        <4>2. LineUpTo(toCp, n, h)
          <5>1. \A v : v \in (n + 1)..k => v \in (n + 1)..h
            BY ONLY <3>3, n \in Nat, k \in Nat
          <5> QED  BY <1>4, <5>1 DEF LineUpTo
        <4> QED  BY <4>1, <4>2
      <3> QED  BY <1>3, <3>1, <3>3, <3>4 DEF Answers
    <2> QED  BY <1>3, <2>1, <2>2 DEF Answers
  <1>6. \A k2 : LineUpTo(toCp', n, k2) /\ k2 <= events /\ IsSeq(pdq') /\ QueueUpTo(pdq', k2, events)
                  => ReaderReads(n, k2)'
    BY <1>2, <1>4 DEF ReaderReads, submitted
  <1>7. PanelReads(m, n)' /\ NoneQueued'
    BY <1>1, <1>2 DEF PanelReads, ReadsInv, NoneQueued, cpSide
  <1> QED  BY <1>1, <1>5, <1>6, <1>7

LEMMA ReadsKept ==
    ASSUME ReadsInv, [Next]_vars
    PROVE  ReadsInv'
  <1>1. PICK m, n, k \in Nat : m <= n /\ n <= k /\ PanelReads(m, n) /\ ReaderReads(n, k)
    BY DEF ReadsInv
  <1>2. Frame' /\ NoneQueued
    BY FrameKept DEF ReadsInv
  <1>3. /\ events \in Nat /\ k <= events /\ IsSeq(pdq)
        /\ LineUpTo(toCp, n, k) /\ QueueUpTo(pdq, k, events)
    BY <1>1 DEF ReaderReads
  <1>4. ASSUME UNCHANGED <<cp, delivered, cpq, toCp>>, ReaderReads(n, k)'
        PROVE  ReadsInv'
    BY <1>1, <1>2, <1>4 DEF ReadsInv, PanelReads, NoneQueued
  <1>5. CASE PdSubmit
    <2>1. /\ UNCHANGED <<cp, delivered, cpq, toCp>> /\ events' = events + 1
          /\ pdq' = pdq \/ pdq' = Append(pdq, events + 1)
      BY <1>5 DEF PdSubmit, cpSide
    <2>2. QueueUpTo(pdq', k, events')
      BY <1>1, <1>3, <2>1, QueueMore
    <2>3. IsSeq(pdq') /\ events' \in Nat /\ k <= events'
      <3>1. events' \in Nat /\ k <= events'
        BY <1>1, <1>3, <2>1
      <3>2. IsSeq(Append(pdq, events + 1))
        BY <1>3, Appended
      <3> QED  BY <1>3, <2>1, <3>1, <3>2
    <2>4. ReaderReads(n, k)'
      BY <1>3, <2>1, <2>2, <2>3 DEF ReaderReads
    <2> QED  BY <1>4, <2>1, <2>4
  <1>6. CASE PdReset
    <2>1. UNCHANGED <<cp, delivered, cpq, toCp, events>> /\ pdq' = <<>>
      BY <1>6 DEF PdReset, cpSide, submitted
    <2>2. IsSeq(pdq') /\ 1..Len(pdq') = {}
      <3>1. <<>> \in Seq({})
        OBVIOUS
      <3> QED  BY <2>1, <3>1 DEF IsSeq
    <2>3. ReaderReads(n, k)'
      BY <1>3, <2>1, <2>2 DEF ReaderReads, QueueUpTo
    <2> QED  BY <1>4, <2>1, <2>3
  <1>7. CASE PdScTimeout \/ UNCHANGED vars
    <2>1. UNCHANGED <<cp, delivered, cpq, toCp, events, pdq>>
      BY <1>7 DEF PdScTimeout, vars, cpSide, pdSide, submitted
    <2> QED  BY <1>1, <1>4, <2>1 DEF ReaderReads
  <1>8. CASE \/ \E kind \in PlainCmds : CpSubmit(kind)
             \/ \E q \in NewKeys : CpSubmitKeyset(q)
    <2>1. UNCHANGED <<cp, delivered, toCp, events, pdq>>
      BY <1>8 DEF CpSubmit, CpSubmitKeyset, pdSide, submitted
    <2>2. PICK x : cpq' = Append(cpq, x) /\ x.kind \in {"cmd", "key"}
      <3>1. /\ \A v : CmdData(v).kind = "cmd"
            /\ \A v : KeyData(v).kind = "key"
        BY DEF CmdData, KeyData
      <3>2. \/ \E v : cpq' = Append(cpq, CmdData(v))
            \/ \E v : cpq' = Append(cpq, KeyData(v))
        BY <1>8 DEF CpSubmit, CpSubmitKeyset
      <3> QED  BY <3>1, <3>2
    <2>3. /\ Len(cpq) \in Nat /\ Len(cpq') = Len(cpq) + 1
          /\ \A i \in 1..Len(cpq) : cpq'[i] = cpq[i]
          /\ cpq'[Len(cpq) + 1] = x
      BY <2>2, Appended DEF ReadsInv, Frame, Commands
    <2>4. \A i \in 1..Len(cpq') : (i \in 1..Len(cpq) /\ cpq'[i] = cpq[i]) \/ cpq'[i] = x
      BY <2>3
    <2>5. NoneQueued'
      BY <1>2, <2>2, <2>4 DEF NoneQueued
    <2>6. PanelReads(m, n)' /\ ReaderReads(n, k)'
      BY <1>1, <2>1 DEF PanelReads, ReaderReads
    <2> QED  BY <1>1, <1>2, <2>5, <2>6 DEF ReadsInv
  <1> QED  BY <1>2, <1>5, <1>6, <1>7, <1>8, StepsOfNext, ReadsTransmitted, ReadsReceived,
              ReadsWaited, ReadsAnswered
           DEF NotThePanel, ReadsInv

LEMMA ReadsInit == Init => ReadsInv
  <1> SUFFICES ASSUME Init PROVE ReadsInv
    OBVIOUS
  <1>1. /\ cp = CpBoot /\ cpq = <<>> /\ pdq = <<>> /\ toCp = <<>> /\ events = 0
        /\ delivered = [reads |-> <<>>, reports |-> {}]
    BY DEF Init
  <1>2. Frame /\ NoneQueued
    BY <1>1, FrameInit DEF NoneQueued
  <1>3. IsSeq(pdq)
    <2>1. <<>> \in Seq({})
      OBVIOUS
    <2> QED  BY <1>1, <2>1 DEF IsSeq
  <1>4. PanelReads(0, 0)
    <2>1. delivered.reads = <<>> /\ DOMAIN delivered = {"reads", "reports"} /\ ~cp.evreq
      BY <1>1 DEF CpBoot
    <2> QED  BY <2>1 DEF PanelReads, GivenUpTo, HeldUpTo
  <1>5. ReaderReads(0, 0)
    BY <1>1, <1>3 DEF ReaderReads, LineUpTo, QueueUpTo
  <1> QED  BY <1>2, <1>4, <1>5 DEF ReadsInv

\* No card read is given to the panel's application twice, or after a later one, or without
\* having been made, whatever is lost, late, retried or restarted, with and without a session
\* (pd_event_dequeue, cp_decode_response, state_update, do_event_callback).
THEOREM ReadsGivenOnce == Spec => []ReadsOnce
  <1>1. Init => ReadsInv
    BY ReadsInit
  <1>2. ReadsInv /\ [Next]_vars => ReadsInv'
    BY ReadsKept
  <1>3. ReadsInv => ReadsOnce
    <2> SUFFICES ASSUME ReadsInv PROVE ReadsOnce
      OBVIOUS
    <2>1. PICK m, n, k \in Nat : m <= n /\ n <= k /\ PanelReads(m, n) /\ ReaderReads(n, k)
      BY DEF ReadsInv
    <2> DEFINE given == delivered.reads
    <2>2. /\ given \in Seq(Nat) /\ DOMAIN given = 1..Len(given)
          /\ \A j \in 1..Len(given) : given[j] \in Nat
          /\ \A j \in 1..Len(given) :
               given[j] # 0 => given[j] <= m /\ \A i \in 1..Len(given) : i < j => given[i] < given[j]
      <3>1. GivenUpTo(given, m)
        BY <2>1 DEF PanelReads
      <3> QED  BY ONLY <3>1 DEF GivenUpTo
    <2> HIDE DEF given
    <2>3. \A v \in Nat : v <= m => v <= events
      BY <2>1 DEF ReaderReads
    <2>4. \A j \in DOMAIN given :
            given[j] # 0 => given[j] <= events /\ \A i \in DOMAIN given : i < j => given[i] < given[j]
      BY <2>2, <2>3
    <2> QED  BY <2>4 DEF ReadsOnce, given
  <1> QED  BY <1>1, <1>2, <1>3, PTL DEF Spec

-----------------------------------------------------------------------------

(* Commands are carried out in the order they were submitted               *)

\* The commands that were carried out, those on the line, the one in the panel's hand and
\* those in its queue are each none older than the ones before: up to a and to b, which is
\* the one in hand.
DoneUpTo(ex, a) ==
    /\ IsSeq(ex)
    /\ \A j \in 1..Len(ex) :
         ex[j][1] \in 0..a /\ \A i \in 1..Len(ex) : i < j => ex[i][1] <= ex[j][1]
OutUpTo(out, a, b) ==
    \A i \in 1..Len(out) :
        out[i].id \in PlainCmds =>
            /\ out[i].data.val \in a..b
            /\ \A j \in 1..Len(out) :
                 i < j /\ out[j].id \in PlainCmds => out[i].data.val <= out[j].data.val
HeldIs(c, b) == c.phy # "idle" /\ c.cmd \in PlainCmds => c.data.val = b
WaitingFrom(q, b, l) ==
    \A i \in 1..Len(q) :
        q[i].kind = "cmd" =>
            /\ q[i].val \in (b + 1)..l
            /\ \A j \in 1..Len(q) : i < j /\ q[j].kind = "cmd" => q[i].val < q[j].val

PanelCommands(b) == b <= Len(cmds) /\ HeldIs(cp, b) /\ WaitingFrom(cpq, b, Len(cmds))
ReaderCommands(a, b) == DoneUpTo(executed, a) /\ OutUpTo(toPd, a, b)

CommandInv ==
    /\ Frame
    /\ \E a, b \in Nat : a <= b /\ PanelCommands(b) /\ ReaderCommands(a, b)

LEMMA DoneMore ==
    ASSUME NEW ex, NEW a \in Nat, DoneUpTo(ex, a), NEW e, NEW v \in Nat, e[1] = v, a <= v
    PROVE  DoneUpTo(Append(ex, e), v)
  <1> DEFINE s == Append(ex, e)
  <1>1. /\ IsSeq(s) /\ Len(ex) \in Nat /\ Len(s) = Len(ex) + 1
        /\ \A i \in 1..Len(ex) : s[i] = ex[i]
        /\ s[Len(ex) + 1] = e
    BY Appended DEF DoneUpTo
  <1> HIDE DEF s
  <1>2. ASSUME NEW i \in 1..Len(ex)
        PROVE  s[i] = ex[i] /\ s[i][1] \in 0..v
    <2>1. s[i] = ex[i] /\ ex[i][1] \in 0..a
      BY <1>1 DEF DoneUpTo
    <2> QED  BY <2>1
  <1>3. ASSUME NEW j \in 1..Len(s)
        PROVE  s[j][1] \in 0..v /\ \A i \in 1..Len(s) : i < j => s[i][1] <= s[j][1]
    <2>1. CASE j = Len(ex) + 1
      <3>1. s[j][1] = v /\ \A i \in 1..Len(s) : i < j => i \in 1..Len(ex)
        BY <1>1, <2>1
      <3>2. ASSUME NEW i \in 1..Len(s), i < j
            PROVE  s[i][1] <= v
        BY <1>2, <3>1, <3>2
      <3> QED  BY <3>1, <3>2
    <2>2. CASE j # Len(ex) + 1
      <3>1. j \in 1..Len(ex)
        BY <1>1, <2>2
      <3>2. \A i \in 1..Len(s) : i < j => i \in 1..Len(ex)
        BY <1>1, <3>1
      <3> QED  BY <1>2, <3>1, <3>2 DEF DoneUpTo
    <2> QED  BY <2>1, <2>2
  <1>4. DoneUpTo(s, v)
    BY <1>1, <1>3 DEF DoneUpTo
  <1> QED  BY <1>4 DEF s

LEMMA OutMore ==
    ASSUME NEW out, IsSeq(out), NEW a \in Nat, NEW b \in Nat, NEW b2 \in Nat, a <= b, b <= b2,
           OutUpTo(out, a, b), NEW x, x.id \in PlainCmds => x.data.val = b2
    PROVE  OutUpTo(out, a, b2) /\ OutUpTo(Append(out, x), a, b2)
  <1> DEFINE s == Append(out, x)
  <1>1. /\ Len(out) \in Nat /\ Len(s) = Len(out) + 1
        /\ \A i \in 1..Len(out) : s[i] = out[i]
        /\ s[Len(out) + 1] = x
    BY Appended
  <1> HIDE DEF s
  <1>2. \A i \in 1..Len(s) : \/ i \in 1..Len(out) /\ s[i] = out[i]
                             \/ i = Len(out) + 1 /\ s[i] = x
    BY <1>1
  <1>3. ASSUME NEW i \in 1..Len(out), out[i].id \in PlainCmds
        PROVE  out[i].data.val \in a..b2 /\ out[i].data.val <= b2
    <2> DEFINE v == out[i].data.val
    <2>1. v \in a..b
      BY <1>3 DEF OutUpTo
    <2> HIDE DEF v
    <2>2. v \in a..b2 /\ v <= b2
      BY <2>1
    <2> QED  BY <2>2 DEF v
  <1>4. ASSUME NEW i \in 1..Len(s), s[i].id \in PlainCmds
        PROVE  /\ s[i].data.val \in a..b2
               /\ \A j \in 1..Len(s) :
                    i < j /\ s[j].id \in PlainCmds => s[i].data.val <= s[j].data.val
    <2>1. CASE i \in 1..Len(out) /\ s[i] = out[i]
      <3>1. ASSUME NEW j \in 1..Len(s), i < j, s[j].id \in PlainCmds
            PROVE  s[i].data.val <= s[j].data.val
        <4>1. CASE j \in 1..Len(out) /\ s[j] = out[j]
          BY <1>4, <2>1, <3>1, <4>1 DEF OutUpTo
        <4>2. CASE s[j] = x
          BY <1>3, <1>4, <2>1, <3>1, <4>2
        <4> QED  BY <1>2, <4>1, <4>2
      <3> QED  BY <1>3, <1>4, <2>1, <3>1
    <2>2. CASE i = Len(out) + 1 /\ s[i] = x
      <3>1. \A j \in 1..Len(s) : ~(i < j)
        BY <1>1, <2>2
      <3>2. s[i].data.val = b2 /\ b2 \in a..b2
        BY <1>4, <2>2
      <3> QED  BY <3>1, <3>2
    <2> QED  BY <1>2, <2>1, <2>2
  <1>5. OutUpTo(out, a, b2)
    BY <1>3 DEF OutUpTo
  <1>6. OutUpTo(s, a, b2)
    BY <1>4 DEF OutUpTo
  <1> QED  BY <1>5, <1>6 DEF s

LEMMA OutRead ==
    ASSUME NEW out, IsSeq(out), out # <<>>, NEW a \in Nat, NEW b \in Nat, OutUpTo(out, a, b)
    PROVE  /\ OutUpTo(Tail(out), a, b)
           /\ Head(out).id \in PlainCmds =>
                Head(out).data.val \in a..b /\ OutUpTo(Tail(out), Head(out).data.val, b)
  <1> DEFINE s == Tail(out)
             h == Head(out)
  <1>1. /\ Len(out) \in Nat \ {0} /\ Len(s) = Len(out) - 1
        /\ \A i \in 1..(Len(out) - 1) : s[i] = out[i + 1]
        /\ h = out[1]
    BY TailOf
  <1>2. /\ 1 \in 1..Len(out)
        /\ \A i \in 1..Len(s) : i + 1 \in 1..Len(out) /\ s[i] = out[i + 1] /\ 1 < i + 1
        /\ \A i, j \in 1..Len(s) : i < j => i + 1 < j + 1
    BY <1>1
  <1> HIDE DEF s, h
  <1>3. ASSUME NEW i \in 1..Len(s), s[i].id \in PlainCmds
        PROVE  /\ s[i].data.val \in a..b
               /\ \A j \in 1..Len(s) :
                    i < j /\ s[j].id \in PlainCmds => s[i].data.val <= s[j].data.val
               /\ h.id \in PlainCmds => h.data.val <= s[i].data.val
    BY <1>1, <1>2, <1>3 DEF OutUpTo
  <1>4. h.id \in PlainCmds => h.data.val \in a..b
    BY <1>1, <1>2 DEF OutUpTo
  <1>5. ASSUME h.id \in PlainCmds, NEW i \in 1..Len(s), s[i].id \in PlainCmds
        PROVE  s[i].data.val \in h.data.val..b
    <2> DEFINE v == h.data.val
               w == s[i].data.val
    <2>1. v \in a..b /\ w \in a..b /\ v <= w
      BY <1>3, <1>4, <1>5
    <2> HIDE DEF v, w
    <2>2. w \in v..b
      BY <2>1
    <2> QED  BY <2>2 DEF v, w
  <1>6. OutUpTo(s, a, b)
    BY <1>3 DEF OutUpTo
  <1>7. h.id \in PlainCmds => OutUpTo(s, h.data.val, b)
    BY <1>3, <1>5 DEF OutUpTo
  <1> QED  BY <1>4, <1>6, <1>7 DEF s, h

LEMMA WaitingRead ==
    ASSUME NEW q, IsSeq(q), q # <<>>, NEW b \in Nat, NEW l \in Nat, WaitingFrom(q, b, l)
    PROVE  /\ WaitingFrom(Tail(q), b, l)
           /\ Head(q).kind = "cmd" =>
                Head(q).val \in (b + 1)..l /\ WaitingFrom(Tail(q), Head(q).val, l)
  <1> DEFINE s == Tail(q)
             h == Head(q)
  <1>1. /\ Len(q) \in Nat \ {0} /\ Len(s) = Len(q) - 1
        /\ \A i \in 1..(Len(q) - 1) : s[i] = q[i + 1]
        /\ h = q[1]
    BY TailOf
  <1>2. /\ 1 \in 1..Len(q)
        /\ \A i \in 1..Len(s) : i + 1 \in 1..Len(q) /\ s[i] = q[i + 1] /\ 1 < i + 1
        /\ \A i, j \in 1..Len(s) : i < j => i + 1 < j + 1
    BY <1>1
  <1> HIDE DEF s, h
  <1>3. ASSUME NEW i \in 1..Len(s), s[i].kind = "cmd"
        PROVE  /\ s[i].val \in (b + 1)..l
               /\ \A j \in 1..Len(s) : i < j /\ s[j].kind = "cmd" => s[i].val < s[j].val
               /\ h.kind = "cmd" => h.val < s[i].val
    BY <1>1, <1>2, <1>3 DEF WaitingFrom
  <1>4. h.kind = "cmd" => h.val \in (b + 1)..l
    BY <1>1, <1>2 DEF WaitingFrom
  <1>5. ASSUME h.kind = "cmd", NEW i \in 1..Len(s), s[i].kind = "cmd"
        PROVE  s[i].val \in (h.val + 1)..l
    <2> DEFINE v == h.val
               w == s[i].val
    <2>1. v \in (b + 1)..l /\ w \in (b + 1)..l /\ v < w
      BY <1>3, <1>4, <1>5
    <2> HIDE DEF v, w
    <2>2. w \in (v + 1)..l
      BY <2>1
    <2> QED  BY <2>2 DEF v, w
  <1>6. WaitingFrom(s, b, l)
    BY <1>3 DEF WaitingFrom
  <1>7. h.kind = "cmd" => WaitingFrom(s, h.val, l)
    BY <1>3, <1>5 DEF WaitingFrom
  <1> QED  BY <1>4, <1>6, <1>7 DEF s, h

LEMMA WaitingMore ==
    ASSUME NEW q, IsSeq(q), NEW b \in Nat, NEW l \in Nat, b <= l, WaitingFrom(q, b, l), NEW x,
           NEW l2 \in {l, l + 1}, x.kind = "cmd" => x.val = l + 1 /\ l2 = l + 1
    PROVE  WaitingFrom(Append(q, x), b, l2)
  <1> DEFINE s == Append(q, x)
  <1>1. /\ Len(q) \in Nat /\ Len(s) = Len(q) + 1
        /\ \A i \in 1..Len(q) : s[i] = q[i]
        /\ s[Len(q) + 1] = x
    BY Appended
  <1> HIDE DEF s
  <1>2. \A i \in 1..Len(s) : \/ i \in 1..Len(q) /\ s[i] = q[i]
                             \/ i = Len(q) + 1 /\ s[i] = x
    BY <1>1
  <1>3. ASSUME NEW i \in 1..Len(q), q[i].kind = "cmd"
        PROVE  q[i].val \in (b + 1)..l2 /\ q[i].val < l + 1
    <2> DEFINE v == q[i].val
    <2>1. v \in (b + 1)..l
      BY <1>3 DEF WaitingFrom
    <2> HIDE DEF v
    <2>2. v \in (b + 1)..l2 /\ v < l + 1
      BY <2>1
    <2> QED  BY <2>2 DEF v
  <1>4. ASSUME NEW i \in 1..Len(s), s[i].kind = "cmd"
        PROVE  /\ s[i].val \in (b + 1)..l2
               /\ \A j \in 1..Len(s) : i < j /\ s[j].kind = "cmd" => s[i].val < s[j].val
    <2>1. CASE i \in 1..Len(q) /\ s[i] = q[i]
      <3>1. ASSUME NEW j \in 1..Len(s), i < j, s[j].kind = "cmd"
            PROVE  s[i].val < s[j].val
        <4>1. CASE j \in 1..Len(q) /\ s[j] = q[j]
          BY <1>4, <2>1, <3>1, <4>1 DEF WaitingFrom
        <4>2. CASE s[j] = x
          BY <1>3, <1>4, <2>1, <3>1, <4>2
        <4> QED  BY <1>2, <4>1, <4>2
      <3> QED  BY <1>3, <1>4, <2>1, <3>1
    <2>2. CASE i = Len(q) + 1 /\ s[i] = x
      <3>1. \A j \in 1..Len(s) : ~(i < j)
        BY <1>1, <2>2
      <3>2. s[i].val = l + 1 /\ l2 = l + 1
        BY <1>4, <2>2
      <3>3. l + 1 \in (b + 1)..(l + 1)
        OBVIOUS
      <3> QED  BY <3>1, <3>2, <3>3
    <2> QED  BY <1>2, <2>1, <2>2
  <1>5. WaitingFrom(s, b, l2)
    BY <1>4 DEF WaitingFrom
  <1> QED  BY <1>5 DEF s

-----------------------------------------------------------------------------

LEMMA CommandsTransmitted ==
    ASSUME CommandInv, CpSetup \/ CpOnline \/ CpResend
    PROVE  \E a, b \in Nat : a <= b /\ PanelCommands(b)' /\ ReaderCommands(a, b)'
  <1>1. PICK a, b \in Nat : a <= b /\ PanelCommands(b) /\ ReaderCommands(a, b)
    BY DEF CommandInv
  <1>2. /\ TakesCommand /\ UNCHANGED <<executed, cmds>>
        /\ toPd' \in {toPd, Append(toPd, Garbled), Append(toPd, CpPacket(cp'))}
        /\ toPd' # toPd => cp'.phy = "reply"
    BY PanelTakes, PanelTransmits DEF CommandInv, Frame, pdSide, submitted
  <1>3. /\ IsSeq(toPd) /\ IsSeq(cpq) /\ Len(cmds) \in Nat
        /\ b <= Len(cmds) /\ HeldIs(cp, b) /\ WaitingFrom(cpq, b, Len(cmds))
        /\ DoneUpTo(executed, a) /\ OutUpTo(toPd, a, b)
    BY <1>1 DEF PanelCommands, ReaderCommands, CommandInv, Frame, Commands
  <1>4. PICK b2 \in Nat : /\ b <= b2 /\ b2 <= Len(cmds)
                          /\ HeldIs(cp', b2) /\ WaitingFrom(cpq', b2, Len(cmds))
    <2>1. CASE UNCHANGED cpq /\ cp'.data = cp.data
                 /\ (cp'.cmd \in PlainCmds => cp.phy # "idle" /\ cp.cmd = cp'.cmd)
      <3>1. HeldIs(cp', b)
        BY <1>3, <2>1 DEF HeldIs
      <3> QED  BY <1>3, <2>1, <3>1
    <2>2. CASE /\ cpq # <<>> /\ cpq' = Tail(cpq) /\ cp'.data = Head(cpq)
               /\ cp'.phy # "idle" /\ cp'.cmd \in PlainCmds => Head(cpq).kind = "cmd"
      <3>1. /\ WaitingFrom(cpq', b, Len(cmds))
            /\ Head(cpq).kind = "cmd" =>
                 /\ Head(cpq).val \in (b + 1)..Len(cmds)
                 /\ WaitingFrom(cpq', Head(cpq).val, Len(cmds))
        BY <1>3, <2>2, WaitingRead
      <3>2. CASE Head(cpq).kind = "cmd"
        <4> DEFINE v == Head(cpq).val
        <4>1. v \in (b + 1)..Len(cmds) /\ WaitingFrom(cpq', v, Len(cmds)) /\ cp'.data.val = v
          BY <2>2, <3>1, <3>2
        <4> HIDE DEF v
        <4>2. v \in Nat /\ b <= v /\ v <= Len(cmds)
          BY <1>3, <4>1
        <4> QED  BY <4>1, <4>2 DEF HeldIs
      <3>3. CASE Head(cpq).kind # "cmd"
        <4>1. HeldIs(cp', b)
          BY <2>2, <3>3 DEF HeldIs
        <4> QED  BY <1>3, <3>1, <4>1
      <3> QED  BY <3>2, <3>3
    <2> QED  BY <1>2, <2>1, <2>2 DEF TakesCommand
  <1>5. ASSUME NEW x, x.id \in PlainCmds => x.data.val = b2
        PROVE  OutUpTo(toPd, a, b2) /\ OutUpTo(Append(toPd, x), a, b2)
    BY <1>1, <1>3, <1>4, <1>5, OutMore
  <1>6. Garbled.id \notin PlainCmds
    BY DEF Garbled, Packet, PlainCmds
  <1>7. OutUpTo(toPd', a, b2)
    <2>1. CASE toPd' = toPd
      BY <1>5, <1>6, <2>1
    <2>2. CASE toPd' = Append(toPd, Garbled)
      BY <1>5, <1>6, <2>2
    <2>3. CASE toPd' # toPd /\ toPd' = Append(toPd, CpPacket(cp'))
      <3>1. CpPacket(cp').id = cp'.cmd /\ CpPacket(cp').data = CmdPayload(cp')
        BY DEF CpPacket, Packet
      <3>2. cp'.cmd \in PlainCmds => CmdPayload(cp') = cp'.data
        BY DEF CmdPayload
      <3>3. CpPacket(cp').id \in PlainCmds => CpPacket(cp').data.val = b2
        BY <1>2, <1>4, <2>3, <3>1, <3>2 DEF HeldIs
      <3> QED  BY <1>5, <2>3, <3>3
    <2> QED  BY <1>2, <2>1, <2>2, <2>3
  <1>8. a <= b2
    BY <1>1, <1>4
  <1>9. PanelCommands(b2)' /\ ReaderCommands(a, b2)'
    BY <1>2, <1>3, <1>4, <1>7 DEF PanelCommands, ReaderCommands
  <1> QED  BY <1>8, <1>9

\* After a reply or a wait no answer is due any more, or the command in hand is what it was.
LEMMA PanelWaits ==
    ASSUME CpOk(cp), CpReceive \/ CpTimeout \/ CpRetryOnline \/ CpRetrySc
    PROVE  \/ cp'.phy = "idle"
           \/ /\ cp.phy # "idle" /\ cp'.cmd = cp.cmd /\ cp'.data = cp.data
              /\ cp.st # "OFFLINE" => cp'.st = cp.st /\ cp'.cpr = cp.cpr /\ cp'.rmac = cp.rmac
  <1>1. DOMAIN cp = CpFields
    BY DEF CpOk, CpFine
  <1>2. CASE CpReceive
    BY <1>2, PanelReceives
  <1>3. CASE CpTimeout
    <2>1. CASE CpError(cp)
      <3>1. Settle(cp, ErrNext(cp)) /\ CpFine(cp)
        BY <2>1 DEF CpError, CpOk
      <3> QED  BY <3>1, ErrOutcome
    <2>2. CASE cp' = [cp EXCEPT !.phy = "wait", !.retry = @ + 1]
      BY <1>1, <1>3, <2>2 DEF CpTimeout, CpFields
    <2> QED  BY <1>3, <2>1, <2>2 DEF CpTimeout
  <1>4. CASE CpRetryOnline
    BY <1>1, <1>4 DEF CpRetryOnline, CpFields
  <1>5. CASE CpRetrySc
    <2> DEFINE e == [cp EXCEPT !.st = "SC_CHLNG"]
               online == "ONLINE" \in {cp.st, e.st}
               m == [e EXCEPT !.phy = "idle", !.evreq = @ /\ ~online]
    <2>1. cp' = IF m.st = cp.st THEN m
                ELSE CASE m.st = "OFFLINE"  -> [m EXCEPT !.sc = FALSE]
                       [] m.st = "SC_CHLNG" ->
                            [m EXCEPT !.cpr = FreshNonce, !.pdr = 0, !.rmac = 0]
                       [] OTHER             -> m
      BY <1>5 DEF CpRetrySc, Settle
    <2>2. DOMAIN m = CpFields /\ m.phy = "idle"
      BY <1>1 DEF CpFields
    <2> HIDE DEF m
    <2> QED  BY <2>1, <2>2 DEF CpFields
  <1> QED  BY <1>2, <1>3, <1>4, <1>5

LEMMA CommandsWaited ==
    ASSUME CommandInv, CpReceive \/ CpTimeout \/ CpRetryOnline \/ CpRetrySc
    PROVE  \E a, b \in Nat : a <= b /\ PanelCommands(b)' /\ ReaderCommands(a, b)'
  <1>1. PICK a, b \in Nat : a <= b /\ PanelCommands(b) /\ ReaderCommands(a, b)
    BY DEF CommandInv
  <1>2. UNCHANGED <<cpq, cmds, toPd, executed>>
    BY DEF CpReceive, CpTimeout, CpRetryOnline, CpRetrySc, pdSide, submitted
  <1>3. \/ cp'.phy = "idle"
        \/ cp.phy # "idle" /\ cp'.cmd = cp.cmd /\ cp'.data = cp.data
    BY PanelWaits DEF CommandInv, Frame
  <1>4. HeldIs(cp', b)
    BY <1>1, <1>3 DEF PanelCommands, HeldIs
  <1> QED  BY <1>1, <1>2, <1>4 DEF PanelCommands, ReaderCommands

LEMMA CommandsAnswered ==
    ASSUME CommandInv, PdReceive
    PROVE  \E a, b \in Nat : a <= b /\ PanelCommands(b)' /\ ReaderCommands(a, b)'
  <1>1. PICK a, b \in Nat : a <= b /\ PanelCommands(b) /\ ReaderCommands(a, b)
    BY DEF CommandInv
  <1> DEFINE p == Head(toPd)
  <1>2. /\ toPd # <<>> /\ toPd' = Tail(toPd) /\ UNCHANGED <<cp, cpq, cmds>>
        /\ \/ executed' = executed
           \/ /\ p.id \in PlainCmds
              /\ \E ok \in BOOLEAN : executed' = Append(executed, <<p.data.val, ok>>)
    BY AnswersReceived DEF CommandInv, Answers, cpSide, submitted
  <1>3. /\ IsSeq(toPd) /\ OutUpTo(toPd, a, b) /\ DoneUpTo(executed, a)
    BY <1>1 DEF ReaderCommands, CommandInv, Frame
  <1>4. /\ OutUpTo(toPd', a, b)
        /\ p.id \in PlainCmds => p.data.val \in a..b /\ OutUpTo(toPd', p.data.val, b)
    BY <1>1, <1>2, <1>3, OutRead
  <1>5. PanelCommands(b)'
    BY <1>1, <1>2 DEF PanelCommands
  <1>6. CASE executed' = executed
    BY <1>1, <1>3, <1>4, <1>5, <1>6 DEF ReaderCommands
  <1>7. CASE /\ p.id \in PlainCmds
             /\ \E ok \in BOOLEAN : executed' = Append(executed, <<p.data.val, ok>>)
    <2> DEFINE v == p.data.val
    <2>1. PICK ok \in BOOLEAN : executed' = Append(executed, <<v, ok>>)
      BY <1>7
    <2>2. v \in a..b /\ OutUpTo(toPd', v, b)
      BY <1>4, <1>7
    <2> HIDE DEF v
    <2>3. v \in Nat /\ a <= v /\ v <= b /\ <<v, ok>>[1] = v
      BY <1>1, <2>2
    <2>4. DoneUpTo(executed', v)
      BY <1>1, <1>3, <2>1, <2>3, DoneMore
    <2> QED  BY <1>5, <2>2, <2>3, <2>4 DEF ReaderCommands
  <1> QED  BY <1>2, <1>6, <1>7

LEMMA CommandsSubmitted ==
    ASSUME CommandInv, \/ \E kind \in PlainCmds : CpSubmit(kind)
                       \/ \E k \in NewKeys : CpSubmitKeyset(k)
    PROVE  \E a, b \in Nat : a <= b /\ PanelCommands(b)' /\ ReaderCommands(a, b)'
  <1>1. PICK a, b \in Nat : a <= b /\ PanelCommands(b) /\ ReaderCommands(a, b)
    BY DEF CommandInv
  <1>2. UNCHANGED <<cp, toPd, executed>>
    BY DEF CpSubmit, CpSubmitKeyset, pdSide
  <1>3. /\ cmds \in Seq(PlainCmds) /\ Len(cmds) \in Nat /\ IsSeq(cpq)
        /\ b <= Len(cmds) /\ HeldIs(cp, b) /\ WaitingFrom(cpq, b, Len(cmds))
    BY <1>1 DEF PanelCommands, CommandInv, Frame, Commands
  <1>4. CASE \E kind \in PlainCmds : CpSubmit(kind)
    <2>1. Len(cmds') = Len(cmds) + 1 /\ cpq' = Append(cpq, CmdData(Len(cmds')))
      BY <1>3, <1>4 DEF CpSubmit
    <2> DEFINE x == CmdData(Len(cmds'))
    <2>2. x.val = Len(cmds) + 1
      BY <2>1 DEF CmdData
    <2>3. cpq' = Append(cpq, x)
      BY <2>1
    <2> HIDE DEF x
    <2>4. WaitingFrom(cpq', b, Len(cmds'))
      <3>1. /\ Len(cmds') \in {Len(cmds), Len(cmds) + 1}
            /\ x.val = Len(cmds) + 1 /\ Len(cmds') = Len(cmds) + 1
        BY <2>1, <2>2
      <3>2. WaitingFrom(Append(cpq, x), b, Len(cmds'))
        BY <1>1, <1>3, <3>1, WaitingMore
      <3> QED  BY <2>3, <3>2
    <2>5. b <= Len(cmds')
      BY <1>3, <2>1
    <2> QED  BY <1>1, <1>2, <1>3, <2>4, <2>5 DEF PanelCommands, ReaderCommands
  <1>5. CASE \E k \in NewKeys : CpSubmitKeyset(k)
    <2>1. PICK k : cmds' = cmds /\ cpq' = Append(cpq, KeyData(k))
      BY <1>5 DEF CpSubmitKeyset, submitted
    <2>2. KeyData(k).kind = "key"
      BY DEF KeyData
    <2>3. WaitingFrom(cpq', b, Len(cmds'))
      BY <1>1, <1>3, <2>1, <2>2, WaitingMore
    <2> QED  BY <1>1, <1>2, <1>3, <2>1, <2>3 DEF PanelCommands, ReaderCommands
  <1> QED  BY <1>4, <1>5

LEMMA CommandsKept ==
    ASSUME CommandInv, [Next]_vars
    PROVE  CommandInv'
  <1>1. Frame'
    BY FrameKept DEF CommandInv
  <1>2. PICK a, b \in Nat : a <= b /\ PanelCommands(b) /\ ReaderCommands(a, b)
    BY DEF CommandInv
  <1>3. CASE PdSubmit \/ PdScTimeout \/ UNCHANGED vars
    <2>1. UNCHANGED <<cp, cpq, cmds, toPd, executed>>
      BY <1>3 DEF PdSubmit, PdScTimeout, vars, cpSide, pdSide, submitted
    <2> QED  BY <1>1, <1>2, <2>1 DEF PanelCommands, ReaderCommands, CommandInv
  <1>4. CASE PdReset
    <2>1. UNCHANGED <<cp, cpq, cmds, executed>> /\ toPd' = <<>>
      BY <1>4 DEF PdReset, cpSide, submitted
    <2>2. OutUpTo(toPd', a, b)
      BY <2>1 DEF OutUpTo
    <2> QED  BY <1>1, <1>2, <2>1, <2>2 DEF PanelCommands, ReaderCommands, CommandInv
  <1> QED  BY <1>1, <1>3, <1>4, StepsOfNext, CommandsTransmitted, CommandsWaited,
              CommandsAnswered, CommandsSubmitted
           DEF NotThePanel, CommandInv

LEMMA CommandsInit == Init => CommandInv
  <1> SUFFICES ASSUME Init PROVE CommandInv
    OBVIOUS
  <1>1. cp = CpBoot /\ cpq = <<>> /\ toPd = <<>> /\ cmds = <<>> /\ executed = <<>>
    BY DEF Init
  <1>2. Frame
    BY FrameInit
  <1>3. PanelCommands(0)
    BY <1>1 DEF PanelCommands, HeldIs, WaitingFrom, CpBoot
  <1>4. ReaderCommands(0, 0)
    <2>1. <<>> \in Seq({})
      OBVIOUS
    <2> QED  BY <1>1, <2>1 DEF ReaderCommands, DoneUpTo, OutUpTo, IsSeq
  <1> QED  BY <1>2, <1>3, <1>4 DEF CommandInv

\* Commands are carried out in the order they were submitted, although a retry may repeat one,
\* whatever is lost, late or restarted, with and without a session and however many wait
\* (cp_submit_command, cp_get_online_command, cp_phy_state_update, pd_decode_command).
THEOREM CommandsStayInOrder == Spec => []CommandsInOrder
  <1>1. Init => CommandInv
    BY CommandsInit
  <1>2. CommandInv /\ [Next]_vars => CommandInv'
    BY CommandsKept
  <1>3. CommandInv => CommandsInOrder
    <2> SUFFICES ASSUME CommandInv PROVE CommandsInOrder
      OBVIOUS
    <2>1. PICK a \in Nat : DoneUpTo(executed, a)
      BY DEF CommandInv, ReaderCommands
    <2>2. DOMAIN executed = 1..Len(executed)
      BY <2>1 DEF DoneUpTo, IsSeq
    <2> QED  BY <2>1, <2>2 DEF DoneUpTo, CommandsInOrder
  <1> QED  BY <1>1, <1>2, <1>3, PTL DEF Spec

-----------------------------------------------------------------------------

(* On a line without faults both ends keep one address and one key         *)

\* What the panel needs to know of a key it is sending.
KeyInHand(c) ==
    /\ c.st = "OFFLINE" => c.phy = "idle"
    /\ c.st = "SET_SCBK" => c.useD /\ c.data = KeyData(c.key)
    /\ c.st = "ONLINE" /\ c.sc => ~c.useD
    /\ c.phy # "idle" =>
         /\ c.st = "SET_SCBK" => c.cmd = "KEYSET"
         /\ c.cmd = "KEYSET" => \/ c.st = "SET_SCBK"
                                \/ c.st = "ONLINE" /\ ~c.useD /\ c.data = KeyData(c.data.val)

KeysQueued == \A i \in 1..Len(cpq) : cpq[i].kind = "cmd" \/ cpq[i] = KeyData(cpq[i].val)

SameAddr == pd.addr = cp.addr
SameKey == PdKey \in {CpKey, NoKey} => pd.key = cp.key \/ pd.install

\* A reply of the reader that tells of its new address, or of its new key, and that the panel
\* will take.
Taken(r) == r.addr = cp.addr /\ Accepts(cp, r)
NewAddr(r) == cp.cmd = "COMSET" /\ r.data.val = pd.addr /\ Taken(r)
NewKey(r) == cp.cmd = "KEYSET" /\ cp.data = KeyData(pd.key) /\ Taken(r)
Due(r) ==
    /\ r.id # "COM" => SameAddr
    /\ r.id = "COM" => NewAddr(r)
    /\ ~(r.id = "ACK" /\ cp.cmd = "KEYSET") => SameKey
    /\ r.id = "ACK" /\ cp.cmd = "KEYSET" => NewKey(r)

\* Nothing is under way, or the command in hand is, or its answer.
Resting == cp.phy = "idle" /\ toPd = <<>> /\ toCp = <<>> /\ SameAddr /\ SameKey
Asking == cp.phy = "reply" /\ toPd = <<CpPacket(cp)>> /\ toCp = <<>> /\ SameAddr /\ SameKey
Answering == cp.phy = "reply" /\ toPd = <<>> /\ \E r : toCp = <<r>> /\ Due(r)

LockInv ==
    /\ Shapes /\ KeyInHand(cp) /\ KeysQueued /\ used \in [Stimuli -> Nat]
    /\ FaultFree => Resting \/ Asking \/ Answering

LEMMA Faulty ==
    ASSUME used \in [Stimuli -> Nat], NEW s \in {"fault", "late", "reset"}, NEW max, Use(s, max)
    PROVE  used' \in [Stimuli -> Nat] /\ ~FaultFree' /\ used' # used
  <1>1. s \in Stimuli /\ {"fault", "late", "reset"} \subseteq Stimuli
    BY DEF Stimuli
  <1>2. used' = [used EXCEPT ![s] = @ + 1]
    BY DEF Use
  <1>3. used' \in [Stimuli -> Nat] /\ used'[s] = used[s] + 1 /\ used[s] \in Nat
    BY <1>1, <1>2
  <1>4. /\ used'["fault"] \in Nat /\ used'["late"] \in Nat /\ used'["reset"] \in Nat
    BY <1>1, <1>3
  <1>5. used'[s] > 0 /\ used'[s] # used[s]
    BY <1>3
  <1>6. used'["fault"] + used'["late"] + used'["reset"] # 0
    <2>1. \A a, b, c \in Nat : a > 0 \/ b > 0 \/ c > 0 => a + b + c # 0
      BY ONLY TRUE
    <2>2. used'["fault"] > 0 \/ used'["late"] > 0 \/ used'["reset"] > 0
      BY <1>5
    <2> QED  BY ONLY <1>4, <2>1, <2>2
  <1> QED  BY <1>3, <1>5, <1>6 DEF FaultFree

\* A packet arrives, unless there is a fault.
LEMMA Arrives ==
    ASSUME used \in [Stimuli -> Nat], NEW x, Transmit(toPd, x) \/ Transmit(toCp, x)
    PROVE  /\ used' \in [Stimuli -> Nat] /\ (used' # used => ~FaultFree')
           /\ used' = used /\ Transmit(toPd, x) => toPd' = Append(toPd, x)
           /\ used' = used /\ Transmit(toCp, x) => toCp' = Append(toCp, x)
  BY Faulty DEF Transmit

-----------------------------------------------------------------------------

LEMMA ErrKeys ==
    ASSUME NEW c, CpFine(c), Settle(c, ErrNext(c))
    PROVE  KeyInHand(cp') /\ cp'.key = c.key /\ cp'.addr = c.addr /\ cp'.phy = "idle"
  <1>1. /\ DOMAIN c = CpFields /\ c.st \in States
        /\ c.st \notin {"SET_SCBK", "ONLINE"} => ~c.sc
    BY DEF CpFine
  <1> DEFINE e == ErrNext(c)
             m == [e EXCEPT !.phy = "idle",
                            !.evreq = e.evreq /\ ~("ONLINE" \in {c.st, e.st})]
  <1>2. /\ DOMAIN e = CpFields /\ e.key = c.key /\ e.addr = c.addr /\ e.st # "SET_SCBK"
        /\ e.st = "ONLINE" => ~e.sc
    BY <1>1 DEF ErrNext, CpFields, States
  <1>3. cp' = IF m.st = c.st THEN m
              ELSE CASE m.st = "OFFLINE"  -> [m EXCEPT !.sc = FALSE]
                     [] m.st = "SC_CHLNG" -> [m EXCEPT !.cpr = FreshNonce, !.pdr = 0, !.rmac = 0]
                     [] OTHER             -> m
    BY DEF Settle
  <1> HIDE DEF e
  <1>4. /\ DOMAIN m = CpFields /\ m.st = e.st /\ m.sc = e.sc /\ m.key = e.key
        /\ m.addr = e.addr /\ m.phy = "idle"
    BY <1>2 DEF CpFields
  <1> HIDE DEF m
  <1>5. /\ cp'.st = m.st /\ cp'.key = m.key /\ cp'.addr = m.addr /\ cp'.phy = "idle"
        /\ m.st = "ONLINE" => cp'.sc = m.sc
    BY <1>3, <1>4 DEF CpFields
  <1> QED  BY <1>2, <1>4, <1>5 DEF KeyInHand

LEMMA OkKeys ==
    ASSUME NEW c, CpOk(c), Settle(c, OkNext(c)), c.st = "ONLINE" /\ c.sc => ~c.useD
    PROVE  /\ KeyInHand(cp') /\ cp'.addr = c.addr /\ cp'.phy = "idle"
           /\ c.st = "SET_SCBK" \/ (c.st = "ONLINE" /\ c.cmd = "KEYSET") =>
                cp'.key = IF c.useD THEN c.key ELSE c.data.val
           /\ ~(c.st = "SET_SCBK" \/ (c.st = "ONLINE" /\ c.cmd = "KEYSET")) => cp'.key = c.key
  <1>1. /\ DOMAIN c = CpFields /\ c.st \in States
        /\ c.st \notin {"SET_SCBK", "ONLINE"} => ~c.sc
    BY DEF CpOk, CpFine
  <1> DEFINE e == OkNext(c)
             m == [e EXCEPT !.phy = "idle",
                            !.evreq = e.evreq /\ ~("ONLINE" \in {c.st, e.st})]
  <1>2. /\ DOMAIN e = CpFields /\ e.addr = c.addr
        /\ e.st = "SET_SCBK" => e.useD /\ e.data = KeyData(e.key)
        /\ e.st = "ONLINE" /\ e.sc => ~e.useD
        /\ c.st = "SET_SCBK" \/ (c.st = "ONLINE" /\ c.cmd = "KEYSET") =>
             e.key = IF c.useD THEN c.key ELSE c.data.val
        /\ ~(c.st = "SET_SCBK" \/ (c.st = "ONLINE" /\ c.cmd = "KEYSET")) => e.key = c.key
    BY <1>1 DEF OkNext, KeysetComplete, CpFields, States
  <1>3. cp' = IF m.st = c.st THEN m
              ELSE CASE m.st = "OFFLINE"  -> [m EXCEPT !.sc = FALSE]
                     [] m.st = "SC_CHLNG" -> [m EXCEPT !.cpr = FreshNonce, !.pdr = 0, !.rmac = 0]
                     [] OTHER             -> m
    BY DEF Settle
  <1> HIDE DEF e
  <1>4. /\ DOMAIN m = CpFields /\ m.st = e.st /\ m.sc = e.sc /\ m.key = e.key /\ m.useD = e.useD
        /\ m.addr = e.addr /\ m.data = e.data /\ m.phy = "idle"
    BY <1>2 DEF CpFields
  <1> HIDE DEF m
  <1>5. /\ cp'.st = m.st /\ cp'.key = m.key /\ cp'.addr = m.addr /\ cp'.phy = "idle"
        /\ cp'.useD = m.useD /\ cp'.data = m.data
        /\ m.st = "ONLINE" => cp'.sc = m.sc
    BY <1>3, <1>4 DEF CpFields
  <1> QED  BY <1>2, <1>4, <1>5 DEF KeyInHand

\* What a reply makes of the panel's address and key.
ReplyTaken(p) ==
    /\ p.id # "COM" => cp'.addr = cp.addr
    /\ p.id = "COM" /\ Taken(p) => cp'.addr = p.data.val
    /\ ~(p.id = "ACK" /\ cp.cmd = "KEYSET") => cp'.key = cp.key
    /\ p.id = "ACK" /\ cp.cmd = "KEYSET" /\ Taken(p) => cp'.key = cp.data.val

LEMMA PanelKeys ==
    ASSUME CpOk(cp), KeyInHand(cp), CpReceive
    PROVE  KeyInHand(cp') /\ cp'.phy = "idle" /\ ReplyTaken(Head(toCp))
  <1> USE DEF CpFields
  <1> DEFINE p == Head(toCp)
             c == [cp EXCEPT !.rb = RxRb(toCp)]
  <1>1. /\ cp.phy = "reply"
        /\ IF p = Garbled \/ p.addr # c.addr THEN CpError(c)
           ELSE IF ~Accepts(c, p) THEN CpError(Bad(c, p))
           ELSE IF HandshakeError(c, p) THEN CpError(c)
           ELSE CpDone(Decoded(c, p), p.id)
    BY DEF CpReceive
  <1>2. /\ DOMAIN c = CpFields /\ CpOk(c)
        /\ c.st = cp.st /\ c.sc = cp.sc /\ c.cmd = cp.cmd /\ c.useD = cp.useD /\ c.key = cp.key
        /\ c.data = cp.data /\ c.addr = cp.addr /\ c.seq = cp.seq /\ c.rmac = cp.rmac
        /\ CpCrypt(c) = CpCrypt(cp)
    BY DEF CpOk, CpFine, CpCrypt, CpSessionKey
  <1>3. Accepts(c, p) <=> Accepts(cp, p)
    BY <1>2 DEF Accepts, CpMac
  <1>4. p.id \in {"COM", "ACK"} => p # Garbled /\ ~HandshakeError(c, p)
    BY DEF Garbled, Packet, HandshakeError
  <1> HIDE DEF p, c
  <1>5. ASSUME NEW e, CpError(e), CpFine(e), e.key = c.key, e.addr = c.addr
        PROVE  KeyInHand(cp') /\ cp'.phy = "idle" /\ cp'.key = cp.key /\ cp'.addr = cp.addr
    BY <1>2, <1>5, ErrKeys DEF CpError
  <1>6. CASE /\ ~(p # Garbled /\ p.addr = c.addr /\ Accepts(c, p) /\ ~HandshakeError(c, p))
             /\ CpError(c) \/ CpError(Bad(c, p))
    <2>1. CpFine(Bad(c, p)) /\ Bad(c, p).key = c.key /\ Bad(c, p).addr = c.addr
      BY <1>2 DEF Bad, CpOk, CpFine
    <2>2. KeyInHand(cp') /\ cp'.phy = "idle" /\ cp'.key = cp.key /\ cp'.addr = cp.addr
      BY <1>2, <1>5, <1>6, <2>1 DEF CpOk
    <2>3. p.id \in {"COM", "ACK"} => ~Taken(p)
      BY <1>2, <1>3, <1>4, <1>6 DEF Taken
    <2> QED  BY <2>2, <2>3 DEF ReplyTaken, p
  <1>7. CASE CpDone(Decoded(c, p), p.id)
    <2> DEFINE m == Decoded(c, p)
               e == [m EXCEPT !.retry = 0]
    <2>1. /\ DOMAIN m = CpFields /\ m.st = c.st /\ m.sc = c.sc /\ m.cmd = c.cmd
          /\ m.useD = c.useD /\ m.key = c.key
          /\ m.addr = IF p.id = "COM" THEN p.data.val ELSE c.addr
          /\ p.id = "ACK" => m.data = c.data
      BY <1>2 DEF Decoded, TakeEvent
    <2>2. IF Expected(e, p.id) THEN Settle(e, OkNext(e)) ELSE CpError(e)
      BY <1>7 DEF CpDone
    <2> HIDE DEF m
    <2>3. /\ DOMAIN e = CpFields /\ e.st = c.st /\ e.sc = c.sc /\ e.cmd = c.cmd
          /\ e.useD = c.useD /\ e.key = c.key
          /\ e.addr = IF p.id = "COM" THEN p.data.val ELSE c.addr
          /\ p.id = "ACK" => e.data = c.data
      BY <2>1
    <2> HIDE DEF e
    <2>4. CpOk(e)
      BY <1>2, <2>3 DEF CpOk, CpFine
    <2>5. /\ cp.st = "OFFLINE" => FALSE
          /\ cp.st = "SET_SCBK" => cp.cmd = "KEYSET" /\ cp.useD /\ cp.data = KeyData(cp.key)
          /\ cp.cmd = "KEYSET" => cp.st = "SET_SCBK" \/ (cp.st = "ONLINE" /\ ~cp.useD)
          /\ cp.st = "ONLINE" /\ cp.sc => ~cp.useD
      BY <1>1 DEF KeyInHand
    <2>6. CASE CpError(e) /\ ~Expected(e, p.id)
      <3>1. KeyInHand(cp') /\ cp'.phy = "idle" /\ cp'.key = e.key /\ cp'.addr = e.addr
        BY <2>4, <2>6, ErrKeys DEF CpError, CpOk
      <3>2. ~(p.id = "ACK" /\ cp.cmd = "KEYSET")
        BY <1>2, <2>3, <2>5, <2>6 DEF Expected
      <3> QED  BY <1>2, <2>3, <3>1, <3>2 DEF ReplyTaken, p
    <2>7. CASE Settle(e, OkNext(e)) /\ Expected(e, p.id)
      <3>1. /\ KeyInHand(cp') /\ cp'.addr = e.addr /\ cp'.phy = "idle"
            /\ e.st = "SET_SCBK" \/ (e.st = "ONLINE" /\ e.cmd = "KEYSET") =>
                 cp'.key = IF e.useD THEN e.key ELSE e.data.val
            /\ ~(e.st = "SET_SCBK" \/ (e.st = "ONLINE" /\ e.cmd = "KEYSET")) => cp'.key = e.key
        BY <1>2, <2>3, <2>4, <2>5, <2>7, OkKeys
      <3>2. e.st = "SET_SCBK" \/ (e.st = "ONLINE" /\ e.cmd = "KEYSET") =>
              p.id = "ACK" /\ cp.cmd = "KEYSET"
        BY <1>2, <2>3, <2>5, <2>7 DEF Expected
      <3>3. p.id = "ACK" /\ cp.cmd = "KEYSET" => cp'.key = cp.data.val
        BY <1>2, <2>3, <2>5, <3>1 DEF KeyData
      <3>4. ~(p.id = "ACK" /\ cp.cmd = "KEYSET") => cp'.key = cp.key
        BY <1>2, <2>3, <3>1, <3>2
      <3> QED  BY <1>2, <2>3, <3>1, <3>3, <3>4 DEF ReplyTaken, p
    <2> QED  BY <2>2, <2>6, <2>7
  <1> QED  BY <1>1, <1>6, <1>7

-----------------------------------------------------------------------------

\* The panel's transmissions: the command in hand goes out, or a key change is dropped.
Sends ==
    \/ cp'.phy = "idle" /\ UNCHANGED <<toPd, toCp, used>>
    \/ /\ cp'.phy = "reply" /\ Transmit(toPd, CpPacket(cp'))
       /\ toCp' = IF HasFlush THEN SubSeq(toCp, 1, cp.rb) ELSE toCp

LEMMA PanelKeeps ==
    ASSUME CpOk(cp), KeyInHand(cp), KeysQueued, IsSeq(cpq), Commands,
           CpSetup \/ CpOnline \/ CpResend
    PROVE  /\ KeyInHand(cp') /\ KeysQueued' /\ cp'.key = cp.key /\ cp'.addr = cp.addr
           /\ Sends /\ cp.phy # "reply" /\ (CpResend => cp.phy = "wait")
           /\ UNCHANGED <<pd, cmds>>
  <1> USE DEF CpFields
  <1>1. DOMAIN cp = CpFields /\ cp.st \in States
    BY DEF CpOk, CpFine
  <1>2. ASSUME NEW c, DOMAIN c = CpFields, CpTransmit(c), c.rb = cp.rb, c.key = cp.key,
               c.addr = cp.addr, KeyInHand([c EXCEPT !.phy = "reply"])
        PROVE  KeyInHand(cp') /\ cp'.key = cp.key /\ cp'.addr = cp.addr /\ Sends
    <2>1. /\ cp' = [c EXCEPT !.phy = "reply", !.seq = NextSeq(@)]
          /\ Transmit(toPd, CpPacket(cp'))
          /\ toCp' = IF HasFlush THEN SubSeq(toCp, 1, c.rb) ELSE toCp
      BY <1>2 DEF CpTransmit
    <2>2. /\ cp'.phy = "reply" /\ cp'.key = c.key /\ cp'.addr = c.addr
          /\ cp'.st = c.st /\ cp'.sc = c.sc /\ cp'.useD = c.useD /\ cp'.data = c.data
          /\ cp'.cmd = c.cmd
      BY <1>2, <2>1
    <2> DEFINE r == [c EXCEPT !.phy = "reply"]
    <2>3. /\ r.phy = "reply" /\ r.key = c.key /\ r.st = c.st /\ r.sc = c.sc /\ r.useD = c.useD
          /\ r.data = c.data /\ r.cmd = c.cmd
      BY <1>2
    <2>4. KeyInHand(r)
      BY <1>2
    <2> HIDE DEF r
    <2>5. KeyInHand(cp')
      BY <2>2, <2>3, <2>4 DEF KeyInHand
    <2> QED  BY <1>2, <2>1, <2>2, <2>5 DEF Sends
  <1>3. CASE CpSetup
    <2> DEFINE c == [cp EXCEPT !.cmd = HandshakeCmd(cp.st)]
    <2>1. CpTransmit(c) /\ cp.phy = "idle" /\ UNCHANGED <<cpq, pd, cmds>>
      BY <1>3 DEF CpSetup, pdSide, submitted
    <2>2. /\ DOMAIN c = CpFields /\ c.rb = cp.rb /\ c.key = cp.key /\ c.addr = cp.addr
      BY <1>1
    <2>3. KeyInHand([c EXCEPT !.phy = "reply"])
      <3> DEFINE r == [c EXCEPT !.phy = "reply"]
      <3>1. /\ r.phy = "reply" /\ r.key = cp.key /\ r.st = cp.st /\ r.sc = cp.sc
            /\ r.useD = cp.useD /\ r.data = cp.data /\ r.cmd = HandshakeCmd(cp.st)
        BY <1>1
      <3>2. cp.st \notin {"ONLINE", "OFFLINE"}
        BY <1>3 DEF CpSetup
      <3>3. HandshakeCmd(cp.st) = "KEYSET" <=> cp.st = "SET_SCBK"
        BY <1>1, <3>2 DEF HandshakeCmd, States
      <3> HIDE DEF r
      <3>4. KeyInHand(r)
        BY <3>1, <3>2, <3>3 DEF KeyInHand
      <3> QED  BY <3>4 DEF r
    <2> HIDE DEF c
    <2>4. ~CpResend
      BY <2>1 DEF CpResend
    <2> QED  BY <1>2, <2>1, <2>2, <2>3, <2>4 DEF KeysQueued
  <1>4. CASE CpOnline
    <2>1. cp.st = "ONLINE" /\ cp.phy = "idle" /\ UNCHANGED <<pd, cmds>> /\ ~CpResend
      BY <1>4 DEF CpOnline, CpResend, pdSide, submitted
    <2>2. CASE cpq = <<>>
      <3> DEFINE c == [cp EXCEPT !.cmd = "POLL"]
                 r == [c EXCEPT !.phy = "reply"]
      <3>1. CpTransmit(c) /\ UNCHANGED cpq
        BY <1>4, <2>2 DEF CpOnline
      <3>2. /\ DOMAIN c = CpFields /\ c.rb = cp.rb /\ c.key = cp.key /\ c.addr = cp.addr
            /\ r.phy = "reply" /\ r.key = cp.key /\ r.st = cp.st /\ r.sc = cp.sc
            /\ r.useD = cp.useD /\ r.data = cp.data /\ r.cmd = "POLL"
        BY <1>1
      <3> HIDE DEF r
      <3>3. KeyInHand(r)
        BY <2>1, <3>2 DEF KeyInHand
      <3> QED  BY <1>2, <2>1, <3>1, <3>2, <3>3 DEF KeysQueued, r
    <2>3. CASE cpq # <<>>
      <3> DEFINE h == [cp EXCEPT !.data = Head(cpq)]
      <3>1. /\ cpq' = Tail(cpq)
            /\ IF h.data.kind = "cmd" THEN CpTransmit([h EXCEPT !.cmd = cmds[h.data.val]])
               ELSE IF h.sc THEN CpTransmit([h EXCEPT !.cmd = "KEYSET"])
               ELSE cp' = h /\ UNCHANGED <<toPd, toCp, used>>
        BY <1>4, <2>3 DEF CpOnline
      <3>2. /\ Head(cpq) = cpq[1] /\ 1 \in 1..Len(cpq)
            /\ \A i \in 1..Len(Tail(cpq)) : i + 1 \in 1..Len(cpq) /\ Tail(cpq)[i] = cpq[i + 1]
        <4>1. /\ Len(cpq) \in Nat \ {0} /\ Len(Tail(cpq)) = Len(cpq) - 1 /\ Head(cpq) = cpq[1]
              /\ \A i \in 1..(Len(cpq) - 1) : Tail(cpq)[i] = cpq[i + 1]
          BY <2>3, TailOf
        <4> QED  BY <4>1
      <3>3. KeysQueued'
        BY <3>1, <3>2 DEF KeysQueued
      <3>4. /\ h.data.kind = "cmd" \/ h.data = KeyData(h.data.val)
            /\ h.data.kind = "cmd" => cmds[h.data.val] # "KEYSET"
        <4>1. h.data = cpq[1]
          BY <1>1, <3>2
        <4>2. cpq[1].kind = "cmd" \/ cpq[1] = KeyData(cpq[1].val)
          BY <3>2 DEF KeysQueued
        <4>3. cpq[1].kind = "cmd" => cmds[cpq[1].val] \in PlainCmds
          BY <3>2 DEF Commands
        <4>4. "KEYSET" \notin PlainCmds
          BY DEF PlainCmds
        <4> HIDE DEF h
        <4> QED  BY <4>1, <4>2, <4>3, <4>4
      <3>5. /\ DOMAIN h = CpFields /\ h.data = Head(cpq) /\ h.st = "ONLINE" /\ h.sc = cp.sc
            /\ h.useD = cp.useD /\ h.key = cp.key /\ h.addr = cp.addr /\ h.rb = cp.rb
            /\ h.phy = "idle" /\ h.cmd = cp.cmd
        BY <1>1, <2>1
      <3> HIDE DEF h
      <3>6. ASSUME NEW x, CpTransmit([h EXCEPT !.cmd = x]),
                   x # "KEYSET" \/ (h.sc /\ h.data = KeyData(h.data.val))
            PROVE  KeyInHand(cp') /\ cp'.key = cp.key /\ cp'.addr = cp.addr /\ Sends
        <4> DEFINE c == [h EXCEPT !.cmd = x]
                   r == [c EXCEPT !.phy = "reply"]
        <4>1. /\ DOMAIN c = CpFields /\ c.rb = cp.rb /\ c.key = cp.key /\ c.addr = cp.addr
              /\ r.phy = "reply" /\ r.key = cp.key /\ r.st = "ONLINE" /\ r.sc = cp.sc
              /\ r.useD = cp.useD /\ r.data = h.data /\ r.cmd = x
          BY <3>5
        <4>2. CpTransmit(c)
          BY <3>6
        <4> HIDE DEF r
        <4>3. KeyInHand(r)
          BY <2>1, <3>5, <3>6, <4>1 DEF KeyInHand
        <4> QED  BY <1>2, <4>1, <4>2, <4>3 DEF r
      <3>7. CASE cp' = h /\ UNCHANGED <<toPd, toCp, used>>
        <4>1. KeyInHand(cp')
          BY <2>1, <3>5, <3>7 DEF KeyInHand
        <4> QED  BY <2>1, <3>3, <3>5, <3>7, <4>1 DEF Sends
      <3> QED  BY <2>1, <3>1, <3>3, <3>4, <3>6, <3>7
    <2> QED  BY <2>2, <2>3
  <1>5. CASE CpResend
    <2>1. cp.phy = "wait" /\ CpTransmit(cp) /\ UNCHANGED <<cpq, pd, cmds>>
      BY <1>5 DEF CpResend, pdSide, submitted
    <2> DEFINE r == [cp EXCEPT !.phy = "reply"]
    <2>2. /\ r.phy = "reply" /\ r.key = cp.key /\ r.st = cp.st /\ r.sc = cp.sc
          /\ r.useD = cp.useD /\ r.data = cp.data /\ r.cmd = cp.cmd
      BY <1>1
    <2> HIDE DEF r
    <2>3. KeyInHand(r)
      BY <2>1, <2>2 DEF KeyInHand
    <2> QED  BY <1>1, <1>2, <2>1, <2>3 DEF KeysQueued, r
  <1> QED  BY <1>3, <1>4, <1>5

LEMMA PanelRests ==
    ASSUME CpOk(cp), KeyInHand(cp), CpTimeout \/ CpRetryOnline \/ CpRetrySc
    PROVE  /\ KeyInHand(cp') /\ cp'.key = cp.key /\ cp'.addr = cp.addr
           /\ CpTimeout \/ (cp.phy = "idle" /\ cp'.phy = "idle")
  <1> USE DEF CpFields
  <1>1. DOMAIN cp = CpFields /\ CpFine(cp)
    BY DEF CpOk, CpFine
  <1>2. CASE CpTimeout
    <2>1. CASE CpError(cp)
      BY <1>1, <1>2, <2>1, ErrKeys DEF CpError
    <2>2. CASE cp' = [cp EXCEPT !.phy = "wait", !.retry = @ + 1]
      <3>1. /\ cp'.phy = "wait" /\ cp.phy = "reply" /\ cp'.st = cp.st /\ cp'.sc = cp.sc
            /\ cp'.useD = cp.useD /\ cp'.data = cp.data /\ cp'.cmd = cp.cmd
            /\ cp'.key = cp.key /\ cp'.addr = cp.addr
        BY <1>1, <1>2, <2>2 DEF CpTimeout
      <3>2. KeyInHand(cp')
        BY <3>1 DEF KeyInHand
      <3> QED  BY <1>2, <3>1, <3>2
    <2> QED  BY <1>2, <2>1, <2>2 DEF CpTimeout
  <1>3. CASE CpRetryOnline
    <2>1. /\ cp.st = "OFFLINE" /\ cp.phy = "idle"
          /\ cp'.st = "INIT" /\ cp'.phy = cp.phy /\ cp'.key = cp.key /\ cp'.addr = cp.addr
      BY <1>1, <1>3 DEF CpRetryOnline, KeyInHand
    <2> QED  BY <2>1 DEF KeyInHand
  <1>4. CASE CpRetrySc
    <2> DEFINE e == [cp EXCEPT !.st = "SC_CHLNG"]
               m == [e EXCEPT !.phy = "idle",
                              !.evreq = e.evreq /\ ~("ONLINE" \in {cp.st, e.st})]
    <2>1. cp.phy = "idle" /\ cp.st = "ONLINE" /\ Settle(cp, e)
      BY <1>4 DEF CpRetrySc
    <2>2. /\ DOMAIN m = CpFields /\ m.st = "SC_CHLNG" /\ m.phy = "idle"
          /\ m.key = cp.key /\ m.addr = cp.addr
      BY <1>1
    <2>3. cp' = IF m.st = cp.st THEN m
                ELSE CASE m.st = "OFFLINE"  -> [m EXCEPT !.sc = FALSE]
                       [] m.st = "SC_CHLNG" ->
                            [m EXCEPT !.cpr = FreshNonce, !.pdr = 0, !.rmac = 0]
                       [] OTHER             -> m
      BY <2>1 DEF Settle
    <2> HIDE DEF m
    <2>4. /\ cp'.st = "SC_CHLNG" /\ cp'.phy = "idle" /\ cp'.key = cp.key /\ cp'.addr = cp.addr
      BY <2>1, <2>2, <2>3
    <2> QED  BY <2>1, <2>4 DEF KeyInHand
  <1> QED  BY <1>2, <1>3, <1>4

-----------------------------------------------------------------------------

\* What the reader's answer r to p tells of its address and key, d being the reader before and
\* e the reader after.
Echoes(p, r, d) ==
    /\ r.addr = d.addr /\ r.seq = p.seq
    /\ r.sec = p.sec /\ (r.sec = "none" \/ (r.sec = "mac" /\ r.auth = p.auth))
Serves(p, r, d, e) ==
    /\ r.id # "COM" => e.addr = d.addr
    /\ r.id = "COM" =>
         p.id = "COMSET" /\ r.data = p.data /\ e.addr = p.data.val /\ Echoes(p, r, d)
    /\ ~(r.id = "ACK" /\ p.id = "KEYSET") => e.key = d.key /\ e.install = d.install
    /\ r.id = "ACK" /\ p.id = "KEYSET" => e.key = p.data.val /\ Echoes(p, r, d)

\* The packet is of the reader's session, if it has one.
Genuine(p, d) ==
    /\ d.seq = p.seq
    /\ \/ d.sc /\ p.sec = "mac" /\ p.auth = Mac(PdCrypt(d), d.rmac, d.seq)
       \/ ~d.sc /\ p.sec = "none"
       \/ p.id \in {"CHLNG", "SCRYPT"}

LEMMA SentKeeps ==
    ASSUME NEW d, DOMAIN d = PdFields
    PROVE  /\ DOMAIN Sent(d) = PdFields /\ Sent(d).addr = d.addr
           /\ Sent(d).key = d.key /\ Sent(d).install = d.install
  BY DEF Sent, PdFields

LEMMA ReplyOf ==
    ASSUME NEW d, NEW id, NEW data, NEW chained, PdSendReply(d, id, data, chained)
    PROVE  \E r : /\ Transmit(toCp, r) /\ r.id = id /\ r.data = data
                  /\ r.addr = d.addr /\ r.seq = d.seq
                  /\ d.sc => r.sec = "mac" /\ r.auth = Mac(PdCrypt(d), d.rmac, chained)
                  /\ ~d.sc => r.sec = "none"
  <1>1. CASE d.sc
    <2>1. PICK r : /\ Transmit(toCp, r)
                   /\ r = Packet(d.addr, id, d.seq, "mac", Mac(PdCrypt(d), d.rmac, chained),
                                 FALSE, data)
      BY <1>1 DEF PdSendReply, PdSend
    <2> QED  BY <1>1, <2>1 DEF Packet
  <1>2. CASE ~d.sc
    <2>1. PICK r : /\ Transmit(toCp, r)
                   /\ r = Packet(d.addr, id, d.seq, "none", <<>>, FALSE, data)
      BY <1>2 DEF PdSendReply, PdSend
    <2> QED  BY <1>2, <2>1 DEF Packet
  <1> QED  BY <1>1, <1>2

LEMMA ServesPlainly ==
    ASSUME NEW p, NEW d, DOMAIN d = PdFields, NEW id, NEW data, NEW chained,
           PdReply(d, id, data, chained), id # "COM", ~(id = "ACK" /\ p.id = "KEYSET")
    PROVE  DOMAIN pd' = PdFields /\ \E r : Transmit(toCp, r) /\ Serves(p, r, d, pd')
  <1>1. PICK r : Transmit(toCp, r) /\ r.id = id
    BY ReplyOf DEF PdReply
  <1>2. pd' = Sent(d)
    BY DEF PdReply
  <1> QED  BY <1>1, <1>2, SentKeeps DEF Serves

LEMMA ServesCommand ==
    ASSUME NEW p, p.id \in PlainCmds, NEW d, DOMAIN d = PdFields, PdCommand(d, p)
    PROVE  /\ DOMAIN pd' = PdFields
           /\ \E r : Transmit(toCp, r) /\ (Genuine(p, d) => Serves(p, r, d, pd'))
  <1>1. PICK ok \in BOOLEAN :
          LET r == IF ok THEN CmdReply(p) ELSE RefusedReply(p) IN
          /\ PdSendReply(d, r.id, r.data, d.seq)
          /\ pd' = IF r.id = "COM" THEN [Sent(d) EXCEPT !.addr = p.data.val] ELSE Sent(d)
    BY DEF PdCommand
  <1> DEFINE a == IF ok THEN CmdReply(p) ELSE RefusedReply(p)
  <1>2. /\ a.id = "COM" => p.id = "COMSET" /\ a.data = p.data
        /\ p.id \notin {"KEYSET", "CHLNG", "SCRYPT"}
    BY DEF CmdReply, RefusedReply, PlainCmds
  <1>3. /\ PdSendReply(d, a.id, a.data, d.seq)
        /\ pd' = IF a.id = "COM" THEN [Sent(d) EXCEPT !.addr = p.data.val] ELSE Sent(d)
    BY <1>1
  <1> HIDE DEF a
  <1>4. PICK r : /\ Transmit(toCp, r) /\ r.id = a.id /\ r.data = a.data
                 /\ r.addr = d.addr /\ r.seq = d.seq
                 /\ d.sc => r.sec = "mac" /\ r.auth = Mac(PdCrypt(d), d.rmac, d.seq)
                 /\ ~d.sc => r.sec = "none"
    BY <1>3, ReplyOf
  <1>5. /\ DOMAIN pd' = PdFields /\ pd'.key = d.key /\ pd'.install = d.install
        /\ pd'.addr = IF a.id = "COM" THEN p.data.val ELSE d.addr
    BY <1>3, SentKeeps DEF PdFields
  <1>6. Genuine(p, d) => Echoes(p, r, d)
    BY <1>2, <1>4 DEF Genuine, Echoes
  <1> QED  BY <1>2, <1>4, <1>5, <1>6 DEF Serves

LEMMA ServesKeyset ==
    ASSUME NEW p, p.id = "KEYSET", NEW d, DOMAIN d = PdFields, PdKeyset(d, p)
    PROVE  /\ DOMAIN pd' = PdFields
           /\ \E r : Transmit(toCp, r) /\ (Genuine(p, d) => Serves(p, r, d, pd'))
  <1>1. CASE d.sc
    <2>1. /\ PdSendReply(d, "ACK", NoData, d.seq)
          /\ pd' = [Sent(d) EXCEPT !.key = p.data.val, !.useD = FALSE, !.install = FALSE,
                                   !.sc = FALSE]
      BY <1>1 DEF PdKeyset
    <2>2. PICK r : /\ Transmit(toCp, r) /\ r.id = "ACK" /\ r.addr = d.addr /\ r.seq = d.seq
                   /\ d.sc => r.sec = "mac" /\ r.auth = Mac(PdCrypt(d), d.rmac, d.seq)
      BY <2>1, ReplyOf
    <2>3. DOMAIN pd' = PdFields /\ pd'.key = p.data.val /\ pd'.addr = d.addr
      BY <2>1, SentKeeps DEF PdFields
    <2>4. Genuine(p, d) => Echoes(p, r, d)
      BY <1>1, <2>2 DEF Genuine, Echoes
    <2> QED  BY <2>2, <2>3, <2>4 DEF Serves
  <1>2. CASE ~d.sc
    BY <1>2, ServesPlainly DEF PdKeyset, PdAnswer
  <1> QED  BY <1>1, <1>2

LEMMA ServesHandshake ==
    ASSUME NEW p, NEW d, DOMAIN d = PdFields, PdChlng(d, p) \/ (p.id = "SCRYPT" /\ PdScrypt(d, p))
    PROVE  DOMAIN pd' = PdFields /\ \E r : Transmit(toCp, r) /\ Serves(p, r, d, pd')
  <1>1. CASE PdChlng(d, p)
    <2> DEFINE n == [d EXCEPT !.sc = FALSE, !.cpr = p.auth[2], !.pdr = FreshNonce, !.rmac = 0,
                              !.skey = IF d.useD THEN SCBKD ELSE d.key]
    <2>1. PdSend(n, "CCRYPT", "hs", PdCrypt(n), NoData) /\ pd' = n
      BY <1>1 DEF PdChlng
    <2>2. PICK r : Transmit(toCp, r) /\ r.id = "CCRYPT"
      BY <2>1 DEF PdSend, Packet
    <2>3. DOMAIN n = PdFields /\ n.addr = d.addr /\ n.key = d.key /\ n.install = d.install
      BY DEF PdFields
    <2> QED  BY <2>1, <2>2, <2>3 DEF Serves
  <1>2. CASE p.id = "SCRYPT" /\ PdScrypt(d, p)
    <2>1. CASE d.sc
      BY <1>2, <2>1, ServesPlainly DEF PdScrypt, PdAnswer
    <2>2. CASE ~d.sc
      <3>1. /\ PdSend(d, "RMAC_I", "hs", PdCrypt(d), NoData)
            /\ pd' = [d EXCEPT !.sc = (p.auth = PdCrypt(d)), !.rmac = 0]
        BY <1>2, <2>2 DEF PdScrypt
      <3>2. PICK r : Transmit(toCp, r) /\ r.id = "RMAC_I"
        BY <3>1 DEF PdSend, Packet
      <3>3. /\ DOMAIN pd' = PdFields /\ pd'.addr = d.addr /\ pd'.key = d.key
            /\ pd'.install = d.install
        BY <3>1 DEF PdFields
      <3> QED  BY <3>2, <3>3 DEF Serves
    <2> QED  BY <2>1, <2>2
  <1> QED  BY <1>1, <1>2

LEMMA ServesExecuted ==
    ASSUME NEW p, p.id \in CmdIds, NEW d, DOMAIN d = PdFields, PdExecute(d, p)
    PROVE  /\ DOMAIN pd' = PdFields
           /\ \E r : Transmit(toCp, r) /\ (Genuine(p, d) => Serves(p, r, d, pd'))
  <1>1. ASSUME NEW id \in {"NAK", "PDID", "PDCAP"}, PdAnswer(d, id)
        PROVE  DOMAIN pd' = PdFields /\ \E r : Transmit(toCp, r) /\ Serves(p, r, d, pd')
    BY <1>1, ServesPlainly DEF PdAnswer
  <1>2. CASE p.id = "POLL" /\ PdPoll(d)
    <2>1. \/ PdReply(d, "ACK", NoData, d.seq)
          \/ PdReply(d, "RAW", EventData(Head(pdq)), d.seq)
      BY <1>2 DEF PdPoll
    <2>2. CASE PdReply(d, "ACK", NoData, d.seq)
      BY <1>2, <2>2, ServesPlainly
    <2>3. CASE PdReply(d, "RAW", EventData(Head(pdq)), d.seq)
      BY <1>2, <2>3, ServesPlainly
    <2> QED  BY <2>1, <2>2, <2>3
  <1>3. CASE p.id = "KEYSET" /\ PdKeyset(d, p)
    BY <1>3, ServesKeyset
  <1>4. CASE PdChlng(d, p) \/ (p.id = "SCRYPT" /\ PdScrypt(d, p))
    BY <1>4, ServesHandshake
  <1>5. CASE p.id \in PlainCmds /\ PdCommand(d, p)
    BY <1>5, ServesCommand
  <1>6. \/ \E id \in {"NAK", "PDID", "PDCAP"} : PdAnswer(d, id)
        \/ p.id = "POLL" /\ PdPoll(d)
        \/ p.id = "KEYSET" /\ PdKeyset(d, p)
        \/ PdChlng(d, p) \/ (p.id = "SCRYPT" /\ PdScrypt(d, p))
        \/ p.id \in PlainCmds /\ PdCommand(d, p)
    <2>1. CASE Enforce /\ ~d.sc /\ p.id \notin {"ID", "CAP", "CHLNG", "SCRYPT"}
      BY <2>1 DEF PdExecute
    <2>2. CASE ~(Enforce /\ ~d.sc /\ p.id \notin {"ID", "CAP", "CHLNG", "SCRYPT"})
      BY <2>2 DEF PdExecute, CmdIds, PlainCmds
    <2> QED  BY <2>1, <2>2
  <1> QED  BY <1>1, <1>2, <1>3, <1>4, <1>5, <1>6

\* The reader's turn: no packet is left unanswered that is whole and meant for it.
LEMMA ReaderServes ==
    ASSUME Shapes, PdReceive, NEW p, p = Head(toPd), NEW mine,
           mine <=> /\ p # Garbled /\ p.addr = pd.addr
                    /\ p.sec = "hs" => p.id \in {"CHLNG", "SCRYPT"}
    PROVE  /\ toPd # <<>> /\ toPd' = Tail(toPd) /\ UNCHANGED <<cp, cpq, cmds>>
           /\ DOMAIN pd' = PdFields
           /\ \/ ~mine /\ UNCHANGED used
              \/ \E r : Transmit(toCp, r) /\ (mine => Serves(p, r, pd, pd'))
  <1> DEFINE d == PdSeq(pd, p)
  <1>1. /\ toPd # <<>> /\ toPd' = Tail(toPd) /\ UNCHANGED <<cp, cpq, cmds>>
        /\ IF p = Garbled THEN pd' = [pd EXCEPT !.sc = FALSE] /\ UNCHANGED used
           ELSE IF p.addr # pd.addr THEN UNCHANGED <<pd, used>>
           ELSE IF d.seq = p.seq THEN PdDecode(d, p) ELSE PdRefuse(d)
    BY DEF PdReceive, cpSide, pdSide, submitted
  <1>2. p = Garbled \/ p.id \in CmdIds
    <2>1. p = toPd[1] /\ 1 \in 1..Len(toPd)
      BY <1>1, TailOf DEF Shapes, Frame
    <2> QED  BY <2>1 DEF Shapes, Frame
  <1>3. DOMAIN pd = PdFields
    BY DEF Shapes
  <1>4. /\ DOMAIN d = PdFields /\ d.addr = pd.addr /\ d.key = pd.key /\ d.install = pd.install
    BY <1>3 DEF PdSeq, PdFields
  <1> HIDE DEF d
  <1>5. ASSUME NEW e, DOMAIN e = PdFields, e.addr = pd.addr, e.key = pd.key,
               e.install = pd.install, NEW r, Serves(p, r, e, pd')
        PROVE  Serves(p, r, pd, pd')
    BY <1>5 DEF Serves, Echoes
  <1>6. ASSUME NEW e, DOMAIN e = PdFields, e.addr = pd.addr, e.key = pd.key,
               e.install = pd.install, PdRefuse(e)
        PROVE  DOMAIN pd' = PdFields /\ \E r : Transmit(toCp, r) /\ Serves(p, r, pd, pd')
    <2>1. DOMAIN pd' = PdFields /\ \E r : Transmit(toCp, r) /\ Serves(p, r, e, pd')
      BY <1>6, ServesPlainly DEF PdRefuse
    <2> QED  BY <1>5, <1>6, <2>1
  <1>7. ASSUME NEW e, DOMAIN e = PdFields, e.addr = pd.addr, e.key = pd.key,
               e.install = pd.install, p # Garbled, PdExecute(e, p), mine => Genuine(p, e)
        PROVE  /\ DOMAIN pd' = PdFields
               /\ \E r : Transmit(toCp, r) /\ (mine => Serves(p, r, pd, pd'))
    <2>1. /\ DOMAIN pd' = PdFields
          /\ \E r : Transmit(toCp, r) /\ (Genuine(p, e) => Serves(p, r, e, pd'))
      BY <1>2, <1>7, ServesExecuted
    <2>2. PICK r : Transmit(toCp, r) /\ (Genuine(p, e) => Serves(p, r, e, pd'))
      BY <2>1
    <2> QED  BY <1>5, <1>7, <2>1, <2>2
  <1>8. CASE p # Garbled /\ d.seq = p.seq /\ PdDecode(d, p)
    <2> DEFINE h == [d EXCEPT !.useD = @ \/ (p.dflt /\ d.install)]
               f == [d EXCEPT !.sc = @ /\ p.sec # "mac"]
    <2>1. \/ /\ p.sec = "mac" /\ d.sc /\ p.auth = Mac(PdCrypt(d), d.rmac, d.seq)
             /\ PdExecute(d, p)
          \/ p.sec = "none" /\ ~d.sc /\ PdExecute(d, p)
          \/ p.sec = "hs" /\ PdExecute(h, p)
          \/ PdRefuse(f)
      BY <1>8 DEF PdDecode
    <2>2. /\ DOMAIN h = PdFields /\ h.addr = pd.addr /\ h.key = pd.key /\ h.install = pd.install
          /\ h.seq = d.seq
          /\ DOMAIN f = PdFields /\ f.addr = pd.addr /\ f.key = pd.key /\ f.install = pd.install
      BY <1>4 DEF PdFields
    <2> HIDE DEF h, f
    <2>3. CASE /\ PdExecute(d, p)
               /\ \/ p.sec = "mac" /\ d.sc /\ p.auth = Mac(PdCrypt(d), d.rmac, d.seq)
                  \/ p.sec = "none" /\ ~d.sc
      <3>1. Genuine(p, d)
        BY <1>8, <2>3 DEF Genuine
      <3> QED  BY <1>1, <1>4, <1>7, <1>8, <2>3, <3>1
    <2>4. CASE p.sec = "hs" /\ PdExecute(h, p)
      <3>1. mine => Genuine(p, h)
        BY <1>8, <2>2, <2>4 DEF Genuine
      <3> QED  BY <1>1, <1>7, <1>8, <2>2, <2>4, <3>1
    <2>5. CASE PdRefuse(f)
      BY <1>1, <1>6, <2>2, <2>5
    <2> QED  BY <2>1, <2>3, <2>4, <2>5
  <1>9. CASE p = Garbled \/ p.addr # pd.addr
    <2>1. (pd' = [pd EXCEPT !.sc = FALSE] \/ pd' = pd) /\ UNCHANGED used
      BY <1>1, <1>9
    <2>2. DOMAIN pd' = PdFields
      BY <1>3, <2>1 DEF PdFields
    <2> QED  BY <1>1, <1>9, <2>1, <2>2
  <1>10. CASE PdRefuse(d)
    BY <1>1, <1>4, <1>6, <1>10
  <1> QED  BY <1>1, <1>8, <1>9, <1>10

-----------------------------------------------------------------------------

LEMMA LockTransmits ==
    ASSUME LockInv, CpSetup \/ CpOnline \/ CpResend
    PROVE  /\ KeyInHand(cp') /\ KeysQueued' /\ used' \in [Stimuli -> Nat]
           /\ FaultFree' => Resting' \/ Asking' \/ Answering'
  <1>1. /\ KeyInHand(cp') /\ KeysQueued' /\ cp'.key = cp.key /\ cp'.addr = cp.addr
        /\ Sends /\ cp.phy # "reply" /\ UNCHANGED pd
    BY PanelKeeps DEF LockInv, Shapes, Frame, Commands
  <1>2. /\ used \in [Stimuli -> Nat] /\ cp.rb \in 0..Len(toCp)
        /\ FaultFree => Resting
    BY <1>1 DEF LockInv, Shapes, Frame, Asking, Answering
  <1>3. Resting => SameAddr' /\ SameKey'
    BY <1>1 DEF Resting, SameAddr, SameKey
  <1>4. CASE cp'.phy = "idle" /\ UNCHANGED <<toPd, toCp, used>>
    <2>1. FaultFree' => FaultFree
      BY <1>4 DEF FaultFree
    <2>2. Resting => Resting'
      BY <1>3, <1>4 DEF Resting
    <2> QED  BY <1>1, <1>2, <1>4, <2>1, <2>2
  <1>5. CASE /\ cp'.phy = "reply" /\ Transmit(toPd, CpPacket(cp'))
             /\ toCp' = IF HasFlush THEN SubSeq(toCp, 1, cp.rb) ELSE toCp
    <2>1. /\ used' \in [Stimuli -> Nat]
          /\ FaultFree' => used' = used /\ toPd' = Append(toPd, CpPacket(cp'))
      BY <1>2, <1>5, Arrives
    <2> SUFFICES ASSUME FaultFree' PROVE Asking'
      BY <1>1, <2>1
    <2>2. Resting
      BY <1>2, <2>1 DEF FaultFree
    <2>3. toPd' = <<CpPacket(cp')>>
      BY <2>1, <2>2 DEF Resting
    <2>4. toCp' = <<>>
      <3>1. toCp = <<>> /\ cp.rb = 0
        BY <1>2, <2>2 DEF Resting
      <3>2. SubSeq(toCp, 1, 0) = <<>>
        BY <3>1
      <3> QED  BY <1>5, <3>1, <3>2
    <2> QED  BY <1>3, <1>5, <2>2, <2>3, <2>4 DEF Asking
  <1> QED  BY <1>1, <1>4, <1>5 DEF Sends

LEMMA LockReceives ==
    ASSUME LockInv, CpReceive
    PROVE  /\ KeyInHand(cp') /\ KeysQueued' /\ used' \in [Stimuli -> Nat]
           /\ FaultFree' => Resting' \/ Asking' \/ Answering'
  <1>1. KeyInHand(cp') /\ cp'.phy = "idle" /\ ReplyTaken(Head(toCp))
    BY PanelKeys DEF LockInv, Shapes, Frame
  <1>2. /\ toCp # <<>> /\ toCp' = Tail(toCp) /\ UNCHANGED <<cpq, pd, toPd, used>>
    BY DEF CpReceive, pdSide
  <1>3. KeysQueued' /\ used' \in [Stimuli -> Nat]
    BY <1>2 DEF LockInv, KeysQueued
  <1> SUFFICES ASSUME FaultFree' PROVE Resting'
    BY <1>1, <1>3
  <1>4. Answering
    BY <1>2 DEF FaultFree, LockInv, Resting, Asking
  <1>5. PICK r : toCp = <<r>> /\ Due(r)
    BY <1>4 DEF Answering
  <1>6. Head(toCp) = r /\ toCp' = <<>>
    BY <1>2, <1>5
  <1>7. SameAddr'
    <2>1. CASE r.id = "COM"
      BY <1>1, <1>2, <1>5, <1>6, <2>1 DEF Due, NewAddr, ReplyTaken, SameAddr
    <2>2. CASE r.id # "COM"
      BY <1>1, <1>2, <1>5, <1>6, <2>2 DEF Due, ReplyTaken, SameAddr
    <2> QED  BY <2>1, <2>2
  <1>8. SameKey'
    <2>1. CASE r.id = "ACK" /\ cp.cmd = "KEYSET"
      BY <1>1, <1>2, <1>5, <1>6, <2>1 DEF Due, NewKey, KeyData, ReplyTaken, SameKey
    <2>2. CASE ~(r.id = "ACK" /\ cp.cmd = "KEYSET")
      BY <1>1, <1>2, <1>5, <1>6, <2>2 DEF Due, ReplyTaken, SameKey
    <2> QED  BY <2>1, <2>2
  <1> QED  BY <1>1, <1>2, <1>4, <1>6, <1>7, <1>8 DEF Answering, Resting

LEMMA LockWaits ==
    ASSUME LockInv, CpTimeout \/ CpRetryOnline \/ CpRetrySc
    PROVE  /\ KeyInHand(cp') /\ KeysQueued' /\ used' \in [Stimuli -> Nat]
           /\ FaultFree' => Resting' \/ Asking' \/ Answering'
  <1>1. /\ KeyInHand(cp') /\ cp'.key = cp.key /\ cp'.addr = cp.addr
        /\ CpTimeout \/ (cp.phy = "idle" /\ cp'.phy = "idle")
    BY PanelRests DEF LockInv, Shapes, Frame
  <1>2. UNCHANGED <<cpq, pd, toPd, toCp>> /\ KeysQueued' /\ used \in [Stimuli -> Nat]
    BY DEF CpTimeout, CpRetryOnline, CpRetrySc, pdSide, LockInv, KeysQueued
  <1>3. CASE CpTimeout
    <2>1. cp.phy = "reply" /\ toCp = <<>> /\ (toPd = <<>> => used' = used)
          /\ (toPd # <<>> => Use("late", MaxLate))
      BY <1>3 DEF CpTimeout
    <2>2. FaultFree => toPd # <<>>
      <3>1. Asking => toPd # <<>>
        BY DEF Asking
      <3>2. Answering => toCp # <<>>
        BY DEF Answering
      <3> QED  BY <2>1, <3>1, <3>2 DEF LockInv, Resting
    <2>3. CASE toPd = <<>>
      BY <1>1, <1>2, <2>1, <2>2, <2>3 DEF FaultFree
    <2>4. CASE toPd # <<>>
      BY <1>1, <1>2, <2>1, <2>4, Faulty
    <2> QED  BY <2>3, <2>4
  <1>4. CASE (CpRetryOnline \/ CpRetrySc) /\ cp.phy = "idle" /\ cp'.phy = "idle"
    <2>1. used' = used
      BY <1>4 DEF CpRetryOnline, CpRetrySc
    <2>2. Resting => Resting'
      BY <1>1, <1>2, <1>4 DEF Resting, SameAddr, SameKey
    <2>3. FaultFree' => Resting
      BY <1>4, <2>1 DEF FaultFree, LockInv, Asking, Answering
    <2> QED  BY <1>1, <1>2, <2>1, <2>2, <2>3
  <1> QED  BY <1>1, <1>3, <1>4

LEMMA PacketInHand ==
    ASSUME cp.cmd \in CmdIds, NEW p, p = CpPacket(cp)
    PROVE  /\ p # Garbled /\ p.addr = cp.addr /\ p.id = cp.cmd /\ p.seq = cp.seq
           /\ p.sec = "hs" => p.id \in {"CHLNG", "SCRYPT"}
           /\ p.sec = "mac" => cp.sc /\ p.auth = CpMac(cp)
           /\ p.sec = "none" => ~cp.sc
           /\ cp.cmd \in PlainCmds \cup {"KEYSET"} => p.data = cp.data
  <1> DEFINE Pkt(sec, auth, dflt) ==
        Packet(cp.addr, cp.cmd, cp.seq, sec, auth, dflt, CmdPayload(cp))
  <1>1. \/ cp.sc /\ p = Pkt("mac", CpMac(cp), FALSE)
        \/ /\ ~cp.sc /\ cp.cmd \in {"CHLNG", "SCRYPT"}
           /\ \E auth : p = Pkt("hs", auth, cp.useD)
        \/ ~cp.sc /\ p = Pkt("none", <<>>, FALSE)
    BY DEF CpPacket
  <1>2. /\ p.addr = cp.addr /\ p.id = cp.cmd /\ p.seq = cp.seq /\ p.data = CmdPayload(cp)
        /\ p.sec \in {"mac", "hs", "none"}
        /\ p.sec = "hs" => cp.cmd \in {"CHLNG", "SCRYPT"}
        /\ p.sec = "mac" => cp.sc /\ p.auth = CpMac(cp)
        /\ p.sec = "none" => ~cp.sc
    BY <1>1 DEF Packet
  <1>3. Garbled.id \notin CmdIds
    BY DEF Garbled, Packet, CmdIds, PlainCmds
  <1>4. cp.cmd \in PlainCmds \cup {"KEYSET"} => CmdPayload(cp) = cp.data
    BY DEF CmdPayload
  <1> QED  BY <1>2, <1>3, <1>4

LEMMA LockReads ==
    ASSUME LockInv, PdReceive
    PROVE  /\ KeyInHand(cp') /\ KeysQueued' /\ used' \in [Stimuli -> Nat]
           /\ FaultFree' => Resting' \/ Asking' \/ Answering'
  <1> DEFINE p == Head(toPd)
             mine == /\ p # Garbled /\ p.addr = pd.addr
                     /\ p.sec = "hs" => p.id \in {"CHLNG", "SCRYPT"}
  <1>1. /\ toPd # <<>> /\ toPd' = Tail(toPd) /\ UNCHANGED <<cp, cpq, cmds>>
        /\ \/ ~mine /\ UNCHANGED used
           \/ \E r : Transmit(toCp, r) /\ (mine => Serves(p, r, pd, pd'))
    BY ReaderServes DEF LockInv
  <1>2. KeyInHand(cp') /\ KeysQueued' /\ used \in [Stimuli -> Nat] /\ cp.cmd \in CmdIds
    BY <1>1 DEF LockInv, KeysQueued, Shapes, Frame
  <1>3. used' \in [Stimuli -> Nat] /\ (FaultFree' => used' = used)
    BY <1>1, <1>2, Arrives
  <1> SUFFICES ASSUME FaultFree' PROVE Answering'
    BY <1>2, <1>3
  <1>4. Asking
    BY <1>1, <1>3 DEF FaultFree, LockInv, Resting, Answering
  <1>5. p = CpPacket(cp) /\ toPd' = <<>> /\ toCp = <<>> /\ SameAddr /\ SameKey /\ cp.phy = "reply"
    BY <1>1, <1>4 DEF Asking
  <1> HIDE DEF p
  <1>6. /\ p # Garbled /\ p.addr = cp.addr /\ p.id = cp.cmd /\ p.seq = cp.seq
        /\ p.sec = "hs" => p.id \in {"CHLNG", "SCRYPT"}
        /\ p.sec = "mac" => cp.sc /\ p.auth = CpMac(cp)
        /\ p.sec = "none" => ~cp.sc
        /\ cp.cmd \in PlainCmds \cup {"KEYSET"} => p.data = cp.data
    BY <1>2, <1>5, PacketInHand
  <1>7. mine
    BY <1>5, <1>6 DEF SameAddr
  <1>8. PICK r : Transmit(toCp, r) /\ Serves(p, r, pd, pd')
    BY <1>1, <1>7
  <1>9. toCp' = <<r>>
    <2>1. toCp' = Append(toCp, r)
      BY <1>2, <1>3, <1>8, Arrives
    <2> QED  BY <1>5, <2>1
  <1>10. Echoes(p, r, pd) => Taken(r)'
    <2>1. Echoes(p, r, pd) => Taken(r)
      BY <1>5, <1>6 DEF Echoes, Taken, Accepts, SameAddr
    <2> QED  BY <1>1, <2>1 DEF Taken
  <1>11. Due(r)'
    <2>1. r.id # "COM" => SameAddr'
      BY <1>1, <1>5, <1>8 DEF Serves, SameAddr
    <2>2. r.id = "COM" => NewAddr(r)'
      BY <1>1, <1>6, <1>8, <1>10 DEF Serves, NewAddr
    <2>3. ~(r.id = "ACK" /\ cp.cmd = "KEYSET") => SameKey'
      BY <1>1, <1>5, <1>6, <1>8 DEF Serves, SameKey
    <2>4. r.id = "ACK" /\ cp.cmd = "KEYSET" => NewKey(r)'
      <3>1. cp.cmd = "KEYSET" => p.data = cp.data /\ cp.data = KeyData(cp.data.val)
        BY <1>5, <1>6 DEF LockInv, KeyInHand, KeyData
      <3>2. r.id = "ACK" /\ cp.cmd = "KEYSET" => pd'.key = cp.data.val /\ Echoes(p, r, pd)
        BY <1>6, <1>8, <3>1 DEF Serves
      <3> QED  BY <1>1, <1>10, <3>1, <3>2 DEF NewKey
    <2> QED  BY <1>1, <2>1, <2>2, <2>3, <2>4 DEF Due
  <1> QED  BY <1>1, <1>5, <1>9, <1>11 DEF Answering

LEMMA LockSubmits ==
    ASSUME LockInv, \/ \E kind \in PlainCmds : CpSubmit(kind)
                    \/ \E k \in NewKeys : CpSubmitKeyset(k)
    PROVE  /\ UNCHANGED <<cp, pd, toPd, toCp>> /\ KeysQueued'
           /\ used' \in [Stimuli -> Nat] /\ (FaultFree' => FaultFree)
  <1>1. UNCHANGED <<cp, pd, toPd, toCp>>
    BY DEF CpSubmit, CpSubmitKeyset, pdSide
  <1>2. PICK x : cpq' = Append(cpq, x) /\ (x.kind = "cmd" \/ x = KeyData(x.val))
    <2>1. /\ \A v : CmdData(v).kind = "cmd"
          /\ \A v : KeyData(v) = KeyData(KeyData(v).val)
      BY DEF CmdData, KeyData
    <2>2. \/ \E v : cpq' = Append(cpq, CmdData(v))
          \/ \E v : cpq' = Append(cpq, KeyData(v))
      BY DEF CpSubmit, CpSubmitKeyset
    <2> QED  BY <2>1, <2>2
  <1>3. /\ Len(cpq) \in Nat /\ Len(cpq') = Len(cpq) + 1
        /\ \A i \in 1..Len(cpq) : cpq'[i] = cpq[i]
        /\ cpq'[Len(cpq) + 1] = x
    BY <1>2, Appended DEF LockInv, Shapes, Frame, Commands
  <1>4. \A i \in 1..Len(cpq') : (i \in 1..Len(cpq) /\ cpq'[i] = cpq[i]) \/ cpq'[i] = x
    BY <1>3
  <1>5. KeysQueued'
    BY <1>2, <1>4 DEF LockInv, KeysQueued
  <1>6. used' \in [Stimuli -> Nat] /\ (FaultFree' => FaultFree)
    <2>1. CASE used' = used
      BY <2>1 DEF LockInv, FaultFree
    <2>2. CASE Use("keyset", MaxKeysets)
      <3>1. used' = [used EXCEPT !["keyset"] = @ + 1] /\ used \in [Stimuli -> Nat]
        BY <2>2 DEF Use, LockInv
      <3>2. {"keyset", "fault", "late", "reset"} = Stimuli
        BY DEF Stimuli
      <3>3. /\ used' \in [Stimuli -> Nat] /\ used'["fault"] = used["fault"]
            /\ used'["late"] = used["late"] /\ used'["reset"] = used["reset"]
        BY <3>1, <3>2
      <3> QED  BY <3>3 DEF FaultFree
    <2> QED  BY <2>1, <2>2 DEF CpSubmit, CpSubmitKeyset
  <1> QED  BY <1>1, <1>5, <1>6

LEMMA ShapesKept ==
    ASSUME Shapes, [Next]_vars
    PROVE  Shapes'
  <1>1. Frame'
    BY FrameKept DEF Shapes
  <1>2. DOMAIN pd = PdFields
    BY DEF Shapes
  <1>3. DOMAIN pd' = PdFields
    <2>1. CASE PdReceive
      <3> DEFINE p == Head(toPd)
      <3>1. \E mine \in BOOLEAN : mine <=> /\ p # Garbled /\ p.addr = pd.addr
                                           /\ p.sec = "hs" => p.id \in {"CHLNG", "SCRYPT"}
        OBVIOUS
      <3> QED  BY <2>1, <3>1, ReaderServes
    <2>2. CASE PdScTimeout
      BY <1>2, <2>2 DEF PdScTimeout, PdFields
    <2>3. CASE PdReset
      BY <2>3 DEF PdReset, PdBoot, PdFields
    <2>4. CASE ~(PdReceive \/ PdScTimeout \/ PdReset)
      <3>1. UNCHANGED pd
        BY <2>4 DEF Next, CpStep, PdSubmit, CpSubmit, CpSubmitKeyset, CpSetup, CpOnline, CpResend,
                    CpReceive, CpTimeout, CpRetryOnline, CpRetrySc, pdSide, vars
      <3> QED  BY <1>2, <3>1
    <2> QED  BY <2>1, <2>2, <2>3, <2>4
  <1> QED  BY <1>1, <1>3 DEF Shapes

LEMMA LockKept ==
    ASSUME LockInv, [Next]_vars
    PROVE  LockInv'
  <1>1. Shapes'
    BY ShapesKept DEF LockInv
  <1>2. CASE PdSubmit \/ PdScTimeout \/ UNCHANGED vars
    <2>1. /\ UNCHANGED <<cp, cpq, toPd, toCp, used>>
          /\ pd' = pd \/ pd' = [pd EXCEPT !.sc = FALSE]
      BY <1>2 DEF PdSubmit, PdScTimeout, vars, cpSide, pdSide
    <2>2. pd'.addr = pd.addr /\ pd'.key = pd.key /\ pd'.install = pd.install
      BY <2>1 DEF LockInv, Shapes, PdFields
    <2>3. (SameAddr => SameAddr') /\ (SameKey => SameKey')
      BY <2>1, <2>2 DEF SameAddr, SameKey
    <2>4. \A r : Due(r) => Due(r)'
      BY <2>1, <2>2, <2>3 DEF Due, NewAddr, NewKey, Taken
    <2>5. /\ Resting => Resting'
          /\ Asking => Asking'
          /\ Answering => Answering'
      BY <2>1, <2>3, <2>4 DEF Resting, Asking, Answering
    <2>6. FaultFree' => FaultFree
      BY <2>1 DEF FaultFree
    <2> QED  BY <1>1, <2>1, <2>5, <2>6 DEF LockInv, KeysQueued
  <1>3. CASE PdReset
    <2>1. UNCHANGED <<cp, cpq>> /\ Use("reset", MaxReset)
      BY <1>3 DEF PdReset, cpSide
    <2>2. used' \in [Stimuli -> Nat] /\ ~FaultFree'
      BY <2>1, Faulty DEF LockInv
    <2> QED  BY <1>1, <2>1, <2>2 DEF LockInv, KeysQueued
  <1>4. CASE \/ \E kind \in PlainCmds : CpSubmit(kind)
             \/ \E k \in NewKeys : CpSubmitKeyset(k)
    <2>1. /\ UNCHANGED <<cp, pd, toPd, toCp>> /\ KeysQueued'
          /\ used' \in [Stimuli -> Nat] /\ (FaultFree' => FaultFree)
      BY <1>4, LockSubmits
    <2>2. /\ Resting => Resting'
          /\ Asking => Asking'
          /\ Answering => Answering'
      BY <2>1 DEF Resting, Asking, Answering, Due, NewAddr, NewKey, Taken, SameAddr, SameKey
    <2> QED  BY <1>1, <2>1, <2>2 DEF LockInv
  <1> QED  BY <1>1, <1>2, <1>3, <1>4, StepsOfNext, LockTransmits, LockReceives, LockWaits, LockReads
           DEF NotThePanel, LockInv

LEMMA LockInit == Init => LockInv
  <1> SUFFICES ASSUME Init PROVE LockInv
    OBVIOUS
  <1>1. /\ cp = CpBoot /\ pd = PdBoot /\ cpq = <<>> /\ toPd = <<>> /\ toCp = <<>>
        /\ used = [s \in Stimuli |-> 0]
    BY DEF Init
  <1>2. Shapes
    BY SessionInit DEF SessionInv
  <1>3. Resting
    BY <1>1 DEF Resting, SameAddr, SameKey, CpBoot, PdBoot
  <1>4. KeyInHand(cp) /\ KeysQueued /\ used \in [Stimuli -> Nat]
    BY <1>1 DEF KeyInHand, KeysQueued, CpBoot
  <1> QED  BY <1>2, <1>3, <1>4 DEF LockInv

\* On a line without faults the panel sends to the address the reader listens to, except while
\* the reply to COMSET is on its way, through any commands, refusals, handshakes and key
\* changes (osdp_pd_update, cp_decode_response, osdp_phy_check_packet).
THEOREM AddressesStayEqual == Spec => []AddressesAgree
  <1>1. Init => LockInv
    BY LockInit
  <1>2. LockInv /\ [Next]_vars => LockInv'
    BY LockKept
  <1>3. LockInv => AddressesAgree
    BY DEF LockInv, Resting, Asking, Answering, Due, NewAddr, SameAddr, AddressesAgree
  <1> QED  BY <1>1, <1>2, <1>3, PTL DEF Spec

\* On a line without faults a reader that was set up with the panel's key, or with none, has
\* the key the panel has, or the one it is just being sent, through any key changes
\* (cp_keyset_complete, get_next_ok_state, pd_decode_command).
THEOREM KeysStayEqual ==
    ASSUME PdKey \in {CpKey, NoKey}
    PROVE  Spec => []KeysAgree
  <1>1. Init => LockInv
    BY LockInit
  <1>2. LockInv /\ [Next]_vars => LockInv'
    BY LockKept
  <1>3. LockInv => KeysAgree
    BY DEF LockInv, Resting, Asking, Answering, Due, NewKey, SameKey, KeysAgree
  <1> QED  BY <1>1, <1>2, <1>3, PTL DEF Spec

-----------------------------------------------------------------------------

(* In a secure session a command is carried out once                       *)

Starts == {"CHLNG", "SCRYPT"}
DoneIn(ex, v) == \E j \in 1..Len(ex) : ex[j][1] = v
Increasing(ex) == \A i, j \in 1..Len(ex) : i < j => ex[i][1] < ex[j][1]

\* The panel has a command of the application in hand, or is about to start session n.
Holds(c) == c.phy # "idle" /\ c.cmd \in PlainCmds
Starting(c, n) == c.st \in {"SC_CHLNG", "SC_SCRYPT"} /\ c.cpr = n

\* No packet after the i-th starts session n.
Behind(out, i, n) ==
    \A j \in 1..Len(out) : i < j /\ out[j].id \in Starts => out[j].auth[2] # n

\* The reader d is past place k of session n, or out of that session for good.
Spent(out, d, n, k) ==
    /\ Behind(out, 0, n)
    /\ d.sc /\ d.cpr = n => k \in Nat /\ k < d.rmac

\* A command on the line belongs to a session that will not start again; all its copies, and
\* the one in hand, have one place in one session; if it has been carried out that is spent.
Settled(out, c) ==
    \A i \in 1..Len(out) : out[i].id \in PlainCmds =>
        /\ out[i].sec = "mac" /\ out[i].auth # <<>>
        /\ ~Starting(c, out[i].auth[2]) /\ Behind(out, i, out[i].auth[2])
Alike(out) ==
    \A i, j \in 1..Len(out) :
        out[i].id \in PlainCmds /\ out[j].id \in PlainCmds /\ out[i].data.val = out[j].data.val =>
            out[i].auth[2] = out[j].auth[2] /\ out[i].auth[4] = out[j].auth[4]
LikeHeld(out, c) ==
    Holds(c) => \A i \in 1..Len(out) :
        out[i].id \in PlainCmds /\ out[i].data.val = c.data.val =>
            out[i].auth[2] = c.cpr /\ out[i].auth[4] = c.rmac
OutSpent(out, d, ex) ==
    \A i \in 1..Len(out) : out[i].id \in PlainCmds /\ DoneIn(ex, out[i].data.val) =>
        Spent(out, d, out[i].auth[2], out[i].auth[4])
HeldSpent(out, c, d, ex) ==
    Holds(c) /\ DoneIn(ex, c.data.val) => Spent(out, d, c.cpr, c.rmac)

OnceOnly(out, c, d, ex) ==
    /\ Settled(out, c) /\ Alike(out) /\ LikeHeld(out, c)
    /\ OutSpent(out, d, ex) /\ HeldSpent(out, c, d, ex)

OnceInv ==
    /\ CommandInv /\ DOMAIN pd = PdFields /\ pd.rmac \in Nat
    /\ Holds(cp) => cp.st = "ONLINE"
    /\ OnceOnly(toPd, cp, pd, executed) /\ Increasing(executed)

\* The chain of MACs does not come back to a place.
NoPlaceTwice == \A k \in Nat : NextMac(k) \in Nat /\ k < NextMac(k)

\* A packet is sent of the session the panel is in.
LEMMA OnceSends ==
    ASSUME NEW out, IsSeq(out), NEW c, NEW d, NEW ex, OnceOnly(out, c, d, ex),
           Holds(c) => c.st = "ONLINE", NEW p,
           p.id \in Starts => Starting(c, p.auth[2]),
           p.id \in PlainCmds => /\ Holds(c) /\ p.sec = "mac" /\ p.auth # <<>>
                                 /\ p.auth[2] = c.cpr /\ p.auth[4] = c.rmac
                                 /\ p.data.val = c.data.val
    PROVE  OnceOnly(Append(out, p), c, d, ex)
  <1> DEFINE s == Append(out, p)
  <1>1. /\ Len(out) \in Nat /\ Len(s) = Len(out) + 1
        /\ \A i \in 1..Len(out) : s[i] = out[i]
        /\ s[Len(out) + 1] = p
    BY Appended
  <1> HIDE DEF s
  <1>2. \A i \in 1..Len(s) : \/ i \in 1..Len(out) /\ s[i] = out[i]
                             \/ i = Len(out) + 1 /\ s[i] = p
    BY <1>1
  <1>3. PlainCmds \cap Starts = {}
    BY DEF PlainCmds, Starts
  <1>4. ASSUME NEW i \in 0..Len(out), NEW n, Behind(out, i, n), ~Starting(c, n)
        PROVE  Behind(s, i, n)
    BY <1>2, <1>4 DEF Behind
  <1>5. Holds(c) => \A n : ~Starting(c, n)
    BY DEF Starting
  <1>6. Settled(s, c)
    <2> SUFFICES ASSUME NEW i \in 1..Len(s), s[i].id \in PlainCmds
                 PROVE  /\ s[i].sec = "mac" /\ s[i].auth # <<>>
                        /\ ~Starting(c, s[i].auth[2]) /\ Behind(s, i, s[i].auth[2])
      BY DEF Settled
    <2>1. CASE i \in 1..Len(out) /\ s[i] = out[i]
      <3>1. i \in 0..Len(out)
        BY <1>1, <2>1
      <3> QED  BY <1>4, <2>1, <3>1 DEF OnceOnly, Settled
    <2>2. CASE i = Len(out) + 1 /\ s[i] = p
      <3>1. \A j \in 1..Len(s) : ~(i < j)
        BY <1>1, <2>2
      <3> QED  BY <1>5, <2>2, <3>1 DEF Behind
    <2> QED  BY <1>2, <2>1, <2>2
  <1>7. Alike(s)
    <2> SUFFICES ASSUME NEW i \in 1..Len(s), NEW j \in 1..Len(s),
                        s[i].id \in PlainCmds, s[j].id \in PlainCmds,
                        s[i].data.val = s[j].data.val
                 PROVE  s[i].auth[2] = s[j].auth[2] /\ s[i].auth[4] = s[j].auth[4]
      BY DEF Alike
    <2>1. CASE i \in 1..Len(out) /\ s[i] = out[i] /\ j \in 1..Len(out) /\ s[j] = out[j]
      <3>1. Alike(out)
        BY DEF OnceOnly
      <3> QED  BY <2>1, <3>1 DEF Alike
    <2>2. CASE i \in 1..Len(out) /\ s[i] = out[i] /\ s[j] = p
      BY <2>2 DEF OnceOnly, LikeHeld
    <2>3. CASE s[i] = p /\ j \in 1..Len(out) /\ s[j] = out[j]
      BY <2>3 DEF OnceOnly, LikeHeld
    <2>4. CASE s[i] = p /\ s[j] = p
      BY <2>4
    <2> QED  BY <1>2, <2>1, <2>2, <2>3, <2>4
  <1>8. LikeHeld(s, c)
    BY <1>2 DEF LikeHeld, OnceOnly
  <1>9. ASSUME NEW n, NEW k, Spent(out, d, n, k), ~Starting(c, n)
        PROVE  Spent(s, d, n, k)
    <2>1. 0 \in 0..Len(out)
      BY <1>1
    <2> QED  BY <1>4, <1>9, <2>1 DEF Spent
  <1>10. OutSpent(s, d, ex)
    <2> SUFFICES ASSUME NEW i \in 1..Len(s), s[i].id \in PlainCmds, DoneIn(ex, s[i].data.val)
                 PROVE  Spent(s, d, s[i].auth[2], s[i].auth[4])
      BY DEF OutSpent
    <2>1. CASE i \in 1..Len(out) /\ s[i] = out[i]
      BY <1>9, <2>1 DEF OnceOnly, OutSpent, Settled
    <2>2. CASE s[i] = p
      BY <1>5, <1>9, <2>2 DEF OnceOnly, HeldSpent
    <2> QED  BY <1>2, <2>1, <2>2
  <1>11. HeldSpent(s, c, d, ex)
    BY <1>5, <1>9 DEF OnceOnly, HeldSpent
  <1>12. OnceOnly(s, c, d, ex)
    BY <1>6, <1>7, <1>8, <1>10, <1>11 DEF OnceOnly
  <1> QED  BY <1>12 DEF s

\* What the reader does with a packet: it is in the session no longer, or at the place it was
\* at or the next, or at the first one as the session starts.
KeepsPlace(p, d, e) ==
    e.sc => /\ e.cpr = d.cpr
            /\ \/ d.sc /\ e.rmac \in {d.rmac, NextMac(d.rmac)}
               \/ p.id = "SCRYPT" /\ p.auth[2] = d.cpr

\* A command is carried out at the place the reader is at.
CarriesOut(p, d, e, ex, ex2) ==
    /\ p.id \in PlainCmds /\ d.sc /\ p.auth[2] = d.cpr /\ p.auth[4] = d.rmac
    /\ e.rmac = NextMac(d.rmac)
    /\ \E ok \in BOOLEAN : ex2 = Append(ex, <<p.data.val, ok>>)

Turn(p, d, e, ex, ex2) ==
    /\ KeepsPlace(p, d, e)
    /\ ex2 = ex \/ CarriesOut(p, d, e, ex, ex2)

LEMMA OnceTakes ==
    ASSUME NoPlaceTwice, NEW out, IsSeq(out), out # <<>>, NEW c, NEW d, d.rmac \in Nat, NEW e,
           NEW ex, IsSeq(ex), NEW ex2, OnceOnly(out, c, d, ex), Turn(Head(out), d, e, ex, ex2)
    PROVE  /\ OnceOnly(Tail(out), c, e, ex2)
           /\ ex2 # ex => ~DoneIn(ex, Head(out).data.val)
  <1> DEFINE s == Tail(out)
             p == Head(out)
             v == p.data.val
  <1>1. /\ Len(out) \in Nat \ {0} /\ Len(s) = Len(out) - 1
        /\ \A i \in 1..(Len(out) - 1) : s[i] = out[i + 1]
        /\ p = out[1]
    BY TailOf
  <1> HIDE DEF s, p
  <1>2. /\ 1 \in 1..Len(out) /\ 0 < 1
        /\ \A i \in 1..Len(s) : i + 1 \in 1..Len(out) /\ s[i] = out[i + 1] /\ i \in Int
        /\ \A i \in 0..Len(s), j \in 1..Len(s) : i < j => i + 1 < j + 1 /\ 0 < j + 1
    BY <1>1
  <1>3. ASSUME NEW i \in 0..Len(s), NEW n, Behind(out, i + 1, n)
        PROVE  Behind(s, i, n)
    BY <1>2, <1>3 DEF Behind
  <1>4. ASSUME NEW n, Behind(out, 0, n) \/ Behind(out, 1, n)
        PROVE  Behind(s, 0, n)
    <2>1. \A j \in 1..Len(s) : j + 1 \in 1..Len(out) /\ s[j] = out[j + 1] /\ 0 < j + 1 /\ 1 < j + 1
      BY ONLY <1>1
    <2> QED  BY <1>4, <2>1 DEF Behind
  <1>5. KeepsPlace(p, d, e) /\ (ex2 = ex \/ CarriesOut(p, d, e, ex, ex2))
    BY DEF Turn, p
  <1>6. Settled(s, c)
    <2> SUFFICES ASSUME NEW i \in 1..Len(s), s[i].id \in PlainCmds
                 PROVE  /\ s[i].sec = "mac" /\ s[i].auth # <<>>
                        /\ ~Starting(c, s[i].auth[2]) /\ Behind(s, i, s[i].auth[2])
      BY DEF Settled
    <2>1. /\ i + 1 \in 1..Len(out) /\ s[i] = out[i + 1] /\ i \in 0..Len(s)
      BY ONLY <1>1, i \in 1..Len(s)
    <2>2. /\ s[i].sec = "mac" /\ s[i].auth # <<>>
          /\ ~Starting(c, s[i].auth[2]) /\ Behind(out, i + 1, s[i].auth[2])
      BY <2>1 DEF OnceOnly, Settled
    <2> QED  BY <1>3, <2>1, <2>2
  <1>7. Alike(s) /\ LikeHeld(s, c)
    <2>1. Alike(s)
      <3> SUFFICES ASSUME NEW i \in 1..Len(s), NEW j \in 1..Len(s),
                          s[i].id \in PlainCmds, s[j].id \in PlainCmds,
                          s[i].data.val = s[j].data.val
                   PROVE  s[i].auth[2] = s[j].auth[2] /\ s[i].auth[4] = s[j].auth[4]
        BY DEF Alike
      <3>1. /\ i + 1 \in 1..Len(out) /\ s[i] = out[i + 1]
            /\ j + 1 \in 1..Len(out) /\ s[j] = out[j + 1]
        BY <1>2
      <3>2. Alike(out)
        BY DEF OnceOnly
      <3>3. /\ s[i].id \in PlainCmds /\ s[j].id \in PlainCmds
            /\ s[i].data.val = s[j].data.val
        OBVIOUS
      <3> QED  BY ONLY <3>1, <3>2, <3>3 DEF Alike
    <2>2. LikeHeld(s, c)
      <3> SUFFICES ASSUME Holds(c), NEW i \in 1..Len(s),
                          s[i].id \in PlainCmds, s[i].data.val = c.data.val
                   PROVE  s[i].auth[2] = c.cpr /\ s[i].auth[4] = c.rmac
        BY DEF LikeHeld
      <3>1. i + 1 \in 1..Len(out) /\ s[i] = out[i + 1]
        BY <1>2
      <3> QED  BY <3>1 DEF OnceOnly, LikeHeld
    <2> QED  BY <2>1, <2>2
  <1>8. ASSUME NEW n, NEW k, Spent(out, d, n, k)
        PROVE  Spent(s, e, n, k)
    <2>1. Behind(out, 0, n) /\ Behind(s, 0, n)
      BY <1>4, <1>8 DEF Spent
    <2>2. ASSUME e.sc, e.cpr = n
          PROVE  k \in Nat /\ k < e.rmac
      <3>1. d.cpr = n
        BY <1>5, <2>2 DEF KeepsPlace
      <3>2. ~(p.id = "SCRYPT" /\ p.auth[2] = d.cpr)
        BY <1>1, <1>2, <2>1, <3>1 DEF Behind, Starts
      <3>3. d.sc /\ e.rmac \in {d.rmac, NextMac(d.rmac)}
        BY <1>5, <2>2, <3>2 DEF KeepsPlace
      <3>4. k \in Nat /\ k < d.rmac /\ d.rmac < NextMac(d.rmac) /\ NextMac(d.rmac) \in Nat
        BY <1>8, <3>1, <3>3 DEF Spent, NoPlaceTwice
      <3>5. CASE e.rmac = d.rmac
        BY <3>4, <3>5
      <3>6. CASE e.rmac = NextMac(d.rmac)
        <4> DEFINE a == d.rmac
                   b == NextMac(d.rmac)
        <4>1. k \in Nat /\ a \in Nat /\ b \in Nat /\ k < a /\ a < b
          BY <3>4
        <4> HIDE DEF a, b
        <4>2. k < b
          BY ONLY <4>1
        <4> QED  BY <3>4, <3>6, <4>2 DEF b
      <3> QED  BY <3>3, <3>5, <3>6
    <2> QED  BY <2>1, <2>2 DEF Spent
  <1>9. CASE ex2 = ex
    <2>1. OutSpent(s, e, ex2) /\ HeldSpent(s, c, e, ex2)
      BY <1>2, <1>8, <1>9 DEF OnceOnly, OutSpent, HeldSpent
    <2> QED  BY <1>6, <1>7, <1>9, <2>1 DEF OnceOnly, s
  <1>10. CASE CarriesOut(p, d, e, ex, ex2)
    <2> DEFINE n == p.auth[2]
               k == p.auth[4]
    <2>1. /\ p.id \in PlainCmds /\ d.sc /\ n = d.cpr /\ k = d.rmac /\ e.rmac = NextMac(d.rmac)
      BY <1>10 DEF CarriesOut
    <2>2. Behind(out, 1, n)
      BY <1>1, <1>2, <2>1 DEF OnceOnly, Settled
    <2>3. Spent(s, e, n, k)
      <3>1. k \in Nat /\ k < NextMac(k)
        BY <2>1 DEF NoPlaceTwice
      <3> QED  BY <1>4, <2>1, <2>2, <3>1 DEF Spent
    <2>4. ASSUME NEW w, DoneIn(ex2, w)
          PROVE  DoneIn(ex, w) \/ w = v
      <3>1. PICK ok \in BOOLEAN : ex2 = Append(ex, <<v, ok>>)
        BY <1>10 DEF CarriesOut
      <3>2. /\ Len(ex) \in Nat /\ Len(ex2) = Len(ex) + 1
            /\ \A i \in 1..Len(ex) : ex2[i] = ex[i]
            /\ ex2[Len(ex) + 1] = <<v, ok>>
        BY <3>1, Appended
      <3>3. PICK j \in 1..Len(ex2) : ex2[j][1] = w
        BY <2>4 DEF DoneIn
      <3>4. CASE j = Len(ex) + 1
        BY <3>2, <3>3, <3>4
      <3>5. CASE j # Len(ex) + 1
        <4>1. j \in 1..Len(ex)
          BY ONLY <3>2, <3>5, j \in 1..Len(ex2)
        <4> QED  BY <3>2, <3>3, <4>1 DEF DoneIn
      <3> QED  BY <3>4, <3>5
    <2>5. ~DoneIn(ex, v)
      <3> SUFFICES ASSUME DoneIn(ex, v) PROVE FALSE
        OBVIOUS
      <3>1. Spent(out, d, n, k)
        BY <1>1, <1>2, <2>1 DEF OnceOnly, OutSpent
      <3>2. k \in Nat /\ k < k
        BY <2>1, <3>1 DEF Spent
      <3> QED  BY <3>2
    <2>6. OutSpent(s, e, ex2)
      <3> SUFFICES ASSUME NEW i \in 1..Len(s), s[i].id \in PlainCmds, DoneIn(ex2, s[i].data.val)
                   PROVE  Spent(s, e, s[i].auth[2], s[i].auth[4])
        BY DEF OutSpent
      <3>1. i + 1 \in 1..Len(out) /\ s[i] = out[i + 1]
        BY <1>2
      <3>2. CASE DoneIn(ex, s[i].data.val)
        BY <1>8, <3>1, <3>2 DEF OnceOnly, OutSpent
      <3>3. CASE s[i].data.val = v
        <4>1. s[i].auth[2] = n /\ s[i].auth[4] = k
          BY <1>1, <1>2, <2>1, <3>1, <3>3 DEF OnceOnly, Alike
        <4> QED  BY <2>3, <4>1
      <3> QED  BY <2>4, <3>2, <3>3
    <2>7. HeldSpent(s, c, e, ex2)
      <3> SUFFICES ASSUME Holds(c), DoneIn(ex2, c.data.val)
                   PROVE  Spent(s, e, c.cpr, c.rmac)
        BY DEF HeldSpent
      <3>1. CASE DoneIn(ex, c.data.val)
        BY <1>8, <3>1 DEF OnceOnly, HeldSpent
      <3>2. CASE c.data.val = v
        <4>1. c.cpr = n /\ c.rmac = k
          BY <1>1, <1>2, <2>1, <3>2 DEF OnceOnly, LikeHeld
        <4> QED  BY <2>3, <4>1
      <3> QED  BY <2>4, <3>1, <3>2
    <2> QED  BY <1>6, <1>7, <2>5, <2>6, <2>7 DEF OnceOnly, s, p
  <1> QED  BY <1>5, <1>9, <1>10

-----------------------------------------------------------------------------

\* With the shape of its state.
OnceTurn(p, d, e, ex, ex2) ==
    /\ DOMAIN e = PdFields /\ e.rmac \in Nat
    /\ Turn(p, d, e, ex, ex2)

LEMMA MacParts ==
    ASSUME NEW a, NEW b, NEW c, NEW r, NEW s, NEW m, m = Mac(<<a, b, c>>, r, s)
    PROVE  m # <<>> /\ m[2] = b /\ m[4] = r
  <1>1. m = <<a, b, c>> \o <<r, s>>
    BY DEF Mac
  <1>2. PICK x : x = <<a, b, c>>
    OBVIOUS
  <1>3. PICK y : y = <<r, s>>
    OBVIOUS
  <1>4. PICK U : U = {a, b, c, r, s}
    OBVIOUS
  <1>5. /\ x \in Seq(U) /\ Len(x) = 3 /\ x[2] = b
        /\ y \in Seq(U) /\ Len(y) = 2 /\ y[1] = r
    BY ONLY <1>2, <1>3, <1>4
  <1>6. m = x \o y
    BY ONLY <1>1, <1>2, <1>3
  <1>7. /\ Len(m) = Len(x) + Len(y)
        /\ \A i \in 1..Len(x) : m[i] = x[i]
        /\ \A i \in 1..Len(y) : m[Len(x) + i] = y[i]
    <2>1. x \in Seq(U) /\ y \in Seq(U)
      BY ONLY <1>5
    <2>2. /\ Len(x \o y) = Len(x) + Len(y)
          /\ \A i \in 1..Len(x) : (x \o y)[i] = x[i]
          /\ \A i \in 1..Len(y) : (x \o y)[Len(x) + i] = y[i]
      BY ONLY <2>1
    <2> QED  BY ONLY <1>6, <2>2, Zenon
  <1>8. 2 \in 1..Len(x) /\ 1 \in 1..Len(y) /\ Len(x) + 1 = 4
    BY ONLY <1>5
  <1>9. m[2] = x[2] /\ m[Len(x) + 1] = y[1]
    BY ONLY <1>7, <1>8
  <1>10. Len(m) = 5
    BY ONLY <1>5, <1>7
  <1>11. m # <<>>
    BY ONLY <1>10
  <1>12. m[2] = b /\ m[4] = r
    BY ONLY <1>5, <1>8, <1>9
  <1> QED  BY <1>11, <1>12

LEMMA SentPlace ==
    ASSUME NoPlaceTwice, NEW d, DOMAIN d = PdFields, d.rmac \in Nat, NEW e, e = Sent(d)
    PROVE  /\ DOMAIN e = PdFields /\ e.rmac \in Nat /\ e.cpr = d.cpr /\ e.sc = d.sc
           /\ e.rmac \in {d.rmac, NextMac(d.rmac)}
           /\ d.sc => e.rmac = NextMac(d.rmac)
  <1>1. NextMac(d.rmac) \in Nat
    BY DEF NoPlaceTwice
  <1>2. CASE d.sc
    BY <1>1, <1>2 DEF Sent, PdFields
  <1>3. CASE ~d.sc
    BY <1>3 DEF Sent
  <1> QED  BY <1>2, <1>3

LEMMA TurnPlainly ==
    ASSUME NoPlaceTwice, NEW d, DOMAIN d = PdFields, d.rmac \in Nat, NEW p,
           NEW id, NEW data, NEW chained, PdReply(d, id, data, chained), executed' = executed
    PROVE  OnceTurn(p, d, pd', executed, executed')
  <1>1. pd' = Sent(d)
    BY DEF PdReply
  <1> QED  BY <1>1, SentPlace DEF OnceTurn, Turn, KeepsPlace

LEMMA TurnExecutes ==
    ASSUME NoPlaceTwice, NEW d, DOMAIN d = PdFields, d.rmac \in Nat, NEW p, p.id \in CmdIds,
           p.id \in PlainCmds => d.sc /\ p.auth[2] = d.cpr /\ p.auth[4] = d.rmac,
           PdExecute(d, p)
    PROVE  OnceTurn(p, d, pd', executed, executed')
  <1>1. ASSUME NEW id, PdAnswer(d, id)
        PROVE  OnceTurn(p, d, pd', executed, executed')
    BY <1>1, TurnPlainly DEF PdAnswer
  <1>2. CASE PdPoll(d)
    BY <1>2, TurnPlainly DEF PdPoll
  <1>3. CASE PdKeyset(d, p)
    <2>1. CASE ~d.sc
      BY <1>1, <1>3, <2>1 DEF PdKeyset
    <2>2. CASE d.sc
      <3> DEFINE e == Sent(d)
      <3>1. /\ pd' = [e EXCEPT !.key = p.data.val, !.useD = FALSE, !.install = FALSE, !.sc = FALSE]
            /\ executed' = executed
        BY <1>3, <2>2 DEF PdKeyset
      <3>2. DOMAIN e = PdFields /\ e.rmac \in Nat
        BY SentPlace
      <3> HIDE DEF e
      <3>3. DOMAIN pd' = PdFields /\ pd'.rmac = e.rmac /\ ~pd'.sc
        BY <3>1, <3>2 DEF PdFields
      <3> QED  BY <3>1, <3>2, <3>3 DEF OnceTurn, Turn, KeepsPlace
    <2> QED  BY <2>1, <2>2
  <1>4. CASE p.id = "CHLNG" /\ PdChlng(d, p)
    <2>1. /\ pd' = [d EXCEPT !.sc = FALSE, !.cpr = p.auth[2], !.pdr = FreshNonce, !.rmac = 0,
                             !.skey = IF d.useD THEN SCBKD ELSE d.key]
          /\ executed' = executed
      BY <1>4 DEF PdChlng
    <2>2. DOMAIN pd' = PdFields /\ pd'.rmac = 0 /\ ~pd'.sc
      BY <2>1 DEF PdFields
    <2> QED  BY <2>1, <2>2 DEF OnceTurn, Turn, KeepsPlace
  <1>5. CASE p.id = "SCRYPT" /\ PdScrypt(d, p)
    <2>1. CASE d.sc
      BY <1>1, <1>5, <2>1 DEF PdScrypt
    <2>2. CASE ~d.sc
      <3>1. /\ pd' = [d EXCEPT !.sc = (p.auth = PdCrypt(d)), !.rmac = 0]
            /\ executed' = executed
        BY <1>5, <2>2 DEF PdScrypt
      <3>2. /\ DOMAIN pd' = PdFields /\ pd'.cpr = d.cpr /\ pd'.rmac = 0
            /\ pd'.sc = (p.auth = PdCrypt(d))
        BY <3>1 DEF PdFields
      <3>3. p.auth = PdCrypt(d) => p.auth[2] = d.cpr
        BY DEF PdCrypt
      <3>4. pd'.sc => p.auth[2] = d.cpr
        BY <3>2, <3>3
      <3> QED  BY <1>5, <3>1, <3>2, <3>4 DEF OnceTurn, Turn, KeepsPlace
    <2> QED  BY <2>1, <2>2
  <1>6. CASE p.id \in PlainCmds /\ PdCommand(d, p)
    <2> DEFINE e == Sent(d)
    <2>1. /\ \E ok \in BOOLEAN : executed' = Append(executed, <<p.data.val, ok>>)
          /\ pd' \in {[e EXCEPT !.addr = p.data.val], e}
      BY <1>6 DEF PdCommand
    <2>2. /\ DOMAIN e = PdFields /\ e.rmac \in Nat /\ e.cpr = d.cpr /\ e.sc = d.sc
          /\ d.sc => e.rmac = NextMac(d.rmac)
      BY SentPlace
    <2> HIDE DEF e
    <2>3. DOMAIN pd' = PdFields /\ pd'.rmac = e.rmac /\ pd'.cpr = e.cpr /\ pd'.sc = e.sc
      BY <2>1, <2>2 DEF PdFields
    <2>4. CarriesOut(p, d, pd', executed, executed')
      BY <1>6, <2>1, <2>2, <2>3 DEF CarriesOut
    <2> QED  BY <1>6, <2>2, <2>3, <2>4 DEF OnceTurn, Turn, KeepsPlace
  <1>7. \/ \E id \in {"NAK", "PDID", "PDCAP"} : PdAnswer(d, id)
        \/ PdPoll(d)
        \/ PdKeyset(d, p)
        \/ p.id = "CHLNG" /\ PdChlng(d, p)
        \/ p.id = "SCRYPT" /\ PdScrypt(d, p)
        \/ p.id \in PlainCmds /\ PdCommand(d, p)
    <2>1. CASE Enforce /\ ~d.sc /\ p.id \notin {"ID", "CAP", "CHLNG", "SCRYPT"}
      BY <2>1 DEF PdExecute
    <2>2. CASE ~(Enforce /\ ~d.sc /\ p.id \notin {"ID", "CAP", "CHLNG", "SCRYPT"})
      BY <2>2 DEF PdExecute, CmdIds, PlainCmds
    <2> QED  BY <2>1, <2>2
  <1> QED  BY <1>1, <1>2, <1>3, <1>4, <1>5, <1>6, <1>7

LEMMA TurnDecodes ==
    ASSUME NoPlaceTwice, NEW d, DOMAIN d = PdFields, d.rmac \in Nat, NEW p, p.id \in CmdIds,
           p.id \in PlainCmds => p.sec = "mac", PdDecode(d, p) \/ PdRefuse(d)
    PROVE  OnceTurn(p, d, pd', executed, executed')
  <1>1. ASSUME NEW f, DOMAIN f = PdFields, f.sc => d.sc, f.cpr = d.cpr, f.rmac = d.rmac,
               OnceTurn(p, f, pd', executed, executed')
        PROVE  OnceTurn(p, d, pd', executed, executed')
    BY <1>1 DEF OnceTurn, Turn, KeepsPlace, CarriesOut
  <1>2. CASE PdRefuse(d)
    BY <1>2, TurnPlainly DEF PdRefuse
  <1>3. CASE p.sec = "mac" /\ d.sc /\ p.auth = Mac(PdCrypt(d), d.rmac, d.seq) /\ PdExecute(d, p)
    <2>1. p.auth[2] = d.cpr /\ p.auth[4] = d.rmac
      BY <1>3, MacParts DEF PdCrypt
    <2> QED  BY <1>3, <2>1, TurnExecutes
  <1>4. CASE p.sec = "none" /\ PdExecute(d, p)
    BY <1>4, TurnExecutes
  <1>5. CASE p.sec = "hs" /\ PdExecute([d EXCEPT !.useD = @ \/ (p.dflt /\ d.install)], p)
    <2> DEFINE f == [d EXCEPT !.useD = @ \/ (p.dflt /\ d.install)]
    <2>1. DOMAIN f = PdFields /\ f.sc = d.sc /\ f.cpr = d.cpr /\ f.rmac = d.rmac
      BY DEF PdFields
    <2>2. PdExecute(f, p)
      BY <1>5
    <2> HIDE DEF f
    <2> QED  BY <1>1, <1>5, <2>1, <2>2, TurnExecutes
  <1>6. CASE PdRefuse([d EXCEPT !.sc = @ /\ p.sec # "mac"])
    <2> DEFINE f == [d EXCEPT !.sc = @ /\ p.sec # "mac"]
    <2>1. DOMAIN f = PdFields /\ (f.sc => d.sc) /\ f.cpr = d.cpr /\ f.rmac = d.rmac
      BY DEF PdFields
    <2>2. PdRefuse(f)
      BY <1>6
    <2> HIDE DEF f
    <2> QED  BY <1>1, <2>1, <2>2, TurnPlainly DEF PdRefuse
  <1> QED  BY <1>2, <1>3, <1>4, <1>5, <1>6 DEF PdDecode

LEMMA TurnReceives ==
    ASSUME NoPlaceTwice, DOMAIN pd = PdFields, pd.rmac \in Nat, PdReceive,
           NEW p, p = Head(toPd), p = Garbled \/ p.id \in CmdIds,
           p.id \in PlainCmds => p.sec = "mac"
    PROVE  /\ toPd # <<>> /\ toPd' = Tail(toPd) /\ UNCHANGED <<cp, cpq, cmds, delivered, told>>
           /\ OnceTurn(p, pd, pd', executed, executed')
  <1> DEFINE d == PdSeq(pd, p)
  <1>1. /\ toPd # <<>> /\ toPd' = Tail(toPd) /\ UNCHANGED <<cp, cpq, cmds, delivered, told>>
        /\ IF p = Garbled
           THEN pd' = [pd EXCEPT !.sc = FALSE] /\ UNCHANGED executed
           ELSE IF p.addr # pd.addr THEN UNCHANGED <<pd, executed>>
           ELSE IF d.seq = p.seq THEN PdDecode(d, p) ELSE PdRefuse(d)
    BY DEF PdReceive, pdSide, cpSide, submitted
  <1>2. DOMAIN d = PdFields /\ d.cpr = pd.cpr /\ (d.sc => pd.sc) /\ d.rmac = pd.rmac
    BY DEF PdSeq, PdFields
  <1> HIDE DEF d
  <1> SUFFICES OnceTurn(p, pd, pd', executed, executed')
    BY <1>1
  <1>3. CASE UNCHANGED <<pd, executed>>
    BY <1>3 DEF OnceTurn, Turn, KeepsPlace
  <1>4. CASE pd' = [pd EXCEPT !.sc = FALSE] /\ UNCHANGED executed
    <2>1. DOMAIN pd' = PdFields /\ ~pd'.sc /\ pd'.rmac = pd.rmac
      BY <1>4 DEF PdFields
    <2> QED  BY <1>4, <2>1 DEF OnceTurn, Turn, KeepsPlace
  <1>5. CASE p # Garbled /\ (PdDecode(d, p) \/ PdRefuse(d))
    <2>1. OnceTurn(p, d, pd', executed, executed')
      BY <1>2, <1>5, TurnDecodes
    <2> QED  BY <1>2, <2>1 DEF OnceTurn, Turn, KeepsPlace, CarriesOut
  <1> QED  BY <1>1, <1>3, <1>4, <1>5

-----------------------------------------------------------------------------

\* A packet of a panel that enforces the secure channel.
LEMMA OncePacket ==
    ASSUME Enforce, NEW c, CpOk(c), c.cmd \in CmdIds, InHand(c), c.phy = "reply",
           Holds(c) => c.st = "ONLINE", NEW p, p = CpPacket(c)
    PROVE  /\ p.id \in Starts => Starting(c, p.auth[2])
           /\ p.id \in PlainCmds => /\ Holds(c) /\ p.sec = "mac" /\ p.auth # <<>>
                                    /\ p.auth[2] = c.cpr /\ p.auth[4] = c.rmac
                                    /\ p.data.val = c.data.val
  <1> DEFINE Pkt(sec, auth, dflt) == Packet(c.addr, c.cmd, c.seq, sec, auth, dflt, CmdPayload(c))
  <1>1. /\ c.sc => p = Pkt("mac", CpMac(c), FALSE)
        /\ ~c.sc /\ c.cmd = "CHLNG" => p = Pkt("hs", <<NoKey, c.cpr, 0>>, c.useD)
        /\ ~c.sc /\ c.cmd = "SCRYPT" => p = Pkt("hs", CpCrypt(c), c.useD)
        /\ p.id = c.cmd /\ p.data = CmdPayload(c)
    BY DEF CpPacket, Packet
  <1>2. /\ c.sc => p.sec = "mac" /\ p.auth = CpMac(c)
        /\ ~c.sc /\ c.cmd = "CHLNG" => p.auth = <<NoKey, c.cpr, 0>>
        /\ ~c.sc /\ c.cmd = "SCRYPT" => p.auth = <<CpSessionKey(c), c.cpr, c.pdr>>
    BY <1>1 DEF Packet, CpCrypt
  <1>3. CASE p.id \in Starts
    <2>1. c.cmd \in {"CHLNG", "SCRYPT"} /\ c.st \in {"SC_CHLNG", "SC_SCRYPT"} /\ ~c.sc
      BY <1>1, <1>3 DEF Starts, InHand, CpOk, CpFine
    <2>2. p.auth[2] = c.cpr
      BY <1>2, <2>1
    <2>3. "CHLNG" \notin PlainCmds /\ "SCRYPT" \notin PlainCmds
      BY DEF PlainCmds
    <2> QED  BY <1>1, <2>1, <2>2, <2>3 DEF Starting
  <1>4. CASE p.id \in PlainCmds
    <2>1. Holds(c) /\ c.sc
      BY <1>1, <1>4 DEF Holds, CpOk
    <2>2. p.sec = "mac" /\ p.auth = Mac(<<CpSessionKey(c), c.cpr, c.pdr>>, c.rmac, c.seq)
      BY <1>2, <2>1 DEF CpMac, CpCrypt
    <2>3. p.auth # <<>> /\ p.auth[2] = c.cpr /\ p.auth[4] = c.rmac
      BY <2>2, MacParts
    <2>4. p.data = c.data
      BY <1>1, <1>4 DEF CmdPayload
    <2>5. PlainCmds \cap Starts = {}
      BY DEF PlainCmds, Starts
    <2> QED  BY <1>4, <2>1, <2>2, <2>3, <2>4, <2>5
  <1> QED  BY <1>3, <1>4

\* A command that comes off the queue is on no line and was not carried out.
LEMMA NewerThanAll ==
    ASSUME NEW a \in Nat, NEW b \in Nat, a <= b, NEW out, OutUpTo(out, a, b),
           NEW ex, DoneUpTo(ex, a), NEW l \in Nat, NEW v \in (b + 1)..l
    PROVE  /\ ~DoneIn(ex, v)
           /\ \A i \in 1..Len(out) : out[i].id \in PlainCmds => out[i].data.val # v
  <1>1. ASSUME NEW j \in 1..Len(ex)
        PROVE  ex[j][1] # v
    <2>1. ex[j][1] \in 0..a
      BY DEF DoneUpTo
    <2> QED  BY ONLY <2>1, a \in Nat, b \in Nat, a <= b, v \in (b + 1)..l
  <1>2. ASSUME NEW i \in 1..Len(out), out[i].id \in PlainCmds
        PROVE  out[i].data.val # v
    <2>1. out[i].data.val \in a..b
      BY <1>2 DEF OutUpTo
    <2> QED  BY ONLY <2>1, a \in Nat, b \in Nat, v \in (b + 1)..l
  <1> QED  BY <1>1, <1>2 DEF DoneIn

LEMMA OnceTransmits ==
    ASSUME Enforce, OnceInv, CommandInv', CpSetup \/ CpOnline \/ CpResend
    PROVE  OnceInv'
  <1>1. PICK a, b \in Nat : a <= b /\ PanelCommands(b) /\ ReaderCommands(a, b)
    BY DEF OnceInv, CommandInv
  <1>2. /\ CpOk(cp) /\ Ready /\ IsSeq(toPd) /\ IsSeq(cpq) /\ Len(cmds) \in Nat
        /\ DOMAIN pd = PdFields /\ pd.rmac \in Nat /\ Increasing(executed)
        /\ Holds(cp) => cp.st = "ONLINE"
        /\ OnceOnly(toPd, cp, pd, executed)
    BY DEF OnceInv, CommandInv, Frame, Commands, Ready
  <1>3. /\ Kept(cp, cp') /\ CpOk(cp') /\ cp'.cmd \in CmdIds /\ InHand(cp')
        /\ toPd' \in {toPd, Append(toPd, Garbled), Append(toPd, CpPacket(cp'))}
        /\ toPd' # toPd => cp'.phy = "reply"
    BY <1>2, PanelTransmits, KeptFine
  <1>4. TakesCommand /\ pd' = pd /\ executed' = executed
    BY <1>2, PanelTakes DEF pdSide
  <1>5. cp'.st = cp.st /\ cp'.cpr = cp.cpr /\ cp'.rmac = cp.rmac
    BY <1>3 DEF Kept
  <1>6. ASSUME cp'.data = cp.data,
               cp'.cmd \in PlainCmds => cp.phy # "idle" /\ cp.cmd = cp'.cmd
        PROVE  OnceOnly(toPd, cp', pd, executed) /\ (Holds(cp') => cp'.st = "ONLINE")
    <2>1. Holds(cp') => Holds(cp) /\ cp'.data.val = cp.data.val
      BY <1>6 DEF Holds
    <2>2. OnceOnly(toPd, cp', pd, executed)
      BY <1>2, <1>5, <2>1 DEF OnceOnly, Settled, Starting, LikeHeld, HeldSpent
    <2> QED  BY <1>2, <1>5, <2>1, <2>2
  <1>7. ASSUME cp.st = "ONLINE", cpq # <<>>, cp'.data = Head(cpq),
               cp'.phy # "idle" /\ cp'.cmd \in PlainCmds => Head(cpq).kind = "cmd"
        PROVE  OnceOnly(toPd, cp', pd, executed) /\ (Holds(cp') => cp'.st = "ONLINE")
    <2>1. Head(cpq).kind = "cmd" => Head(cpq).val \in (b + 1)..Len(cmds)
      BY <1>1, <1>2, <1>7, WaitingRead DEF PanelCommands
    <2>2. Holds(cp') =>
            /\ ~DoneIn(executed, cp'.data.val)
            /\ \A i \in 1..Len(toPd) : toPd[i].id \in PlainCmds => toPd[i].data.val # cp'.data.val
      <3> SUFFICES ASSUME Holds(cp')
                   PROVE  /\ ~DoneIn(executed, cp'.data.val)
                          /\ \A i \in 1..Len(toPd) :
                               toPd[i].id \in PlainCmds => toPd[i].data.val # cp'.data.val
        OBVIOUS
      <3> DEFINE v == cp'.data.val
      <3>1. v \in (b + 1)..Len(cmds)
        BY <1>7, <2>1 DEF Holds
      <3>2. OutUpTo(toPd, a, b) /\ DoneUpTo(executed, a)
        BY <1>1 DEF ReaderCommands
      <3> HIDE DEF v
      <3>3. /\ ~DoneIn(executed, v)
            /\ \A i \in 1..Len(toPd) : toPd[i].id \in PlainCmds => toPd[i].data.val # v
        BY <1>1, <1>2, <3>1, <3>2, NewerThanAll
      <3> QED  BY <3>3 DEF v
    <2>3. OnceOnly(toPd, cp', pd, executed)
      BY <1>2, <1>5, <2>2 DEF OnceOnly, Settled, Starting, LikeHeld, HeldSpent
    <2> QED  BY <1>5, <1>7, <2>3
  <1>8. OnceOnly(toPd, cp', pd, executed) /\ (Holds(cp') => cp'.st = "ONLINE")
    BY <1>4, <1>6, <1>7 DEF TakesCommand
  <1>9. OnceOnly(toPd', cp', pd, executed)
    <2>1. CASE toPd' = toPd
      BY <1>8, <2>1
    <2>2. CASE toPd' = Append(toPd, Garbled)
      <3>1. Garbled.id \notin Starts \cup PlainCmds
        BY DEF Garbled, Packet, Starts, PlainCmds
      <3> QED  BY <1>2, <1>8, <2>2, <3>1, OnceSends
    <2>3. CASE toPd' # toPd /\ toPd' = Append(toPd, CpPacket(cp'))
      <3> DEFINE p == CpPacket(cp')
      <3>1. /\ p.id \in Starts => Starting(cp', p.auth[2])
            /\ p.id \in PlainCmds => /\ Holds(cp') /\ p.sec = "mac" /\ p.auth # <<>>
                                     /\ p.auth[2] = cp'.cpr /\ p.auth[4] = cp'.rmac
                                     /\ p.data.val = cp'.data.val
        BY <1>3, <1>8, <2>3, OncePacket
      <3>2. toPd' = Append(toPd, p)
        BY <2>3
      <3> HIDE DEF p
      <3> QED  BY <1>2, <1>8, <3>1, <3>2, OnceSends
    <2> QED  BY <1>3, <2>1, <2>2, <2>3
  <1> QED  BY <1>2, <1>4, <1>8, <1>9 DEF OnceInv

-----------------------------------------------------------------------------

LEMMA OnceWaits ==
    ASSUME ~IsFiniteSet(Nonces), OnceInv, CommandInv',
           CpReceive \/ CpTimeout \/ CpRetryOnline \/ CpRetrySc
    PROVE  OnceInv'
  <1>1. /\ CpOk(cp) /\ InHand(cp) /\ IsSeq(toPd) /\ IsSeq(toCp)
        /\ DOMAIN pd = PdFields /\ pd.rmac \in Nat /\ Increasing(executed)
        /\ Holds(cp) => cp.st = "ONLINE"
        /\ OnceOnly(toPd, cp, pd, executed)
    BY DEF OnceInv, CommandInv, Frame
  <1>2. UNCHANGED <<toPd, pd, executed>>
    BY DEF CpReceive, CpTimeout, CpRetryOnline, CpRetrySc, pdSide
  <1>3. Outcome(cp, cp')
    BY <1>1, PanelReceives, PanelMoves
  <1>4. Holds(cp') => /\ Holds(cp) /\ cp'.data = cp.data
                      /\ cp'.st = cp.st /\ cp'.cpr = cp.cpr /\ cp'.rmac = cp.rmac
    BY <1>1, PanelWaits DEF Holds
  <1>5. ASSUME NEW n, n # FreshNonce, Starting(cp', n)
        PROVE  Starting(cp, n)
    BY <1>3, <1>5 DEF Outcome, InSession, Joined, Starting
  <1>6. FreshNonce \notin Remembered
    BY <1>1, FreshIsFresh
  <1>7. ASSUME NEW i \in 1..Len(toPd), toPd[i].auth # <<>>
        PROVE  toPd[i].auth[2] # FreshNonce
    <2>1. toPd[i] \in Range(toPd)
      BY <1>1 DEF Range, IsSeq
    <2> QED  BY <1>6, <1>7, <2>1 DEF Remembered
  <1>8. Settled(toPd, cp')
    BY <1>1, <1>5, <1>7 DEF OnceOnly, Settled
  <1>9. LikeHeld(toPd, cp') /\ HeldSpent(toPd, cp', pd, executed)
    BY <1>1, <1>4 DEF OnceOnly, LikeHeld, HeldSpent
  <1>10. OnceOnly(toPd, cp', pd, executed)
    BY <1>1, <1>8, <1>9 DEF OnceOnly
  <1> QED  BY <1>1, <1>2, <1>4, <1>10 DEF OnceInv

\* One that was not carried out before, and is none older, is newer.
LEMMA DoneNewer ==
    ASSUME NEW ex, NEW a \in Nat, DoneUpTo(ex, a), Increasing(ex), NEW b \in Nat,
           NEW v \in a..b, ~DoneIn(ex, v), NEW ok, NEW ex2, ex2 = Append(ex, <<v, ok>>)
    PROVE  Increasing(ex2)
  <1>1. /\ Len(ex) \in Nat /\ Len(ex2) = Len(ex) + 1
        /\ \A i \in 1..Len(ex) : ex2[i] = ex[i]
        /\ ex2[Len(ex) + 1] = <<v, ok>>
    BY Appended DEF DoneUpTo
  <1>2. ASSUME NEW i \in 1..Len(ex)
        PROVE  ex[i][1] < v
    <2> DEFINE w == ex[i][1]
    <2>1. w \in 0..a /\ w # v
      BY DEF DoneUpTo, DoneIn
    <2> HIDE DEF w
    <2>2. w < v
      BY <2>1
    <2> QED  BY <2>2 DEF w
  <1>3. ASSUME NEW i \in 1..Len(ex2), NEW j \in 1..Len(ex2), i < j
        PROVE  ex2[i][1] < ex2[j][1]
    <2>1. i \in 1..Len(ex) /\ (j \in 1..Len(ex) \/ j = Len(ex) + 1)
      BY ONLY <1>1, <1>3, i \in 1..Len(ex2), j \in 1..Len(ex2)
    <2>2. CASE j \in 1..Len(ex)
      BY <1>1, <1>3, <2>1, <2>2 DEF Increasing
    <2>3. CASE j = Len(ex) + 1
      <3>1. ex2[j][1] = v
        BY <1>1, <2>3
      <3> QED  BY <1>1, <1>2, <2>1, <3>1
    <2> QED  BY <2>1, <2>2, <2>3
  <1> QED  BY <1>3 DEF Increasing

LEMMA OnceAnswers ==
    ASSUME NoPlaceTwice, OnceInv, CommandInv', PdReceive
    PROVE  OnceInv'
  <1> DEFINE p == Head(toPd)
  <1>1. PICK a, b \in Nat : a <= b /\ PanelCommands(b) /\ ReaderCommands(a, b)
    BY DEF OnceInv, CommandInv
  <1>2. /\ IsSeq(toPd) /\ DoneUpTo(executed, a) /\ IsSeq(executed) /\ OutUpTo(toPd, a, b)
        /\ DOMAIN pd = PdFields /\ pd.rmac \in Nat /\ Increasing(executed)
        /\ Holds(cp) => cp.st = "ONLINE"
        /\ OnceOnly(toPd, cp, pd, executed)
    BY <1>1 DEF OnceInv, CommandInv, Frame, ReaderCommands, DoneUpTo
  <1>3. toPd # <<>>
    BY DEF PdReceive
  <1>4. 1 \in 1..Len(toPd) /\ p = toPd[1]
    BY <1>2, <1>3, TailOf
  <1>5. /\ p = Garbled \/ p.id \in CmdIds
        /\ p.id \in PlainCmds => p.sec = "mac"
    BY <1>2, <1>4 DEF OnceInv, CommandInv, Frame, OnceOnly, Settled
  <1>6. /\ toPd' = Tail(toPd) /\ cp' = cp
        /\ OnceTurn(p, pd, pd', executed, executed')
    BY <1>2, <1>5, TurnReceives
  <1>7. /\ OnceOnly(Tail(toPd), cp, pd', executed')
        /\ executed' # executed => ~DoneIn(executed, p.data.val)
    <2> DEFINE out == toPd
               ex2 == executed'
               e == pd'
    <2>1. Turn(Head(out), pd, e, executed, ex2)
      BY <1>6 DEF OnceTurn
    <2>2. IsSeq(out) /\ out # <<>> /\ OnceOnly(out, cp, pd, executed)
      BY <1>2, <1>3
    <2> HIDE DEF out, ex2, e
    <2>3. /\ OnceOnly(Tail(out), cp, e, ex2)
          /\ ex2 # executed => ~DoneIn(executed, Head(out).data.val)
      BY <1>2, <2>1, <2>2, OnceTakes
    <2> QED  BY <2>3 DEF out, ex2, e
  <1>8. Increasing(executed')
    <2>1. CASE executed' = executed
      BY <1>2, <2>1
    <2>2. CASE executed' # executed
      <3> DEFINE v == p.data.val
      <3>1. PICK ok \in BOOLEAN : executed' = Append(executed, <<v, ok>>)
        BY <1>6, <2>2 DEF OnceTurn, Turn, CarriesOut
      <3>2. v \in a..b /\ ~DoneIn(executed, v)
        BY <1>1, <1>2, <1>3, <1>6, <1>7, <2>2, OutRead DEF OnceTurn, Turn, CarriesOut
      <3> HIDE DEF v
      <3> QED  BY <1>1, <1>2, <3>1, <3>2, DoneNewer
    <2> QED  BY <2>1, <2>2
  <1> QED  BY <1>2, <1>6, <1>7, <1>8 DEF OnceInv, OnceTurn

-----------------------------------------------------------------------------

\* The reader leaves its session, and the line may be lost with it.
LEMMA OnceLeaves ==
    ASSUME NEW out, NEW c, NEW d, NEW ex, OnceOnly(out, c, d, ex), NEW e, ~e.sc,
           NEW out2 \in {out, <<>>}
    PROVE  OnceOnly(out2, c, e, ex)
  <1>1. CASE out2 = out
    BY <1>1 DEF OnceOnly, OutSpent, HeldSpent, Spent
  <1>2. CASE out2 = <<>>
    BY <1>2 DEF OnceOnly, Settled, Alike, LikeHeld, OutSpent, HeldSpent, Spent, Behind
  <1> QED  BY <1>1, <1>2

LEMMA OnceKept ==
    ASSUME Enforce, ~IsFiniteSet(Nonces), NoPlaceTwice, OnceInv, [Next]_vars
    PROVE  OnceInv'
  <1>1. CommandInv'
    BY CommandsKept DEF OnceInv
  <1>2. CASE PdScTimeout \/ PdReset
    <2>1. /\ UNCHANGED <<cp, executed>> /\ toPd' \in {toPd, <<>>}
          /\ pd' = [pd EXCEPT !.sc = FALSE] \/ pd' = PdBoot
      BY <1>2 DEF PdScTimeout, PdReset, cpSide
    <2>2. DOMAIN pd' = PdFields /\ ~pd'.sc /\ pd'.rmac \in Nat
      BY <2>1 DEF OnceInv, PdBoot, PdFields
    <2>3. OnceOnly(toPd', cp, pd', executed)
      BY <2>1, <2>2, OnceLeaves DEF OnceInv
    <2> QED  BY <1>1, <2>1, <2>2, <2>3 DEF OnceInv
  <1>3. CASE \/ PdSubmit \/ \E kind \in PlainCmds : CpSubmit(kind)
             \/ \E k \in NewKeys : CpSubmitKeyset(k)
             \/ UNCHANGED vars
    <2>1. UNCHANGED <<cp, pd, toPd, executed>>
      BY <1>3 DEF PdSubmit, CpSubmit, CpSubmitKeyset, vars, cpSide, pdSide
    <2> QED  BY <1>1, <2>1 DEF OnceInv
  <1> QED  BY <1>1, <1>2, <1>3, StepsOfNext, OnceTransmits, OnceWaits, OnceAnswers
           DEF NotThePanel

LEMMA OnceInit == Init => OnceInv
  <1> SUFFICES ASSUME Init PROVE OnceInv
    OBVIOUS
  <1>1. cp = CpBoot /\ pd = PdBoot /\ toPd = <<>> /\ executed = <<>>
    BY DEF Init
  <1>2. CommandInv
    BY CommandsInit
  <1>3. DOMAIN pd = PdFields /\ pd.rmac \in Nat /\ ~Holds(cp)
    BY <1>1 DEF PdBoot, PdFields, CpBoot, Holds
  <1>4. OnceOnly(toPd, cp, pd, executed) /\ Increasing(executed)
    BY <1>1, <1>3 DEF OnceOnly, Settled, Alike, LikeHeld, OutSpent, HeldSpent, Increasing
  <1> QED  BY <1>2, <1>3, <1>4 DEF OnceInv

\* A reader in a secure session carries no command out twice, however often the panel repeats
\* it because a reply was lost or late, and whatever restarts: the MAC of a repetition is
\* that of a place in the session, which the chain of MACs leaves behind with the first
\* reply, and no session has the name of an earlier one (osdp_phy_decode_packet,
\* osdp_compute_mac, cp_phy_state_update).
THEOREM CommandsCarriedOutOnce ==
    ASSUME Enforce, ~IsFiniteSet(Nonces), NoPlaceTwice
    PROVE  Spec => []CommandsOnce
  <1>1. Init => OnceInv
    BY OnceInit
  <1>2. OnceInv /\ [Next]_vars => OnceInv'
    BY OnceKept
  <1>3. OnceInv => CommandsOnce
    <2> SUFFICES ASSUME OnceInv PROVE CommandsOnce
      OBVIOUS
    <2>1. PICK a \in Nat : DoneUpTo(executed, a)
      BY DEF OnceInv, CommandInv, ReaderCommands
    <2>2. DOMAIN executed = 1..Len(executed)
      BY <2>1 DEF DoneUpTo, IsSeq
    <2> QED  BY <2>2 DEF OnceInv, Increasing, CommandsOnce
  <1> QED  BY <1>1, <1>2, <1>3, PTL DEF Spec

-----------------------------------------------------------------------------
(* The reply to a command, and its place in the session                    *)

\* A command is carried out, or is one that is acknowledged regardless.
CarriedOut(ex, k, v) == \E e \in Range(ex) : e[1] = v /\ (e[2] \/ k = "LED")

\* The packet x was made in session n, and at place k of it.  A reader refuses a command in
\* its session too, but at no place of its own.
OfSession(x, n) == x.sec = "mac" /\ x.id # "NAK" /\ x.auth[2] = n
AtPlace(x, n, k) == OfSession(x, n) /\ x.auth[4] = k

\* The reply r is right for command p, or for the command in the panel's hand, when the
\* commands ex have been carried out.
RightFor(id, v, r, ex) ==
    id \in PlainCmds =>
        /\ CarriedOut(ex, id, v)
        /\ id = "LSTAT" => r.id = "LSTATR" /\ r.data = StatusData(v)
RightAnswer(p, r, ex) == RightFor(p.id, p.data.val, r, ex)
RightReply(c, r, ex) == RightFor(c.cmd, c.data.val, r, ex)

\* What the panel may find on the lines.
WellMade(p) ==
    /\ p.sec = "mac" => p.auth # <<>>
    /\ p.sec = "hs" => p.id \in Starts
WellReplied(r) ==
    /\ r.sec = "mac" => r.auth # <<>>
    /\ r.sec \in {"mac", "none"} \/ r.id \in {"CCRYPT", "RMAC_I"}
    /\ Enforce /\ r.id \in {"RAW", "LSTATR"} => r.sec = "mac"
    /\ r.id = "LSTATR" => r.data.kind = "status"

\* The reply r to p: at the place of p, and right, unless p is refused.
Replied(p, r, ex) ==
    /\ WellReplied(r)
    /\ r.id # "NAK" => /\ RightAnswer(p, r, ex)
                       /\ r.sec = "mac" => /\ p.sec = "mac" /\ r.auth[2] = p.auth[2]
                                           /\ r.auth[4] = p.auth[4]

LEMMA RepliedAtPlace ==
    ASSUME NEW p, NEW d, NEW ex, NEW id, NEW data, NEW chained, PdSendReply(d, id, data, chained),
           id \notin {"CCRYPT", "RMAC_I"}, id = "LSTATR" => data.kind = "status",
           Enforce /\ id \in {"RAW", "LSTATR"} => d.sc,
           id # "NAK" => /\ Genuine(p, d) /\ p.id \notin Starts
                         /\ \A r : r.id = id /\ r.data = data => RightAnswer(p, r, ex)
    PROVE  \E r : Transmit(toCp, r) /\ Replied(p, r, ex)
  <1>1. PICK r : /\ Transmit(toCp, r) /\ r.id = id /\ r.data = data
                 /\ d.sc => r.sec = "mac" /\ r.auth = Mac(PdCrypt(d), d.rmac, chained)
                 /\ ~d.sc => r.sec = "none"
    BY ReplyOf
  <1>2. d.sc => r.auth # <<>> /\ r.auth[2] = d.cpr /\ r.auth[4] = d.rmac
    BY <1>1, MacParts DEF PdCrypt
  <1>3. WellReplied(r)
    BY <1>1, <1>2 DEF WellReplied
  <1>4. ASSUME r.id # "NAK"
        PROVE  /\ RightAnswer(p, r, ex)
               /\ r.sec = "mac" => /\ p.sec = "mac" /\ r.auth[2] = p.auth[2]
                                   /\ r.auth[4] = p.auth[4]
    <2>1. Genuine(p, d) /\ p.id \notin Starts /\ RightAnswer(p, r, ex)
      BY <1>1, <1>4
    <2>2. r.sec = "mac" => d.sc
      BY <1>1
    <2>3. d.sc => p.sec = "mac" /\ p.auth = Mac(PdCrypt(d), d.rmac, d.seq)
      BY <2>1 DEF Genuine, Starts
    <2>4. d.sc => p.auth[2] = d.cpr /\ p.auth[4] = d.rmac
      BY <2>3, MacParts DEF PdCrypt
    <2> QED  BY <1>2, <2>1, <2>2, <2>3, <2>4
  <1> QED  BY <1>1, <1>3, <1>4 DEF Replied

LEMMA RepliedRefusing ==
    ASSUME NEW p, NEW d, NEW ex, NEW chained, PdSendReply(d, "NAK", NoData, chained)
    PROVE  \E r : Transmit(toCp, r) /\ Replied(p, r, ex)
  BY RepliedAtPlace

LEMMA RepliedCommand ==
    ASSUME NEW p, p.id \in PlainCmds, p.id \notin Starts, NEW d, Genuine(p, d), Enforce => d.sc,
           IsSeq(executed), PdCommand(d, p)
    PROVE  \E r : Transmit(toCp, r) /\ Replied(p, r, executed')
  <1>1. PICK ok \in BOOLEAN :
          LET r == IF ok THEN CmdReply(p) ELSE RefusedReply(p) IN
          /\ executed' = Append(executed, <<p.data.val, ok>>)
          /\ PdSendReply(d, r.id, r.data, d.seq)
    BY DEF PdCommand
  <1> DEFINE a == IF ok THEN CmdReply(p) ELSE RefusedReply(p)
             v == p.data.val
  <1>2. /\ a.id \in {"LSTATR", "COM", "ACK", "NAK"}
        /\ a.id = "LSTATR" => ok /\ p.id = "LSTAT" /\ a.data = StatusData(v)
        /\ a.id # "NAK" => ok \/ p.id = "LED"
        /\ p.id = "LSTAT" /\ a.id # "NAK" => a.id = "LSTATR"
    BY DEF CmdReply, RefusedReply
  <1>3. /\ executed' = Append(executed, <<v, ok>>)
        /\ PdSendReply(d, a.id, a.data, d.seq)
    BY <1>1
  <1> HIDE DEF a, v
  <1>4. <<v, ok>> \in Range(executed')
    <2>1. /\ Len(executed) \in Nat /\ IsSeq(executed') /\ Len(executed') = Len(executed) + 1
          /\ executed'[Len(executed) + 1] = <<v, ok>>
      BY <1>3, Appended
    <2>2. Len(executed) + 1 \in DOMAIN executed'
      BY <2>1 DEF IsSeq
    <2> QED  BY <2>1, <2>2 DEF Range
  <1>5. ok \/ p.id = "LED" => CarriedOut(executed', p.id, v)
    BY <1>4 DEF CarriedOut
  <1>6. ASSUME a.id # "NAK", NEW r, r.id = a.id, r.data = a.data
        PROVE  RightAnswer(p, r, executed')
    BY <1>2, <1>5, <1>6 DEF RightAnswer, RightFor, v
  <1>7. a.id = "LSTATR" => a.data.kind = "status"
    BY <1>2 DEF StatusData
  <1> QED  BY <1>2, <1>3, <1>6, <1>7, RepliedAtPlace

-----------------------------------------------------------------------------

LEMMA RepliedHandshake ==
    ASSUME NEW p, p.id \in Starts, NEW d, PdChlng(d, p) \/ PdScrypt(d, p)
    PROVE  \E r : Transmit(toCp, r) /\ Replied(p, r, executed')
  <1>1. p.id \notin PlainCmds
    BY DEF Starts, PlainCmds
  <1>2. ASSUME NEW e, NEW id \in {"CCRYPT", "RMAC_I"}, NEW auth, PdSend(e, id, "hs", auth, NoData)
        PROVE  \E r : Transmit(toCp, r) /\ Replied(p, r, executed')
    <2>1. PICK r : Transmit(toCp, r) /\ r.id = id /\ r.sec = "hs"
      BY <1>2 DEF PdSend, Packet
    <2>2. WellReplied(r)
      BY <2>1 DEF WellReplied
    <2>3. Replied(p, r, executed')
      BY <1>1, <2>1, <2>2 DEF Replied, RightAnswer, RightFor
    <2> QED  BY <2>1, <2>3
  <1>3. CASE PdChlng(d, p)
    BY <1>2, <1>3 DEF PdChlng
  <1>4. CASE PdScrypt(d, p) /\ d.sc
    BY <1>4, RepliedRefusing DEF PdScrypt, PdAnswer, PdReply
  <1>5. CASE PdScrypt(d, p) /\ ~d.sc
    BY <1>2, <1>5 DEF PdScrypt
  <1> QED  BY <1>3, <1>4, <1>5

LEMMA RepliedExecuted ==
    ASSUME IsSeq(executed), NEW p, p.id \in CmdIds, NEW d, Genuine(p, d), PdExecute(d, p)
    PROVE  \E r : Transmit(toCp, r) /\ Replied(p, r, executed')
  <1>1. ASSUME NEW id \in {"ACK", "RAW", "PDID", "PDCAP"}, NEW data, p.id \notin Starts \cup PlainCmds,
               id = "RAW" /\ Enforce => d.sc, PdSendReply(d, id, data, d.seq)
        PROVE  \E r : Transmit(toCp, r) /\ Replied(p, r, executed')
    <2>1. \A r : RightAnswer(p, r, executed')
      BY <1>1 DEF RightAnswer, RightFor
    <2> QED  BY <1>1, <2>1, RepliedAtPlace
  <1>2. CASE PdAnswer(d, "NAK")
    BY <1>2, RepliedRefusing DEF PdAnswer, PdReply
  <1>3. CASE p.id = "ID" /\ PdAnswer(d, "PDID")
    BY <1>1, <1>3 DEF PdAnswer, PdReply, Starts, PlainCmds
  <1>4. CASE p.id = "CAP" /\ PdAnswer(d, "PDCAP")
    BY <1>1, <1>4 DEF PdAnswer, PdReply, Starts, PlainCmds
  <1>5. CASE p.id = "POLL" /\ PdPoll(d) /\ (Enforce => d.sc)
    <2>1. \/ PdSendReply(d, "ACK", NoData, d.seq)
          \/ PdSendReply(d, "RAW", EventData(Head(pdq)), d.seq)
      BY <1>5 DEF PdPoll, PdReply
    <2>2. p.id \notin Starts \cup PlainCmds
      BY <1>5 DEF Starts, PlainCmds
    <2>3. CASE PdSendReply(d, "ACK", NoData, d.seq)
      BY <1>1, <2>2, <2>3
    <2>4. CASE PdSendReply(d, "RAW", EventData(Head(pdq)), d.seq)
      BY <1>1, <1>5, <2>2, <2>4
    <2> QED  BY <2>1, <2>3, <2>4
  <1>6. CASE p.id = "KEYSET" /\ PdKeyset(d, p) /\ d.sc
    <2>1. PdSendReply(d, "ACK", NoData, d.seq) /\ p.id \notin Starts \cup PlainCmds
      BY <1>6 DEF PdKeyset, Starts, PlainCmds
    <2> QED  BY <1>1, <2>1
  <1>7. CASE p.id \in Starts /\ (PdChlng(d, p) \/ PdScrypt(d, p))
    BY <1>7, RepliedHandshake
  <1>8. CASE p.id \in PlainCmds /\ PdCommand(d, p) /\ (Enforce => d.sc)
    <2>1. p.id \notin Starts
      BY <1>8 DEF Starts, PlainCmds
    <2> QED  BY <1>8, <2>1, RepliedCommand
  <1>9. \/ PdAnswer(d, "NAK")
        \/ p.id = "ID" /\ PdAnswer(d, "PDID")
        \/ p.id = "CAP" /\ PdAnswer(d, "PDCAP")
        \/ p.id = "POLL" /\ PdPoll(d) /\ (Enforce => d.sc)
        \/ p.id = "KEYSET" /\ PdKeyset(d, p) /\ d.sc
        \/ p.id \in Starts /\ (PdChlng(d, p) \/ PdScrypt(d, p))
        \/ p.id \in PlainCmds /\ PdCommand(d, p) /\ (Enforce => d.sc)
    <2>1. CASE Enforce /\ ~d.sc /\ p.id \notin {"ID", "CAP", "CHLNG", "SCRYPT"}
      BY <2>1 DEF PdExecute
    <2>2. CASE ~(Enforce /\ ~d.sc /\ p.id \notin {"ID", "CAP", "CHLNG", "SCRYPT"})
      <3>1. CASE p.id \in {"ID", "CAP"}
        <4>1. (p.id = "ID" => PdAnswer(d, "PDID")) /\ (p.id = "CAP" => PdAnswer(d, "PDCAP"))
          BY <2>2, <3>1 DEF PdExecute, PlainCmds
        <4> QED  BY <3>1, <4>1
      <3>2. CASE p.id \in {"CHLNG", "SCRYPT"}
        <4>1. PdChlng(d, p) \/ PdScrypt(d, p)
          BY <2>2, <3>2 DEF PdExecute, PlainCmds
        <4> QED  BY <3>2, <4>1 DEF Starts
      <3>3. CASE p.id = "KEYSET"
        <4>1. PdKeyset(d, p)
          BY <2>2, <3>3 DEF PdExecute, PlainCmds
        <4> QED  BY <3>3, <4>1 DEF PdKeyset
      <3>4. CASE p.id = "POLL"
        <4>1. (Enforce => d.sc) /\ PdPoll(d)
          BY <2>2, <3>4 DEF PdExecute, PlainCmds
        <4> QED  BY <3>4, <4>1
      <3>5. CASE p.id \in PlainCmds
        <4>1. Enforce => d.sc
          BY <2>2, <3>5 DEF PlainCmds
        <4>2. PdCommand(d, p)
          BY <2>2, <3>5 DEF PdExecute, PlainCmds
        <4> QED  BY <3>5, <4>1, <4>2
      <3> QED  BY <3>1, <3>2, <3>3, <3>4, <3>5 DEF CmdIds
    <2> QED  BY <2>1, <2>2
  <1> QED  BY <1>2, <1>3, <1>4, <1>5, <1>6, <1>7, <1>8, <1>9

\* What the reader does with the packet p: it may be silent, may put noise on the line, or
\* replies to it.
Replies(p) ==
    /\ \/ toCp' \in {toCp, Append(toCp, Garbled)}
       \/ \E r : toCp' = Append(toCp, r) /\ Replied(p, r, executed')
    /\ executed' = executed \/ \E x : executed' = Append(executed, x)

\* The reader's turn.
LEMMA RepliesRightly ==
    ASSUME Shapes, IsSeq(executed), toPd # <<>> => WellMade(Head(toPd)), PdReceive
    PROVE  /\ toPd # <<>> /\ toPd' = Tail(toPd) /\ UNCHANGED <<cpSide, submitted>>
           /\ Replies(Head(toPd))
           /\ \/ toCp' = toCp /\ UNCHANGED used
              \/ \E r : Transmit(toCp, r) /\ Replied(Head(toPd), r, executed')
  <1> DEFINE p == Head(toPd)
             d == PdSeq(pd, p)
  <1>1. /\ toPd # <<>> /\ toPd' = Tail(toPd) /\ UNCHANGED <<cpSide, submitted>>
        /\ \/ toCp' = toCp /\ UNCHANGED used
           \/ p # Garbled /\ d.seq = p.seq /\ PdDecode(d, p)
           \/ PdRefuse(d)
    BY DEF PdReceive, pdSide
  <1>2. p = Garbled \/ p.id \in CmdIds
    <2>1. p = toPd[1] /\ 1 \in 1..Len(toPd)
      BY <1>1, TailOf DEF Shapes, Frame
    <2> QED  BY <2>1 DEF Shapes, Frame
  <1>3. DOMAIN d = PdFields
    BY DEF PdSeq, PdFields, Shapes
  <1>4. WellMade(p)
    BY <1>1
  <1>5. executed' = executed \/ \E x : executed' = Append(executed, x)
    BY AnswersReceived DEF Shapes, Answers
  <1> HIDE DEF d, p
  <1>6. ASSUME NEW e, PdRefuse(e)
        PROVE  \E r : Transmit(toCp, r) /\ Replied(p, r, executed')
    BY <1>6, RepliedRefusing DEF PdRefuse, PdReply
  <1>7. ASSUME p # Garbled, d.seq = p.seq, PdDecode(d, p)
        PROVE  \E r : Transmit(toCp, r) /\ Replied(p, r, executed')
    <2> DEFINE h == [d EXCEPT !.useD = @ \/ (p.dflt /\ d.install)]
               f == [d EXCEPT !.sc = @ /\ p.sec # "mac"]
    <2>1. \/ /\ PdExecute(d, p)
             /\ \/ p.sec = "mac" /\ d.sc /\ p.auth = Mac(PdCrypt(d), d.rmac, d.seq)
                \/ p.sec = "none" /\ ~d.sc
          \/ p.sec = "hs" /\ PdExecute(h, p)
          \/ PdRefuse(f)
      BY <1>7 DEF PdDecode
    <2>2. h.seq = d.seq
      BY <1>3 DEF PdFields
    <2> HIDE DEF h, f
    <2>3. CASE /\ PdExecute(d, p)
               /\ \/ p.sec = "mac" /\ d.sc /\ p.auth = Mac(PdCrypt(d), d.rmac, d.seq)
                  \/ p.sec = "none" /\ ~d.sc
      <3>1. Genuine(p, d)
        BY <1>7, <2>3 DEF Genuine
      <3> QED  BY <1>2, <1>7, <2>3, <3>1, RepliedExecuted
    <2>4. CASE p.sec = "hs" /\ PdExecute(h, p)
      <3>1. Genuine(p, h)
        BY <1>4, <1>7, <2>2, <2>4 DEF Genuine, WellMade, Starts
      <3> QED  BY <1>2, <1>7, <2>4, <3>1, RepliedExecuted
    <2> QED  BY <1>6, <2>1, <2>3, <2>4
  <1>8. \/ toCp' = toCp /\ UNCHANGED used
        \/ \E r : Transmit(toCp, r) /\ Replied(p, r, executed')
    BY <1>1, <1>6, <1>7 DEF p
  <1>9. \/ toCp' \in {toCp, Append(toCp, Garbled)}
        \/ \E r : toCp' = Append(toCp, r) /\ Replied(p, r, executed')
    BY <1>8 DEF Transmit
  <1> QED  BY <1>1, <1>5, <1>8, <1>9 DEF Replies, p

-----------------------------------------------------------------------------

LEMMA Elements ==
    ASSUME NEW s, IsSeq(s)
    PROVE  /\ DOMAIN s = 1..Len(s) /\ Len(s) \in Nat
           /\ \A i \in 1..Len(s) : s[i] \in Range(s)
           /\ \A x \in Range(s) : \E i \in 1..Len(s) : x = s[i]
  <1>1. DOMAIN s = 1..Len(s) /\ Len(s) \in Nat
    BY DEF IsSeq
  <1> QED  BY <1>1 DEF Range

LEMMA OneMore ==
    ASSUME NEW s, IsSeq(s), NEW e, NEW t, t = Append(s, e)
    PROVE  IsSeq(t) /\ Range(t) = Range(s) \cup {e}
  <1>1. /\ IsSeq(t) /\ Len(s) \in Nat /\ Len(t) = Len(s) + 1
        /\ \A i \in 1..Len(s) : t[i] = s[i]
        /\ t[Len(s) + 1] = e
    BY Appended
  <1>2. ASSUME NEW x \in Range(t)
        PROVE  x \in Range(s) \cup {e}
    <2>1. PICK i \in 1..Len(t) : x = t[i]
      BY <1>1, Elements
    <2>2. i \in 1..Len(s) \/ i = Len(s) + 1
      BY <1>1, <2>1
    <2> QED  BY <1>1, <2>1, <2>2, Elements
  <1>3. ASSUME NEW x \in Range(s) \cup {e}
        PROVE  x \in Range(t)
    <2>1. CASE x = e
      <3>1. Len(s) + 1 \in 1..Len(t)
        BY <1>1
      <3> QED  BY <1>1, <2>1, <3>1, Elements
    <2>2. CASE x \in Range(s)
      <3>1. PICK i \in 1..Len(s) : x = s[i]
        BY <2>2, Elements
      <3>2. i \in 1..Len(t)
        BY <1>1, <3>1
      <3> QED  BY <1>1, <3>1, <3>2, Elements
    <2> QED  BY <1>3, <2>1, <2>2
  <1> QED  BY <1>1, <1>2, <1>3

LEMMA OneLess ==
    ASSUME NEW s, IsSeq(s), s # <<>>, NEW t, t = Tail(s)
    PROVE  IsSeq(t) /\ Range(t) \subseteq Range(s) /\ Head(s) \in Range(s)
  <1>1. /\ IsSeq(t) /\ Len(s) \in Nat \ {0} /\ Len(t) = Len(s) - 1
        /\ \A i \in 1..(Len(s) - 1) : t[i] = s[i + 1]
        /\ Head(s) = s[1]
    BY TailOf
  <1>2. ASSUME NEW x \in Range(t)
        PROVE  x \in Range(s)
    <2>1. PICK i \in 1..Len(t) : x = t[i]
      BY <1>1, Elements
    <2>2. i \in 1..(Len(s) - 1) /\ i + 1 \in 1..Len(s)
      BY <1>1, <2>1
    <2>3. x = s[i + 1]
      BY <1>1, <2>1, <2>2
    <2> QED  BY <2>2, <2>3, Elements
  <1>3. 1 \in 1..Len(s)
    BY <1>1
  <1> QED  BY <1>1, <1>2, <1>3, Elements

LEMMA FirstOnes ==
    ASSUME NEW s, IsSeq(s), NEW n \in 0..Len(s), NEW t, t = SubSeq(s, 1, n)
    PROVE  IsSeq(t) /\ Range(t) \subseteq Range(s)
  <1>1. /\ IsSeq(t) /\ Len(t) = n /\ \A i \in 1..n : t[i] = s[i]
    BY Prefix
  <1>2. Len(s) \in Nat
    BY Elements
  <1>3. ASSUME NEW x \in Range(t)
        PROVE  x \in Range(s)
    <2>1. PICK i \in 1..Len(t) : x = t[i]
      BY <1>1, Elements
    <2>2. i \in 1..Len(s)
      BY <1>1, <1>2, <2>1
    <2> QED  BY <1>1, <2>1, <2>2, Elements
  <1> QED  BY <1>1, <1>3

\* The end of state_update, of a panel that is or was online, or of one that is not.
Moves(c, e, on) ==
    /\ delivered' = IF on /\ e.evreq THEN Given(e.data) ELSE delivered
    /\ DOMAIN cp' = CpFields /\ cp'.phy = "idle" /\ cp'.st = e.st
    /\ cp'.useD = e.useD /\ cp'.evreq = (e.evreq /\ ~on)
    /\ cp'.rmac = e.rmac \/ (cp'.rmac = 0 /\ e.st = "SC_CHLNG" /\ c.st # e.st)
    /\ cp'.sc = e.sc \/ (cp'.sc = FALSE /\ e.st = "OFFLINE")

LEMMA SettleMoves ==
    ASSUME NEW c, NEW e, DOMAIN e = CpFields, Settle(c, e), NEW on \in BOOLEAN,
           on <=> "ONLINE" \in {c.st, e.st}
    PROVE  Moves(c, e, on)
  <1> DEFINE online == "ONLINE" \in {c.st, e.st}
             m == [e EXCEPT !.phy = "idle", !.evreq = @ /\ ~online]
  <1>1. /\ delivered' = IF online /\ e.evreq THEN Given(e.data) ELSE delivered
        /\ cp' = IF m.st = c.st THEN m
                 ELSE CASE m.st = "OFFLINE"  -> [m EXCEPT !.sc = FALSE]
                        [] m.st = "SC_CHLNG" -> [m EXCEPT !.cpr = FreshNonce, !.pdr = 0, !.rmac = 0]
                        [] OTHER             -> m
    BY DEF Settle
  <1>2. /\ DOMAIN m = CpFields /\ m.st = e.st /\ m.evreq = (e.evreq /\ ~online) /\ m.phy = "idle"
        /\ m.useD = e.useD /\ m.rmac = e.rmac /\ m.sc = e.sc
    BY DEF CpFields
  <1>3. online = on
    OBVIOUS
  <1> HIDE DEF m, online
  <1>4. /\ DOMAIN cp' = CpFields /\ cp'.phy = "idle" /\ cp'.st = m.st
        /\ cp'.useD = m.useD /\ cp'.evreq = m.evreq
        /\ cp'.rmac = m.rmac \/ (cp'.rmac = 0 /\ m.st = "SC_CHLNG" /\ m.st # c.st)
        /\ cp'.sc = m.sc \/ (cp'.sc = FALSE /\ m.st = "OFFLINE")
    BY <1>1, <1>2 DEF CpFields
  <1>5. /\ delivered' = (IF on /\ e.evreq THEN Given(e.data) ELSE delivered)
        /\ cp'.evreq = (e.evreq /\ ~on)
    BY <1>1, <1>2, <1>3, <1>4
  <1> QED  BY <1>2, <1>4, <1>5 DEF Moves

-----------------------------------------------------------------------------

\* An event is handed over only if one is held, and then that one.
HandsOver(c) ==
    /\ delivered' = delivered \/ (c.evreq /\ delivered' = Given(c.data))
    /\ ~c.evreq \/ c.st = "ONLINE" => ~cp'.evreq

LEMMA ErrGives ==
    ASSUME NEW c, CpFine(c), CpError(c)
    PROVE  /\ told' = told /\ ~cp'.sc /\ cp'.rmac \in {c.rmac, 0} /\ HandsOver(c)
           /\ Enforce => cp'.useD = c.useD /\ cp'.st # "SET_SCBK"
  <1> DEFINE e == ErrNext(c)
  <1>1. DOMAIN c = CpFields /\ c.st \in States /\ Settle(c, e) /\ told' = told
    BY DEF CpFine, CpError
  <1>2. PICK on \in BOOLEAN : on <=> "ONLINE" \in {c.st, e.st}
    OBVIOUS
  <1>3. /\ DOMAIN e = CpFields /\ e.evreq = c.evreq /\ e.data = c.data /\ e.rmac = c.rmac
        /\ Enforce => e.useD = c.useD /\ e.st # "SET_SCBK"
    BY <1>1 DEF ErrNext, CpFields, States
  <1> HIDE DEF e
  <1>4. /\ delivered' = IF on /\ e.evreq THEN Given(e.data) ELSE delivered
        /\ cp'.st = e.st /\ cp'.useD = e.useD /\ cp'.evreq = (e.evreq /\ ~on)
        /\ cp'.rmac = e.rmac \/ cp'.rmac = 0
    <2>1. Moves(c, e, on)
      BY <1>1, <1>2, <1>3, SettleMoves
    <2> QED  BY <2>1 DEF Moves
  <1>5. ~cp'.sc
    BY <1>1, ErrOutcome DEF e, InSession, Joined
  <1>6. HandsOver(c)
    BY <1>2, <1>3, <1>4 DEF HandsOver
  <1> QED  BY <1>1, <1>3, <1>4, <1>5, <1>6

LEMMA OkGives ==
    ASSUME NEW c, CpOk(c), Settle(c, OkNext(c))
    PROVE  /\ cp'.rmac \in {c.rmac, 0} /\ HandsOver(c)
           /\ c.sc /\ cp'.sc => c.st = "ONLINE" /\ c.cmd # "KEYSET" /\ cp'.rmac = c.rmac
           /\ ~c.sc /\ cp'.sc => c.st = "SC_SCRYPT" /\ cp'.rmac = c.rmac
           /\ ~c.useD => ~cp'.useD /\ cp'.st # "SET_SCBK"
           /\ c.st = "ONLINE" /\ c.evreq => delivered' = Given(c.data)
  <1> DEFINE e == OkNext(c)
  <1>1. /\ DOMAIN c = CpFields /\ c.st \in States /\ c.sc \in BOOLEAN /\ Settle(c, e)
        /\ c.st \notin {"SET_SCBK", "ONLINE"} => ~c.sc
    BY DEF CpOk, CpFine
  <1>2. PICK on \in BOOLEAN : on <=> "ONLINE" \in {c.st, e.st}
    OBVIOUS
  <1>3. /\ DOMAIN e = CpFields /\ e.evreq = c.evreq /\ e.rmac = c.rmac
        /\ on => e.data = c.data
        /\ ~c.useD => ~e.useD /\ (e.st # "SET_SCBK" \/ c.st = "SET_SCBK")
        /\ c.st = "SET_SCBK" => e.st = "SC_CHLNG" /\ ~e.sc
        /\ c.st = "ONLINE" /\ c.cmd = "KEYSET" => ~e.sc
        /\ c.st = "SC_SCRYPT" => e.st \in {"SET_SCBK", "ONLINE"}
        /\ c.st \notin {"SC_SCRYPT", "SET_SCBK", "ONLINE"} => e.sc = c.sc
        /\ c.st = "ONLINE" => e.sc = c.sc \/ ~e.sc
        /\ c.st = "ONLINE" /\ e.st # "ONLINE" => ~e.sc
    BY <1>1, <1>2 DEF OkNext, KeysetComplete, CpFields, States
  <1> HIDE DEF e
  <1>4. /\ delivered' = IF on /\ e.evreq THEN Given(e.data) ELSE delivered
        /\ cp'.st = e.st /\ cp'.useD = e.useD /\ cp'.evreq = (e.evreq /\ ~on)
        /\ cp'.rmac = e.rmac \/ (cp'.rmac = 0 /\ e.st = "SC_CHLNG" /\ c.st # e.st)
        /\ cp'.sc = e.sc \/ (cp'.sc = FALSE /\ e.st = "OFFLINE")
    <2>1. Moves(c, e, on)
      BY <1>1, <1>2, <1>3, SettleMoves
    <2> QED  BY <2>1 DEF Moves
  <1>5. HandsOver(c)
    BY <1>2, <1>3, <1>4 DEF HandsOver
  <1>6. c.sc /\ cp'.sc => c.st = "ONLINE" /\ c.cmd # "KEYSET" /\ cp'.rmac = c.rmac
    BY <1>1, <1>3, <1>4
  <1>7. ~c.sc /\ cp'.sc => c.st = "SC_SCRYPT" /\ cp'.rmac = c.rmac
    BY <1>1, <1>3, <1>4
  <1>8. ~c.useD => ~cp'.useD /\ cp'.st # "SET_SCBK"
    BY <1>3, <1>4
  <1>9. c.st = "ONLINE" /\ c.evreq => delivered' = Given(c.data)
    BY <1>2, <1>3, <1>4
  <1> QED  BY <1>3, <1>4, <1>5, <1>6, <1>7, <1>8, <1>9

\* A panel that enforces the secure channel holds no event back, and never uses the default key.
NothingHeld(c) == ~c.evreq /\ ~c.useD /\ c.st # "SET_SCBK"

\* The reply p is taken for the answer to the command in hand, and the application hears so.
Heard(p) ==
    /\ cp.phy = "reply" /\ cp.st = "ONLINE" /\ cp.cmd \in PlainCmds /\ p.id # "NAK"
    /\ cp.sc => p.sec = "mac" /\ p.auth = CpMac(cp)
    /\ p.id = "LSTATR" => delivered' = Given(p.data)
    /\ told' = told \cup {cp.data.val}

\* What the panel makes of the reply p.
Hears(p) ==
    /\ told' = told \/ Heard(p)
    /\ cp'.rmac \in {cp.rmac, NextMac(cp.rmac), 0}
    /\ cp.sc /\ cp'.sc => cp'.rmac = NextMac(cp.rmac)
    /\ ~cp.sc /\ cp'.sc => cp.st = "SC_SCRYPT" /\ cp'.rmac = 0
    /\ Enforce /\ NothingHeld(cp) =>
         /\ NothingHeld(cp')
         /\ \/ delivered' = delivered
            \/ p.id \in {"RAW", "LSTATR"} /\ delivered' = Given(p.data)

LEMMA PanelHears ==
    ASSUME CpOk(cp), CpReceive, NEW p, p = Head(toCp), WellReplied(p)
    PROVE  Hears(p)
  <1> DEFINE c == [cp EXCEPT !.rb = RxRb(toCp)]
  <1>1. /\ cp.phy = "reply"
        /\ IF p = Garbled \/ p.addr # c.addr THEN CpError(c)
           ELSE IF ~Accepts(c, p) THEN CpError(Bad(c, p))
           ELSE IF HandshakeError(c, p) THEN CpError(c)
           ELSE CpDone(Decoded(c, p), p.id)
    BY DEF CpReceive
  <1>2. /\ DOMAIN c = CpFields /\ c.st = cp.st /\ c.sc = cp.sc /\ c.cmd = cp.cmd
        /\ c.evreq = cp.evreq /\ c.useD = cp.useD /\ c.rmac = cp.rmac /\ CpMac(c) = CpMac(cp)
        /\ CpOk(c)
    BY DEF CpOk, CpFine, CpFields, CpMac, CpCrypt, CpSessionKey
  <1> HIDE DEF c
  <1>3. ASSUME NEW e, CpError(e), CpFine(e), e.st = c.st, e.evreq = c.evreq, e.useD = c.useD,
               e.rmac = c.rmac
        PROVE  Hears(p)
    <2>1. /\ told' = told /\ ~cp'.sc /\ cp'.rmac \in {e.rmac, 0} /\ HandsOver(e)
          /\ Enforce => cp'.useD = e.useD /\ cp'.st # "SET_SCBK"
      BY <1>3, ErrGives
    <2>2. Enforce /\ NothingHeld(cp) => NothingHeld(cp') /\ delivered' = delivered
      BY <1>2, <1>3, <2>1 DEF NothingHeld, HandsOver
    <2> QED  BY <1>2, <1>3, <2>1, <2>2 DEF Hears
  <1>4. CASE CpError(c)
    BY <1>2, <1>3, <1>4 DEF CpOk
  <1>5. CASE CpError(Bad(c, p))
    <2> DEFINE e == Bad(c, p)
    <2>1. CpFine(e) /\ e.st = c.st /\ e.evreq = c.evreq /\ e.useD = c.useD /\ e.rmac = c.rmac
      BY <1>2 DEF Bad, CpOk, CpFine, CpFields
    <2> HIDE DEF e
    <2> QED  BY <1>3, <1>5, <2>1 DEF e
  <1>6. CASE Accepts(c, p) /\ ~HandshakeError(c, p) /\ CpDone(Decoded(c, p), p.id)
    <2> DEFINE m == Decoded(c, p)
               e == [m EXCEPT !.retry = 0]
    <2>1. /\ DOMAIN m = CpFields /\ m.st = c.st /\ m.sc = c.sc /\ m.cmd = c.cmd /\ m.useD = c.useD
          /\ IF p.id \in {"RAW", "LSTATR"} THEN m.evreq = TRUE /\ m.data = p.data
             ELSE m.evreq = c.evreq
          /\ m.rmac = IF p.id = "RMAC_I" THEN 0
                      ELSE IF p.sec = "mac" THEN NextMac(c.rmac) ELSE c.rmac
      BY <1>2 DEF Decoded, TakeEvent, CpFields
    <2>2. IF Expected(e, p.id) THEN Settle(e, OkNext(e)) /\ Notify(e) ELSE CpError(e)
      BY <1>6 DEF CpDone
    <2> HIDE DEF m
    <2>3. /\ DOMAIN e = CpFields /\ e.st = c.st /\ e.sc = c.sc /\ e.cmd = c.cmd /\ e.useD = c.useD
          /\ e.evreq = m.evreq /\ e.data = m.data /\ e.rmac = m.rmac
      BY <2>1 DEF CpFields
    <2> HIDE DEF e
    <2>4. CpOk(e)
      BY <1>2, <2>3 DEF CpOk, CpFine
    <2>5. e.rmac \in {cp.rmac, NextMac(cp.rmac), 0}
      BY <1>2, <2>1, <2>3
    <2>6. c.sc => \/ p.sec = "mac" /\ p.auth = CpMac(cp) /\ p.id # "RMAC_I"
                  \/ p.sec = "none" /\ (p.id = "NAK" \/ (c.cmd = "KEYSET" /\ p.id = "ACK"))
      BY <1>2, <1>6 DEF Accepts, HandshakeError, WellReplied
    <2>7. p.id \in {"RAW", "LSTATR"} /\ Enforce => c.sc
      BY <1>6 DEF WellReplied, Accepts
    <2>8. CASE CpError(e)
      <3>1. /\ told' = told /\ ~cp'.sc /\ cp'.rmac \in {e.rmac, 0} /\ HandsOver(e)
            /\ Enforce => cp'.useD = e.useD /\ cp'.st # "SET_SCBK"
        BY <2>4, <2>8, ErrGives DEF CpOk
      <3>2. ASSUME Enforce, NothingHeld(cp)
            PROVE  /\ NothingHeld(cp')
                   /\ \/ delivered' = delivered
                      \/ p.id \in {"RAW", "LSTATR"} /\ delivered' = Given(p.data)
        <4>1. CASE p.id \notin {"RAW", "LSTATR"}
          BY <1>2, <2>1, <2>3, <3>1, <3>2, <4>1 DEF NothingHeld, HandsOver
        <4>2. CASE p.id \in {"RAW", "LSTATR"}
          <5>1. c.st = "ONLINE"
            BY <1>2, <2>7, <3>2, <4>2 DEF NothingHeld, CpOk, CpFine
          <5> QED  BY <1>2, <2>1, <2>3, <3>1, <3>2, <4>2, <5>1 DEF NothingHeld, HandsOver
        <4> QED  BY <4>1, <4>2
      <3> QED  BY <2>5, <3>1, <3>2 DEF Hears
    <2>9. CASE Expected(e, p.id) /\ Settle(e, OkNext(e)) /\ Notify(e)
      <3>1. /\ cp'.rmac \in {e.rmac, 0} /\ HandsOver(e)
            /\ e.sc /\ cp'.sc => e.st = "ONLINE" /\ e.cmd # "KEYSET" /\ cp'.rmac = e.rmac
            /\ ~e.sc /\ cp'.sc => e.st = "SC_SCRYPT" /\ cp'.rmac = e.rmac
            /\ ~e.useD => ~cp'.useD /\ cp'.st # "SET_SCBK"
            /\ e.st = "ONLINE" /\ e.evreq => delivered' = Given(e.data)
        BY <2>4, <2>9, OkGives
      <3>2. ASSUME Enforce, NothingHeld(cp)
            PROVE  /\ NothingHeld(cp')
                   /\ \/ delivered' = delivered
                      \/ p.id \in {"RAW", "LSTATR"} /\ delivered' = Given(p.data)
        <4>1. CASE p.id \notin {"RAW", "LSTATR"}
          BY <1>2, <2>1, <2>3, <3>1, <3>2, <4>1 DEF NothingHeld, HandsOver
        <4>2. CASE p.id \in {"RAW", "LSTATR"}
          <5>1. c.st = "ONLINE"
            BY <1>2, <2>7, <3>2, <4>2 DEF NothingHeld, CpOk, CpFine
          <5> QED  BY <1>2, <2>1, <2>3, <3>1, <3>2, <4>2, <5>1 DEF NothingHeld, HandsOver
        <4> QED  BY <4>1, <4>2
      <3>3. c.st = "SC_SCRYPT" => p.id = "RMAC_I"
        BY <2>3, <2>9 DEF Expected
      <3>4. c.st = "ONLINE" => p.id \in {"ACK", "RAW", "LSTATR", "COM"}
        BY <2>3, <2>9 DEF Expected
      <3>5. cp.sc /\ cp'.sc => cp'.rmac = NextMac(cp.rmac)
        BY <1>2, <2>1, <2>3, <2>6, <3>1, <3>4
      <3>6. ~cp.sc /\ cp'.sc => cp.st = "SC_SCRYPT" /\ cp'.rmac = 0
        BY <1>2, <2>1, <2>3, <3>1, <3>3
      <3>7. told' = told \/ Heard(p)
        <4>1. CASE e.st = "ONLINE" /\ e.cmd \in PlainCmds
          <5>1. told' = told \cup {cp.data.val}
            BY <2>9, <4>1 DEF Notify
          <5>2. p.id = "LSTATR" => delivered' = Given(p.data)
            BY <2>1, <2>3, <3>1, <4>1
          <5>3. p.id # "NAK" /\ cp.cmd # "KEYSET"
            BY <1>2, <2>3, <3>4, <4>1 DEF PlainCmds
          <5> QED  BY <1>1, <1>2, <2>3, <2>6, <4>1, <5>1, <5>2, <5>3 DEF Heard
        <4>2. CASE ~(e.st = "ONLINE" /\ e.cmd \in PlainCmds)
          BY <2>9, <4>2 DEF Notify
        <4> QED  BY <4>1, <4>2
      <3> QED  BY <2>5, <3>1, <3>2, <3>5, <3>6, <3>7 DEF Hears
    <2> QED  BY <2>2, <2>8, <2>9
  <1> QED  BY <1>1, <1>4, <1>5, <1>6

-----------------------------------------------------------------------------

\* The command in hand is one that was submitted, and of its kind.
TakenAs(c) == c.data.val \in 1..Len(cmds) /\ c.cmd = cmds[c.data.val]

LEMMA PanelPhases ==
    ASSUME CpOk(cp), Commands, CpSetup \/ CpOnline \/ CpResend
    PROVE  /\ cp'.useD = cp.useD /\ cp.phy \in {"idle", "wait"}
           /\ cp'.phy = "reply" \/ (cp'.phy = "idle" /\ UNCHANGED <<toPd, toCp>>)
           /\ cp.phy # "idle" => cp'.phy = "reply" /\ cp'.cmd = cp.cmd /\ cp'.data = cp.data
           /\ Holds(cp') /\ cp.phy = "idle" => cp.st = "ONLINE" /\ TakenAs(cp')
  <1>1. DOMAIN cp = CpFields /\ cp.st \in States
    BY DEF CpOk, CpFine
  <1>2. ASSUME NEW c, DOMAIN c = CpFields, CpTransmit(c)
        PROVE  cp'.useD = c.useD /\ cp'.phy = "reply" /\ cp'.cmd = c.cmd /\ cp'.data = c.data
    BY <1>2 DEF CpTransmit, CpFields
  <1>3. CASE CpSetup
    <2> DEFINE c == [cp EXCEPT !.cmd = HandshakeCmd(cp.st)]
    <2>1. CpTransmit(c) /\ cp.phy = "idle" /\ cp.st \notin {"ONLINE", "OFFLINE"}
      BY <1>3 DEF CpSetup
    <2>2. DOMAIN c = CpFields /\ c.useD = cp.useD /\ c.cmd = HandshakeCmd(cp.st)
      BY <1>1 DEF CpFields
    <2> HIDE DEF c
    <2>3. c.cmd \notin PlainCmds
      BY <1>1, <2>1, <2>2 DEF HandshakeCmd, States, PlainCmds
    <2> QED  BY <1>2, <2>1, <2>2, <2>3 DEF Holds
  <1>4. CASE CpOnline
    <2>1. cp.phy = "idle" /\ cp.st = "ONLINE"
      BY <1>4 DEF CpOnline
    <2>2. CASE cpq = <<>>
      <3> DEFINE c == [cp EXCEPT !.cmd = "POLL"]
      <3>1. CpTransmit(c)
        BY <1>4, <2>2 DEF CpOnline
      <3>2. DOMAIN c = CpFields /\ c.useD = cp.useD /\ c.cmd = "POLL"
        BY <1>1 DEF CpFields
      <3> HIDE DEF c
      <3> QED  BY <1>2, <2>1, <3>1, <3>2 DEF Holds, PlainCmds
    <2>3. CASE cpq # <<>>
      <3> DEFINE h == [cp EXCEPT !.data = Head(cpq)]
      <3>1. IF h.data.kind = "cmd" THEN CpTransmit([h EXCEPT !.cmd = cmds[h.data.val]])
            ELSE IF h.sc THEN CpTransmit([h EXCEPT !.cmd = "KEYSET"])
            ELSE cp' = h /\ UNCHANGED <<toPd, toCp, used>>
        BY <1>4, <2>3 DEF CpOnline
      <3>2. /\ DOMAIN h = CpFields /\ h.data = Head(cpq) /\ h.useD = cp.useD /\ h.phy = cp.phy
        BY <1>1 DEF CpFields
      <3> HIDE DEF h
      <3>3. h.data.kind = "cmd" => h.data.val \in 1..Len(cmds)
        <4>1. 1 \in 1..Len(cpq) /\ Head(cpq) = cpq[1]
          BY <2>3, TailOf DEF Commands
        <4> QED  BY <3>2, <4>1 DEF Commands
      <3>4. CASE h.data.kind = "cmd"
        <4> DEFINE c == [h EXCEPT !.cmd = cmds[h.data.val]]
        <4>1. CpTransmit(c)
          BY <3>1, <3>4
        <4>2. DOMAIN c = CpFields /\ c.data = h.data /\ c.useD = h.useD /\ c.cmd = cmds[h.data.val]
          BY <3>2 DEF CpFields
        <4> HIDE DEF c
        <4>3. /\ cp'.useD = c.useD /\ cp'.phy = "reply" /\ cp'.cmd = c.cmd /\ cp'.data = c.data
          BY <1>2, <4>1, <4>2
        <4> QED  BY <2>1, <3>2, <3>3, <3>4, <4>2, <4>3 DEF TakenAs
      <3>5. CASE h.data.kind # "cmd" /\ h.sc
        <4> DEFINE c == [h EXCEPT !.cmd = "KEYSET"]
        <4>1. CpTransmit(c)
          BY <3>1, <3>5
        <4>2. DOMAIN c = CpFields /\ c.useD = h.useD /\ c.cmd = "KEYSET"
          BY <3>2 DEF CpFields
        <4> HIDE DEF c
        <4> QED  BY <1>2, <2>1, <3>2, <4>1, <4>2 DEF Holds, PlainCmds
      <3>6. CASE h.data.kind # "cmd" /\ ~h.sc
        BY <2>1, <3>1, <3>2, <3>6 DEF Holds
      <3> QED  BY <3>4, <3>5, <3>6
    <2> QED  BY <2>2, <2>3
  <1>5. CASE CpResend
    <2>1. cp.phy = "wait" /\ CpTransmit(cp)
      BY <1>5 DEF CpResend
    <2> QED  BY <1>1, <1>2, <2>1
  <1> QED  BY <1>3, <1>4, <1>5

\* The panel's packet is of its session, at the place it has come to.
LEMMA PacketPlace ==
    ASSUME NEW c, CpOk(c), c.cmd \in CmdIds, NEW p, p = CpPacket(c)
    PROVE  /\ WellMade(p) /\ p.id = c.cmd
           /\ c.cmd \in PlainCmds => p.data = c.data
           /\ p.sec = "mac" => c.sc /\ p.auth[2] = c.cpr /\ p.auth[4] = c.rmac
  <1> DEFINE Pkt(sec, auth, dflt) == Packet(c.addr, c.cmd, c.seq, sec, auth, dflt, CmdPayload(c))
  <1>1. /\ c.sc => p = Pkt("mac", CpMac(c), FALSE)
        /\ ~c.sc /\ c.cmd = "CHLNG" => p = Pkt("hs", <<NoKey, c.cpr, 0>>, c.useD)
        /\ ~c.sc /\ c.cmd = "SCRYPT" => p = Pkt("hs", CpCrypt(c), c.useD)
        /\ ~c.sc /\ c.cmd \notin Starts => p = Pkt("none", <<>>, FALSE)
    BY DEF CpPacket, Starts
  <1>2. /\ c.sc => p.sec = "mac" /\ p.auth = CpMac(c)
        /\ ~c.sc => p.sec \in {"hs", "none"} /\ (p.sec = "hs" => c.cmd \in Starts)
        /\ p.id = c.cmd /\ p.data = CmdPayload(c)
    BY <1>1 DEF Packet, Starts
  <1>3. c.sc => p.auth # <<>> /\ p.auth[2] = c.cpr /\ p.auth[4] = c.rmac
    BY <1>2, MacParts DEF CpMac, CpCrypt
  <1>4. c.cmd \in PlainCmds => p.data = c.data
    BY <1>2 DEF CmdPayload
  <1>5. c.sc \in BOOLEAN
    BY DEF CpOk, CpFine
  <1> QED  BY <1>2, <1>3, <1>4, <1>5 DEF WellMade

-----------------------------------------------------------------------------
\* The steps of the panel without a packet: what it is waiting for stays as it was, or it is
\* out of the session.
LEMMA PanelLeaves ==
    ASSUME CpOk(cp), CpTimeout \/ CpRetryOnline \/ CpRetrySc
    PROVE  /\ told' = told /\ UNCHANGED <<toPd, toCp, pdSide, submitted>>
           /\ Enforce /\ NothingHeld(cp) => NothingHeld(cp') /\ delivered' = delivered
           /\ \/ ~cp'.sc /\ cp'.rmac \in {cp.rmac, 0}
              \/ /\ cp.phy = "reply" /\ cp'.phy # "idle"
                 /\ cp'.sc = cp.sc /\ cp'.rmac = cp.rmac /\ cp'.cpr = cp.cpr /\ cp'.st = cp.st
  <1>1. DOMAIN cp = CpFields /\ cp.st \in States
    BY DEF CpOk, CpFine
  <1>2. CASE CpTimeout
    <2>1. UNCHANGED <<toPd, toCp, pdSide, submitted>> /\ cp.phy = "reply"
      BY <1>2 DEF CpTimeout
    <2>2. CASE CpError(cp)
      <3>1. /\ told' = told /\ ~cp'.sc /\ cp'.rmac \in {cp.rmac, 0} /\ HandsOver(cp)
            /\ Enforce => cp'.useD = cp.useD /\ cp'.st # "SET_SCBK"
        BY <2>2, ErrGives DEF CpOk
      <3> QED  BY <2>1, <3>1 DEF NothingHeld, HandsOver
    <2>3. CASE /\ cp' = [cp EXCEPT !.phy = "wait", !.retry = @ + 1]
               /\ UNCHANGED <<delivered, told>>
      <3>1. /\ cp'.phy = "wait" /\ cp'.sc = cp.sc /\ cp'.rmac = cp.rmac /\ cp'.cpr = cp.cpr
            /\ cp'.st = cp.st /\ cp'.evreq = cp.evreq /\ cp'.useD = cp.useD
        BY <1>1, <2>3 DEF CpFields
      <3> QED  BY <2>1, <2>3, <3>1 DEF NothingHeld
    <2> QED  BY <1>2, <2>2, <2>3 DEF CpTimeout
  <1>3. CASE CpRetryOnline
    <2>1. /\ UNCHANGED <<delivered, told, toPd, toCp, pdSide, submitted>> /\ cp.st = "OFFLINE"
          /\ cp' = [cp EXCEPT !.st = "INIT", !.seq = -1, !.retry = 0]
      BY <1>3 DEF CpRetryOnline
    <2>2. /\ cp'.st = "INIT" /\ cp'.sc = cp.sc /\ cp'.rmac = cp.rmac
          /\ cp'.evreq = cp.evreq /\ cp'.useD = cp.useD
      BY <1>1, <2>1 DEF CpFields
    <2> QED  BY <2>1, <2>2 DEF NothingHeld, CpOk, CpFine
  <1>4. CASE CpRetrySc
    <2> DEFINE e == [cp EXCEPT !.st = "SC_CHLNG"]
    <2>1. UNCHANGED <<told, toPd, toCp, pdSide, submitted>> /\ ~cp.sc /\ Settle(cp, e)
      BY <1>4 DEF CpRetrySc
    <2>2. PICK on \in BOOLEAN : on <=> "ONLINE" \in {cp.st, e.st}
      OBVIOUS
    <2>3. /\ DOMAIN e = CpFields /\ e.st = "SC_CHLNG" /\ e.evreq = cp.evreq /\ e.useD = cp.useD
          /\ e.rmac = cp.rmac /\ e.sc = cp.sc
      BY <1>1 DEF CpFields
    <2> HIDE DEF e
    <2>4. /\ delivered' = IF on /\ e.evreq THEN Given(e.data) ELSE delivered
          /\ cp'.st = e.st /\ cp'.useD = e.useD /\ cp'.evreq = (e.evreq /\ ~on)
          /\ cp'.rmac = e.rmac \/ cp'.rmac = 0
          /\ cp'.sc = e.sc \/ cp'.sc = FALSE
      <3>1. Moves(cp, e, on)
        BY <2>1, <2>2, <2>3, SettleMoves
      <3> QED  BY <3>1 DEF Moves
    <2> QED  BY <2>1, <2>3, <2>4 DEF NothingHeld
  <1> QED  BY <1>2, <1>3, <1>4

-----------------------------------------------------------------------------

\* What either end can find on the line.
LineInv ==
    /\ Shapes /\ IsSeq(executed)
    /\ \A p \in Range(toPd) : WellMade(p)
    /\ \A r \in Range(toCp) : WellReplied(r)
    /\ Enforce => NothingHeld(cp)

LEMMA Noise == WellMade(Garbled) /\ WellReplied(Garbled) /\ Garbled.sec = "none" /\ Garbled.id = "garbled"
  BY DEF WellMade, WellReplied, Garbled, Packet

LEMMA LineKept ==
    ASSUME LineInv, [Next]_vars
    PROVE  LineInv'
  <1>1. /\ Shapes' /\ IsSeq(toPd) /\ IsSeq(toCp) /\ CpOk(cp) /\ Ready /\ IsSeq(executed)
        /\ cp.rb \in 0..Len(toCp)
    BY ShapesKept DEF LineInv, Shapes, Frame, Ready
  <1>2. CASE CpSetup \/ CpOnline \/ CpResend
    <2>1. /\ Kept(cp, cp') /\ cp'.cmd \in CmdIds /\ (toCp' = toCp \/ toCp' = SubSeq(toCp, 1, cp.rb))
          /\ toPd' \in {toPd, Append(toPd, Garbled), Append(toPd, CpPacket(cp'))}
      BY <1>1, <1>2, PanelTransmits
    <2>2. CpOk(cp') /\ cp'.useD = cp.useD /\ cp'.evreq = cp.evreq /\ cp'.st = cp.st
          /\ executed' = executed
      BY <1>1, <1>2, <2>1, PanelPhases, PanelTakes, KeptFine DEF Kept, Ready, pdSide
    <2>3. WellMade(CpPacket(cp'))
      BY <2>1, <2>2, PacketPlace
    <2>4. \A p \in Range(toPd') : WellMade(p)
      <3>1. PICK p : p = CpPacket(cp')
        OBVIOUS
      <3>2. toPd' = toPd \/ toPd' = Append(toPd, Garbled) \/ toPd' = Append(toPd, p)
        BY <2>1, <3>1
      <3>3. toPd' = Append(toPd, Garbled) => Range(toPd') = Range(toPd) \cup {Garbled}
        BY <1>1, OneMore
      <3>4. toPd' = Append(toPd, p) => Range(toPd') = Range(toPd) \cup {p}
        BY <1>1, OneMore
      <3> QED  BY <2>3, <3>1, <3>2, <3>3, <3>4, Noise DEF LineInv
    <2>5. \A r \in Range(toCp') : WellReplied(r)
      BY <1>1, <2>1, FirstOnes DEF LineInv
    <2> QED  BY <1>1, <2>2, <2>4, <2>5 DEF LineInv, NothingHeld
  <1>3. CASE CpReceive
    <2>1. toCp # <<>> /\ toCp' = Tail(toCp) /\ UNCHANGED <<toPd, executed>>
      BY <1>3 DEF CpReceive, pdSide
    <2>2. Range(toCp') \subseteq Range(toCp) /\ Head(toCp) \in Range(toCp)
      BY <1>1, <2>1, OneLess
    <2>3. PICK p : p = Head(toCp) /\ WellReplied(p)
      BY <2>2 DEF LineInv
    <2>4. Enforce => NothingHeld(cp')
      BY <1>1, <1>3, <2>3, PanelHears DEF Hears, LineInv
    <2> QED  BY <1>1, <2>1, <2>2, <2>4 DEF LineInv
  <1>4. CASE CpTimeout \/ CpRetryOnline \/ CpRetrySc
    BY <1>1, <1>4, PanelLeaves DEF LineInv, pdSide
  <1>5. CASE PdReceive
    <2>1. toPd # <<>> /\ toPd' = Tail(toPd)
      BY <1>5 DEF PdReceive
    <2>2. Range(toPd') \subseteq Range(toPd) /\ WellMade(Head(toPd))
      BY <1>1, <2>1, OneLess DEF LineInv
    <2>3. UNCHANGED cpSide /\ Replies(Head(toPd))
      BY <1>5, <2>2, RepliesRightly DEF LineInv
    <2>4. PICK r : toCp' \in {toCp, Append(toCp, r)} /\ WellReplied(r)
      <3>1. CASE toCp' \in {toCp, Append(toCp, Garbled)}
        BY <3>1, Noise
      <3>2. CASE \E r : toCp' = Append(toCp, r) /\ Replied(Head(toPd), r, executed')
        BY <3>2 DEF Replied
      <3> QED  BY <2>3, <3>1, <3>2 DEF Replies
    <2>5. \A x \in Range(toCp') : WellReplied(x)
      BY <1>1, <2>4, OneMore DEF LineInv
    <2>6. IsSeq(executed')
      BY <1>1, <2>3, OneMore DEF Replies
    <2> QED  BY <1>1, <2>2, <2>3, <2>5, <2>6 DEF LineInv, cpSide
  <1>6. CASE PdReset
    <2>1. UNCHANGED <<cp, executed, toCp>> /\ toPd' = <<>>
      BY <1>6 DEF PdReset, cpSide
    <2>2. Range(toPd') = {}
      BY <2>1 DEF Range
    <2> QED  BY <1>1, <2>1, <2>2 DEF LineInv
  <1>7. CASE \/ PdSubmit \/ PdScTimeout \/ UNCHANGED vars
             \/ \E kind \in PlainCmds : CpSubmit(kind)
             \/ \E k \in NewKeys : CpSubmitKeyset(k)
    <2>1. UNCHANGED <<cp, executed, toCp, toPd>>
      BY <1>7 DEF PdSubmit, PdScTimeout, CpSubmit, CpSubmitKeyset, vars, cpSide, pdSide
    <2> QED  BY <1>1, <2>1 DEF LineInv
  <1> QED  BY <1>2, <1>3, <1>4, <1>5, <1>6, <1>7, StepsOfNext DEF NotThePanel

LEMMA LineInit == Init => LineInv
  <1> SUFFICES ASSUME Init PROVE LineInv
    OBVIOUS
  <1>1. cp = CpBoot /\ toPd = <<>> /\ toCp = <<>> /\ executed = <<>>
    BY DEF Init
  <1>2. Shapes
    BY SessionInit DEF SessionInv
  <1>3. Range(toPd) = {} /\ Range(toCp) = {}
    BY <1>1 DEF Range
  <1>4. IsSeq(executed)
    <2>1. <<>> \in Seq({})
      OBVIOUS
    <2> QED  BY <1>1, <2>1 DEF IsSeq
  <1>5. NothingHeld(cp)
    BY <1>1 DEF NothingHeld, CpBoot
  <1> QED  BY <1>2, <1>3, <1>4, <1>5 DEF LineInv

-----------------------------------------------------------------------------
(* The panel's reads are a read feed                                       *)

\* A read on the line is one that was made, and later than all that were given.
LEMMA NewRead ==
    ASSUME ReadsInv, toCp # <<>>, NEW p, p = Head(toCp), p.id \in {"RAW", "LSTATR"},
           p.id = "LSTATR" => p.data.kind = "status",
           NEW given, given = Given(p.data), NEW e \in Nat, e = events
    PROVE  \/ given.reads = delivered.reads
           \/ \E v \in 1..e : /\ \A i \in DOMAIN delivered.reads : delivered.reads[i] < v
                              /\ given.reads = Append(delivered.reads, v)
  <1>1. PICK m, n, k \in Nat : m <= n /\ n <= k /\ PanelReads(m, n) /\ ReaderReads(n, k)
    BY DEF ReadsInv
  <1>2. DOMAIN delivered = {"reads", "reports"}
    BY <1>1 DEF PanelReads
  <1>3. CASE p.data.kind = "status"
    BY <1>2, <1>3 DEF Given
  <1>4. CASE p.data.kind # "status"
    <2>1. IsSeq(toCp) /\ LineUpTo(toCp, n, k)
      BY <1>1 DEF ReadsInv, Frame, ReaderReads
    <2>2. p.id = "RAW" /\ p.data.kind = "event" /\ p.data.val \in (n + 1)..k
      BY <1>1, <1>4, <2>1, LineRead
    <2> DEFINE v == p.data.val
    <2>3. given.reads = Append(delivered.reads, v)
      BY <1>2, <2>2 DEF Given
    <2>4. v \in (n + 1)..k
      BY <2>2
    <2>5. k <= e /\ GivenUpTo(delivered.reads, m)
      BY <1>1 DEF ReaderReads, PanelReads
    <2> HIDE DEF v
    <2>6. v \in 1..e /\ m < v
      BY <1>1, <2>4, <2>5
    <2>7. ASSUME NEW i \in DOMAIN delivered.reads
          PROVE  delivered.reads[i] < v
      <3>1. i \in 1..Len(delivered.reads) /\ delivered.reads[i] \in Nat
        <4>1. delivered.reads \in Seq(Nat)
          BY <2>5 DEF GivenUpTo
        <4> QED  BY ONLY <4>1, i \in DOMAIN delivered.reads
      <3>2. delivered.reads[i] # 0 => delivered.reads[i] <= m
        BY <2>5, <3>1 DEF GivenUpTo
      <3> QED  BY ONLY <1>1, <2>6, <3>1, <3>2, e \in Nat
    <2> QED  BY <2>3, <2>6, <2>7
  <1> QED  BY <1>3, <1>4

LEMMA FeedStep ==
    ASSUME Enforce, ReadsInv, LineInv, [Next]_vars
    PROVE  [Feed!Next]_(Feed!vars)
  <1>1. CpOk(cp) /\ Ready /\ IsSeq(toCp) /\ NothingHeld(cp)
    BY DEF LineInv, Shapes, Frame, Ready
  <1>2. ASSUME UNCHANGED <<events, delivered>>
        PROVE  [Feed!Next]_(Feed!vars)
    BY <1>2 DEF Feed!vars
  <1>3. CASE CpReceive
    <2>1. toCp # <<>> /\ events' = events
      BY <1>3 DEF CpReceive, submitted
    <2>2. PICK p : p = Head(toCp) /\ WellReplied(p)
      BY <1>1, <2>1, OneLess DEF LineInv
    <2>3. \/ delivered' = delivered
          \/ p.id \in {"RAW", "LSTATR"} /\ delivered' = Given(p.data)
      BY <1>1, <1>3, <2>2, PanelHears DEF Hears
    <2>4. CASE delivered' = delivered
      BY <1>2, <2>1, <2>4
    <2>5. CASE p.id \in {"RAW", "LSTATR"} /\ delivered' = Given(p.data)
      <3>1. events \in Nat
        BY DEF ReadsInv, ReaderReads
      <3>2. \/ delivered'.reads = delivered.reads
            \/ \E v \in 1..events :
                  /\ \A i \in DOMAIN delivered.reads : delivered.reads[i] < v
                  /\ delivered'.reads = Append(delivered.reads, v)
        BY <2>1, <2>2, <2>5, <3>1, NewRead DEF WellReplied
      <3> QED  BY <2>1, <3>2 DEF Feed!Next, Feed!Submit, Feed!vars
    <2> QED  BY <2>3, <2>4, <2>5
  <1>4. CASE CpTimeout \/ CpRetryOnline \/ CpRetrySc
    BY <1>1, <1>2, <1>4, PanelLeaves DEF submitted
  <1>5. CASE CpSetup \/ CpOnline \/ CpResend
    BY <1>1, <1>2, <1>5, PanelTakes DEF submitted
  <1>6. CASE PdSubmit
    <2>1. events' = events + 1 /\ delivered' = delivered
      BY <1>6 DEF PdSubmit, cpSide
    <2> QED  BY <2>1 DEF Feed!Next, Feed!Read
  <1>7. CASE \/ PdReceive \/ PdReset \/ PdScTimeout \/ UNCHANGED vars
             \/ \E kind \in PlainCmds : CpSubmit(kind)
             \/ \E k \in NewKeys : CpSubmitKeyset(k)
    <2>1. UNCHANGED <<events, delivered>>
      BY <1>7 DEF PdReceive, PdReset, PdScTimeout, CpSubmit, CpSubmitKeyset, vars, cpSide, submitted
    <2> QED  BY <1>2, <2>1
  <1> QED  BY <1>3, <1>4, <1>5, <1>6, <1>7, StepsOfNext DEF NotThePanel

\* A panel that enforces the secure channel hands the card reads over as they were made: in
\* order, each at most once, and nothing else that its application would take for a read
\* (pd_event_dequeue, cp_decode_response, state_update, do_event_callback).
THEOREM FeedRefined ==
    ASSUME Enforce
    PROVE  Spec => EventsInOrder
  <1>1. Init => ReadsInv /\ LineInv /\ Feed!Init
    <2>1. Init => Feed!Init
      BY DEF Init, Feed!Init
    <2> QED  BY <2>1, ReadsInit, LineInit
  <1>2. (ReadsInv /\ LineInv) /\ [Next]_vars => (ReadsInv /\ LineInv)'
    BY ReadsKept, LineKept
  <1>3. (ReadsInv /\ LineInv) /\ [Next]_vars => [Feed!Next]_(Feed!vars)
    BY FeedStep
  <1>4. Spec => []([Feed!Next]_(Feed!vars))
    BY <1>1, <1>2, <1>3, PTL DEF Spec
  <1>5. Spec => Feed!Init
    BY <1>1, PTL DEF Spec
  <1>6. Feed!Spec <=> Feed!Init /\ [][Feed!Next]_(Feed!vars)
    BY DEF Feed!Spec
  <1> QED  BY <1>4, <1>5, <1>6, PTL DEF EventsInOrder

-----------------------------------------------------------------------------
(* In a secure session a reply is to the command at its place              *)

\* Of the packets on the lines, those of the session in hand are of places the panel has come
\* to; at the place it is at are copies of the command in hand, and right replies to it.
NoneOf(line, n) == \A x \in Range(line) : ~OfSession(x, n)
UpToPlace(line, c) ==
    \A x \in Range(line) : OfSession(x, c.cpr) =>
        /\ x.auth[4] \in Nat /\ x.auth[4] <= c.rmac
        /\ c.phy = "idle" => x.auth[4] # c.rmac
Copies(out, c) ==
    \A p \in Range(out) : AtPlace(p, c.cpr, c.rmac) =>
        p.id = c.cmd /\ (c.cmd \in PlainCmds => p.data = c.data)
RightReplies(in, c, ex) ==
    \A r \in Range(in) : AtPlace(r, c.cpr, c.rmac) => RightReply(c, r, ex)

Placed(out, in, c, ex) ==
    /\ c.rmac \in Nat
    /\ c.st \in {"SC_CHLNG", "SC_SCRYPT"} => NoneOf(out, c.cpr) /\ NoneOf(in, c.cpr)
    /\ c.sc => UpToPlace(out, c) /\ UpToPlace(in, c)
    /\ c.sc /\ c.phy # "idle" => Copies(out, c) /\ RightReplies(in, c, ex)

PlaceInv == LineInv /\ Placed(toPd, toCp, cp, executed)

LEMMA RightStill ==
    ASSUME NEW ex, IsSeq(ex), NEW ex2, ex2 = ex \/ \E x : ex2 = Append(ex, x), NEW id, NEW v, NEW r,
           RightFor(id, v, r, ex)
    PROVE  RightFor(id, v, r, ex2)
  <1>1. Range(ex) \subseteq Range(ex2)
    BY OneMore
  <1> QED  BY <1>1 DEF RightFor, CarriedOut

LEMMA PlaceTransmits ==
    ASSUME PlaceInv, CpSetup \/ CpOnline \/ CpResend
    PROVE  Placed(toPd', toCp', cp', executed')
  <1>1. /\ IsSeq(toPd) /\ IsSeq(toCp) /\ CpOk(cp) /\ Ready /\ cp.rb \in 0..Len(toCp)
        /\ cp.rmac \in Nat
    BY DEF PlaceInv, LineInv, Shapes, Frame, Ready, Placed
  <1>2. /\ Kept(cp, cp') /\ cp'.cmd \in CmdIds /\ (toCp' = toCp \/ toCp' = SubSeq(toCp, 1, cp.rb))
        /\ toPd' \in {toPd, Append(toPd, Garbled), Append(toPd, CpPacket(cp'))}
    BY <1>1, PanelTransmits
  <1>3. /\ cp.phy \in {"idle", "wait"}
        /\ cp'.phy = "reply" \/ (cp'.phy = "idle" /\ UNCHANGED <<toPd, toCp>>)
        /\ cp.phy # "idle" => cp'.phy = "reply" /\ cp'.cmd = cp.cmd /\ cp'.data = cp.data
    BY <1>1, PanelPhases DEF Ready
  <1>4. executed' = executed
    BY <1>1, PanelTakes DEF pdSide
  <1>5. PICK p : p = CpPacket(cp')
    OBVIOUS
  <1>6. /\ CpOk(cp') /\ cp'.st = cp.st /\ cp'.sc = cp.sc /\ cp'.cpr = cp.cpr /\ cp'.rmac = cp.rmac
    BY <1>1, <1>2, KeptFine DEF Kept
  <1>7. /\ p.id = cp'.cmd /\ (cp'.cmd \in PlainCmds => p.data = cp'.data)
        /\ p.sec = "mac" => cp'.sc /\ p.auth[2] = cp'.cpr /\ p.auth[4] = cp'.rmac
    BY <1>2, <1>5, <1>6, PacketPlace
  <1>8. /\ \A x \in Range(toPd') : x \in Range(toPd) \/ x.sec = "none" \/ x = p
        /\ Range(toCp') \subseteq Range(toCp)
    <2>1. toPd' = toPd \/ toPd' = Append(toPd, Garbled) \/ toPd' = Append(toPd, p)
      BY <1>2, <1>5
    <2>2. toPd' = Append(toPd, Garbled) => Range(toPd') = Range(toPd) \cup {Garbled}
      BY <1>1, OneMore
    <2>3. toPd' = Append(toPd, p) => Range(toPd') = Range(toPd) \cup {p}
      BY <1>1, OneMore
    <2>4. Range(toCp') \subseteq Range(toCp)
      BY <1>1, <1>2, FirstOnes
    <2> QED  BY <2>1, <2>2, <2>3, <2>4, Noise
  <1>9. cp'.sc /\ cp'.st \in {"SC_CHLNG", "SC_SCRYPT"} => FALSE
    BY <1>6 DEF CpOk, CpFine
  <1>10. cp'.st \in {"SC_CHLNG", "SC_SCRYPT"} => NoneOf(toPd', cp'.cpr) /\ NoneOf(toCp', cp'.cpr)
    BY <1>6, <1>7, <1>8, <1>9 DEF PlaceInv, Placed, NoneOf, OfSession
  <1>11. cp'.sc => UpToPlace(toCp', cp')
    BY <1>3, <1>6, <1>8 DEF PlaceInv, Placed, UpToPlace
  <1>12. cp'.sc => UpToPlace(toPd', cp')
    <2> SUFFICES ASSUME cp'.sc, NEW x \in Range(toPd'), OfSession(x, cp'.cpr)
                 PROVE  /\ x.auth[4] \in Nat /\ x.auth[4] <= cp'.rmac
                        /\ cp'.phy = "idle" => x.auth[4] # cp'.rmac
      BY DEF UpToPlace
    <2>1. CASE x \in Range(toPd)
      BY <1>3, <1>6, <2>1 DEF PlaceInv, Placed, UpToPlace
    <2>2. CASE x \notin Range(toPd)
      <3>1. x.auth[4] = cp'.rmac /\ cp'.phy = "reply"
        BY <1>3, <1>7, <1>8, <2>2 DEF OfSession
      <3> QED  BY <1>1, <1>6, <3>1
    <2> QED  BY <2>1, <2>2
  <1>13. ASSUME cp'.sc, cp'.phy # "idle", NEW x, AtPlace(x, cp'.cpr, cp'.rmac)
         PROVE  /\ x \in Range(toPd) => /\ x.id = cp'.cmd
                                        /\ cp'.cmd \in PlainCmds => x.data = cp'.data
                /\ x \in Range(toCp) => RightReply(cp', x, executed)
    <2>1. CASE cp.phy = "idle"
      BY <1>6, <1>13, <2>1 DEF PlaceInv, Placed, UpToPlace, AtPlace
    <2>2. CASE cp.phy # "idle"
      <3>1. /\ x \in Range(toPd) => x.id = cp.cmd /\ (cp.cmd \in PlainCmds => x.data = cp.data)
            /\ x \in Range(toCp) => RightReply(cp, x, executed)
        BY <1>6, <1>13, <2>2 DEF PlaceInv, Placed, Copies, RightReplies
      <3> QED  BY <1>3, <2>2, <3>1 DEF RightReply
    <2> QED  BY <2>1, <2>2
  <1>14. cp'.sc /\ cp'.phy # "idle" => Copies(toPd', cp') /\ RightReplies(toCp', cp', executed')
    BY <1>4, <1>7, <1>8, <1>13 DEF Copies, RightReplies, AtPlace, OfSession
  <1> QED  BY <1>1, <1>6, <1>10, <1>11, <1>12, <1>14 DEF Placed

\* No packet on the lines is of a session that has not begun.
LEMMA NoneNew ==
    ASSUME ~IsFiniteSet(Nonces), LineInv
    PROVE  NoneOf(toPd, FreshNonce) /\ NoneOf(toCp, FreshNonce)
  <1>1. FreshNonce \notin Remembered
    BY FreshIsFresh DEF LineInv, Shapes, Frame
  <1>2. ASSUME NEW x \in Range(toPd) \cup Range(toCp), OfSession(x, FreshNonce)
        PROVE  FALSE
    <2>1. x.auth # <<>> /\ x.auth[2] = FreshNonce
      BY <1>2 DEF LineInv, WellMade, WellReplied, OfSession
    <2> QED  BY <1>1, <1>2, <2>1 DEF Remembered
  <1> QED  BY <1>2 DEF NoneOf

\* The panel leaves the place it was at, or stays and waits.
LEMMA PlaceWaits ==
    ASSUME ~IsFiniteSet(Nonces), NoPlaceTwice, PlaceInv,
           CpReceive \/ CpTimeout \/ CpRetryOnline \/ CpRetrySc
    PROVE  Placed(toPd', toCp', cp', executed')
  <1>1. /\ IsSeq(toPd) /\ IsSeq(toCp) /\ CpOk(cp) /\ InHand(cp) /\ cp.rmac \in Nat
    BY DEF PlaceInv, LineInv, Shapes, Frame, Placed
  <1>2. UNCHANGED <<toPd, executed>> /\ Range(toCp') \subseteq Range(toCp)
    <2>1. CASE CpReceive
      <3>1. UNCHANGED <<toPd, executed>> /\ toCp # <<>> /\ toCp' = Tail(toCp)
        BY <2>1 DEF CpReceive, pdSide
      <3> QED  BY <1>1, <3>1, OneLess
    <2>2. CASE CpTimeout \/ CpRetryOnline \/ CpRetrySc
      BY <1>1, <2>2, PanelLeaves DEF pdSide
    <2> QED  BY <2>1, <2>2
  <1>3. Outcome(cp, cp')
    BY <1>1, PanelReceives, PanelMoves
  <1>4. cp'.st \in {"SC_CHLNG", "SC_SCRYPT"} => NoneOf(toPd, cp'.cpr) /\ NoneOf(toCp, cp'.cpr)
    <2>1. cp'.st \in {"SC_CHLNG", "SC_SCRYPT"} =>
            \/ cp'.cpr = FreshNonce
            \/ cp.st \in {"SC_CHLNG", "SC_SCRYPT"} /\ cp'.cpr = cp.cpr
      BY <1>3 DEF Outcome, InSession, Joined
    <2> QED  BY <2>1, NoneNew DEF PlaceInv, Placed
  <1>5. ASSUME cp'.sc, cp.sc, cp'.phy = "idle", cp'.cpr = cp.cpr, cp'.rmac = NextMac(cp.rmac),
               NEW x, x \in Range(toPd) \cup Range(toCp), OfSession(x, cp'.cpr)
        PROVE  x.auth[4] \in Nat /\ x.auth[4] <= cp'.rmac /\ x.auth[4] # cp'.rmac
    <2>1. x.auth[4] \in Nat /\ x.auth[4] <= cp.rmac
      <3>1. UpToPlace(toPd, cp) /\ UpToPlace(toCp, cp)
        BY <1>5 DEF PlaceInv, Placed
      <3> QED  BY <1>5, <3>1 DEF UpToPlace
    <2>2. cp.rmac < cp'.rmac /\ cp'.rmac \in Nat
      BY <1>1, <1>5 DEF NoPlaceTwice
    <2> QED  BY <1>1, <2>1, <2>2
  <1>6. CASE CpReceive
    <2>1. cp'.phy = "idle" /\ toCp # <<>>
      BY <1>1, <1>6, PanelReceives
    <2>2. PICK p : p = Head(toCp) /\ WellReplied(p)
      BY <1>1, <2>1, OneLess DEF PlaceInv, LineInv
    <2>3. Hears(p)
      BY <1>1, <1>6, <2>2, PanelHears
    <2>4. cp'.rmac \in Nat
      <3>1. cp'.rmac \in {cp.rmac, NextMac(cp.rmac), 0}
        BY <2>3 DEF Hears
      <3>2. NextMac(cp.rmac) \in Nat
        BY <1>1 DEF NoPlaceTwice
      <3> QED  BY ONLY <1>1, <3>1, <3>2
    <2>5. cp'.sc => cp'.cpr = cp.cpr
      BY <1>3 DEF Outcome, InSession, Joined
    <2>6. cp'.sc => UpToPlace(toPd, cp') /\ UpToPlace(toCp, cp')
      <3>1. CASE cp.sc /\ cp'.sc
        <4>1. cp'.rmac = NextMac(cp.rmac)
          BY <2>3, <3>1 DEF Hears
        <4> QED  BY <1>5, <2>1, <2>5, <3>1, <4>1 DEF UpToPlace
      <3>2. CASE ~cp.sc /\ cp'.sc
        <4>1. cp.st = "SC_SCRYPT"
          BY <2>3, <3>2 DEF Hears
        <4> QED  BY <2>5, <3>2, <4>1 DEF PlaceInv, Placed, NoneOf, UpToPlace
      <3> QED  BY <1>1, <3>1, <3>2 DEF CpOk, CpFine
    <2> QED  BY <1>2, <1>4, <2>1, <2>4, <2>6 DEF Placed, NoneOf, UpToPlace
  <1>7. CASE CpTimeout \/ CpRetryOnline \/ CpRetrySc
    <2>1. \/ ~cp'.sc /\ cp'.rmac \in {cp.rmac, 0}
          \/ /\ cp.phy = "reply" /\ cp'.phy # "idle"
             /\ cp'.sc = cp.sc /\ cp'.rmac = cp.rmac /\ cp'.cpr = cp.cpr /\ cp'.st = cp.st
      BY <1>1, <1>7, PanelLeaves
    <2>2. CASE ~cp'.sc /\ cp'.rmac \in {cp.rmac, 0}
      BY <1>1, <1>2, <1>4, <2>2 DEF Placed, NoneOf
    <2>3. CASE /\ cp.phy = "reply" /\ cp'.phy # "idle"
               /\ cp'.sc = cp.sc /\ cp'.rmac = cp.rmac /\ cp'.cpr = cp.cpr /\ cp'.st = cp.st
      <3>1. cp'.cmd = cp.cmd /\ cp'.data = cp.data
        BY <1>1, <1>7, <2>3, PanelWaits
      <3>2. cp.sc => Copies(toPd, cp) /\ RightReplies(toCp, cp, executed)
        BY <2>3 DEF PlaceInv, Placed
      <3>3. cp'.sc => Copies(toPd', cp') /\ RightReplies(toCp', cp', executed')
        BY <1>2, <2>3, <3>1, <3>2 DEF Copies, RightReplies, RightReply
      <3>4. cp'.sc => UpToPlace(toPd', cp') /\ UpToPlace(toCp', cp')
        BY <1>2, <2>3 DEF PlaceInv, Placed, UpToPlace
      <3> QED  BY <1>1, <1>2, <1>4, <2>3, <3>3, <3>4 DEF Placed, NoneOf
    <2> QED  BY <2>1, <2>2, <2>3
  <1> QED  BY <1>6, <1>7

\* A reply is at the place of the command it is to.
LEMMA PlaceAnswers ==
    ASSUME PlaceInv, PdReceive
    PROVE  Placed(toPd', toCp', cp', executed')
  <1>1. /\ IsSeq(toPd) /\ IsSeq(toCp) /\ IsSeq(executed) /\ toPd # <<>>
    BY DEF PlaceInv, LineInv, Shapes, Frame, PdReceive
  <1>2. PICK p : p = Head(toPd) /\ p \in Range(toPd) /\ WellMade(p)
    BY <1>1, OneLess DEF PlaceInv, LineInv
  <1>3. toPd' = Tail(toPd) /\ cp' = cp /\ Replies(p)
    BY <1>2, RepliesRightly DEF PlaceInv, LineInv, cpSide
  <1>4. p.id # "NAK"
    <2>1. p = toPd[1] /\ 1 \in 1..Len(toPd)
      BY <1>1, <1>2, TailOf
    <2>2. p = Garbled \/ p.id \in CmdIds
      BY <2>1 DEF PlaceInv, LineInv, Shapes, Frame
    <2> QED  BY <2>2, Noise DEF CmdIds, PlainCmds
  <1>5. Range(toPd') \subseteq Range(toPd)
    BY <1>1, <1>3, OneLess
  <1>6. \A x \in Range(toCp') : x \in Range(toCp) \/ x.sec = "none" \/ Replied(p, x, executed')
    <2>1. CASE toCp' = toCp
      BY <2>1
    <2>2. CASE toCp' = Append(toCp, Garbled)
      <3>1. Range(toCp') = Range(toCp) \cup {Garbled}
        BY <1>1, <2>2, OneMore
      <3> QED  BY <3>1, Noise
    <2>3. CASE \E r : toCp' = Append(toCp, r) /\ Replied(p, r, executed')
      <3>1. PICK r : toCp' = Append(toCp, r) /\ Replied(p, r, executed')
        BY <2>3
      <3>2. Range(toCp') = Range(toCp) \cup {r}
        BY <1>1, <3>1, OneMore
      <3> QED  BY <3>1, <3>2
    <2> QED  BY <1>3, <2>1, <2>2, <2>3 DEF Replies
  <1>7. ASSUME NEW x, Replied(p, x, executed'), NEW n, OfSession(x, n)
        PROVE  /\ OfSession(p, n) /\ x.auth[4] = p.auth[4]
               /\ RightAnswer(p, x, executed')
    BY <1>4, <1>7 DEF Replied, OfSession
  <1>8. ASSUME NEW n, NoneOf(toPd, n), NoneOf(toCp, n)
        PROVE  NoneOf(toPd', n) /\ NoneOf(toCp', n)
    BY <1>2, <1>5, <1>6, <1>7, <1>8 DEF NoneOf, OfSession
  <1>9. cp.sc => UpToPlace(toPd', cp) /\ UpToPlace(toCp', cp)
    <2> SUFFICES ASSUME cp.sc, NEW x \in Range(toPd') \cup Range(toCp'), OfSession(x, cp.cpr)
                 PROVE  /\ x.auth[4] \in Nat /\ x.auth[4] <= cp.rmac
                        /\ cp.phy = "idle" => x.auth[4] # cp.rmac
      BY DEF UpToPlace
    <2>1. PICK y \in Range(toPd) \cup Range(toCp) : OfSession(y, cp.cpr) /\ x.auth[4] = y.auth[4]
      BY <1>2, <1>5, <1>6, <1>7 DEF OfSession
    <2> QED  BY <2>1 DEF PlaceInv, Placed, UpToPlace
  <1>10. cp.sc /\ cp.phy # "idle" => Copies(toPd', cp)
    BY <1>5 DEF PlaceInv, Placed, Copies
  <1>11. cp.sc /\ cp.phy # "idle" => RightReplies(toCp', cp, executed')
    <2> SUFFICES ASSUME cp.sc, cp.phy # "idle", NEW x \in Range(toCp'),
                        AtPlace(x, cp.cpr, cp.rmac)
                 PROVE  RightReply(cp, x, executed')
      BY DEF RightReplies
    <2>1. CASE x \in Range(toCp)
      <3>1. RightFor(cp.cmd, cp.data.val, x, executed)
        BY <2>1 DEF PlaceInv, Placed, RightReplies, RightReply
      <3>2. RightFor(cp.cmd, cp.data.val, x, executed')
        BY <1>1, <1>3, <3>1, RightStill DEF Replies
      <3> QED  BY <3>2 DEF RightReply
    <2>2. CASE Replied(p, x, executed')
      <3>1. AtPlace(p, cp.cpr, cp.rmac) /\ RightAnswer(p, x, executed')
        BY <1>7, <2>2 DEF AtPlace
      <3>2. p.id = cp.cmd /\ (cp.cmd \in PlainCmds => p.data = cp.data)
        BY <1>2, <3>1 DEF PlaceInv, Placed, Copies
      <3> QED  BY <3>1, <3>2 DEF RightAnswer, RightReply, RightFor
    <2> QED  BY <1>6, <2>1, <2>2 DEF AtPlace, OfSession
  <1>12. cp.rmac \in Nat
    BY DEF PlaceInv, Placed
  <1>13. cp.st \in {"SC_CHLNG", "SC_SCRYPT"} => NoneOf(toPd', cp.cpr) /\ NoneOf(toCp', cp.cpr)
    BY <1>8 DEF PlaceInv, Placed
  <1> QED  BY <1>3, <1>9, <1>10, <1>11, <1>12, <1>13 DEF Placed

LEMMA PlaceKept ==
    ASSUME ~IsFiniteSet(Nonces), NoPlaceTwice, PlaceInv, [Next]_vars
    PROVE  PlaceInv'
  <1>1. LineInv'
    BY LineKept DEF PlaceInv
  <1>2. CASE PdReset
    <2>1. UNCHANGED <<cp, executed, toCp>> /\ toPd' = <<>>
      BY <1>2 DEF PdReset, cpSide
    <2>2. Range(toPd') = {}
      BY <2>1 DEF Range
    <2>3. Placed(toPd', toCp, cp, executed)
      BY <2>2 DEF PlaceInv, Placed, NoneOf, UpToPlace, Copies
    <2> QED  BY <1>1, <2>1, <2>3 DEF PlaceInv
  <1>3. CASE \/ PdSubmit \/ PdScTimeout \/ UNCHANGED vars
             \/ \E kind \in PlainCmds : CpSubmit(kind)
             \/ \E k \in NewKeys : CpSubmitKeyset(k)
    <2>1. UNCHANGED <<cp, executed, toCp, toPd>>
      BY <1>3 DEF PdSubmit, PdScTimeout, CpSubmit, CpSubmitKeyset, vars, cpSide, pdSide
    <2> QED  BY <1>1, <2>1 DEF PlaceInv
  <1>4. CASE CpSetup \/ CpOnline \/ CpResend
    BY <1>1, <1>4, PlaceTransmits DEF PlaceInv
  <1>5. CASE CpReceive \/ CpTimeout \/ CpRetryOnline \/ CpRetrySc
    BY <1>1, <1>5, PlaceWaits DEF PlaceInv
  <1>6. CASE PdReceive
    BY <1>1, <1>6, PlaceAnswers DEF PlaceInv
  <1> QED  BY <1>2, <1>3, <1>4, <1>5, <1>6, StepsOfNext DEF NotThePanel

LEMMA PlaceInit == Init => PlaceInv
  <1> SUFFICES ASSUME Init PROVE PlaceInv
    OBVIOUS
  <1>1. cp.rmac = 0 /\ cp.st = "INIT" /\ cp.sc = FALSE
    BY DEF Init, CpBoot
  <1>2. Placed(toPd, toCp, cp, executed)
    BY <1>1 DEF Placed
  <1> QED  BY <1>2, LineInit DEF PlaceInv

-----------------------------------------------------------------------------
(* What the panel's application is told                                    *)

ToldInv ==
    /\ LineInv
    /\ DOMAIN delivered = {"reads", "reports"}
    /\ Holds(cp) => cp.st = "ONLINE" /\ TakenAs(cp)
    /\ \A n \in told : n \in 1..Len(cmds)

\* Nothing is taken back of what was carried out, handed over or submitted.
Grows ==
    /\ Range(executed) \subseteq Range(executed')
    /\ DOMAIN delivered' = {"reads", "reports"} /\ delivered.reports \subseteq delivered'.reports
    /\ \A i \in 1..Len(cmds) : i \in 1..Len(cmds') /\ cmds'[i] = cmds[i]

LEMMA GivenKeeps ==
    ASSUME DOMAIN delivered = {"reads", "reports"}, NEW d, NEW g, g = Given(d)
    PROVE  /\ DOMAIN g = {"reads", "reports"} /\ delivered.reports \subseteq g.reports
           /\ d.kind = "status" => d.val \in g.reports
  BY DEF Given

LEMMA PanelGives ==
    ASSUME CpOk(cp), CpReceive \/ CpTimeout \/ CpRetryOnline \/ CpRetrySc
    PROVE  /\ delivered' = delivered \/ \E d : delivered' = Given(d)
           /\ UNCHANGED <<executed, cmds>>
  <1>1. UNCHANGED <<executed, cmds>>
    BY DEF CpReceive, CpTimeout, CpRetryOnline, CpRetrySc, pdSide, submitted
  <1>2. ASSUME NEW c, NEW e, Settle(c, e)
        PROVE  delivered' = delivered \/ \E d : delivered' = Given(d)
    BY <1>2 DEF Settle
  <1>3. CASE CpReceive
    BY <1>1, <1>3, PanelReadsOne DEF Hands
  <1>4. CASE CpTimeout
    BY <1>1, <1>2, <1>4 DEF CpTimeout, CpError
  <1>5. CASE CpRetryOnline
    BY <1>1, <1>5 DEF CpRetryOnline
  <1>6. CASE CpRetrySc
    BY <1>1, <1>2, <1>6 DEF CpRetrySc
  <1> QED  BY <1>3, <1>4, <1>5, <1>6

LEMMA SubmittedStay ==
    ASSUME Commands, NEW k, cmds' = Append(cmds, k)
    PROVE  \A i \in 1..Len(cmds) : i \in 1..Len(cmds') /\ cmds'[i] = cmds[i]
  <1>1. IsSeq(cmds)
    BY DEF Commands, IsSeq
  <1>2. /\ Len(cmds) \in Nat /\ Len(cmds') = Len(cmds) + 1
        /\ \A i \in 1..Len(cmds) : cmds'[i] = cmds[i]
    BY <1>1, Appended
  <1> QED  BY <1>2

LEMMA NothingTakenBack ==
    ASSUME ToldInv, [Next]_vars
    PROVE  Grows
  <1>1. /\ CpOk(cp) /\ Commands /\ IsSeq(executed) /\ DOMAIN delivered = {"reads", "reports"}
    BY DEF ToldInv, LineInv, Shapes, Frame
  <1>2. ASSUME UNCHANGED <<executed, cmds>>, delivered' = delivered \/ \E d : delivered' = Given(d)
        PROVE  Grows
    BY <1>1, <1>2, GivenKeeps DEF Grows
  <1>3. CASE CpReceive \/ CpTimeout \/ CpRetryOnline \/ CpRetrySc
    BY <1>1, <1>2, <1>3, PanelGives
  <1>4. CASE CpSetup \/ CpOnline \/ CpResend
    BY <1>1, <1>2, <1>4, PanelTakes DEF pdSide, submitted
  <1>5. CASE PdReceive
    <2>1. toPd # <<>>
      BY <1>5 DEF PdReceive
    <2>2. IsSeq(toPd) /\ Shapes
      BY DEF ToldInv, LineInv, Shapes, Frame
    <2>3. WellMade(Head(toPd))
      BY <2>1, <2>2, OneLess DEF ToldInv, LineInv
    <2>4. UNCHANGED <<cmds, delivered>> /\ Replies(Head(toPd))
      BY <1>1, <1>5, <2>2, <2>3, RepliesRightly DEF cpSide, submitted
    <2>5. Range(executed) \subseteq Range(executed')
      BY <1>1, <2>4, OneMore DEF Replies
    <2> QED  BY <1>1, <2>4, <2>5 DEF Grows
  <1>6. CASE \E k : cmds' = Append(cmds, k) /\ UNCHANGED <<executed, delivered>>
    <2>1. \A i \in 1..Len(cmds) : i \in 1..Len(cmds') /\ cmds'[i] = cmds[i]
      BY <1>1, <1>6, SubmittedStay
    <2> QED  BY <1>1, <1>6, <2>1 DEF Grows
  <1>7. CASE \E kind \in PlainCmds : CpSubmit(kind)
    BY <1>6, <1>7 DEF CpSubmit, pdSide
  <1>8. CASE PdSubmit \/ PdScTimeout \/ PdReset \/ UNCHANGED vars \/ \E k \in NewKeys : CpSubmitKeyset(k)
    BY <1>2, <1>8 DEF PdSubmit, PdScTimeout, PdReset, CpSubmitKeyset, vars, cpSide, pdSide, submitted
  <1> QED  BY <1>3, <1>4, <1>5, <1>7, <1>8, StepsOfNext DEF NotThePanel

\* Only the panel tells, of the command in hand.
LEMMA PanelTells ==
    ASSUME ToldInv, [Next]_vars
    PROVE  \/ told' = told
           \/ /\ CpReceive /\ toCp # <<>> /\ WellReplied(Head(toCp)) /\ Heard(Head(toCp))
              /\ Holds(cp) /\ TakenAs(cp)
  <1>1. CpOk(cp) /\ IsSeq(toCp)
    BY DEF ToldInv, LineInv, Shapes, Frame
  <1>2. CASE CpReceive
    <2>1. toCp # <<>>
      BY <1>2 DEF CpReceive
    <2>2. PICK p : p = Head(toCp) /\ WellReplied(p)
      BY <1>1, <2>1, OneLess DEF ToldInv, LineInv
    <2>3. told' = told \/ Heard(p)
      BY <1>1, <1>2, <2>2, PanelHears DEF Hears
    <2>4. Heard(p) => Holds(cp)
      BY DEF Heard, Holds
    <2> QED  BY <1>2, <2>1, <2>2, <2>3, <2>4 DEF ToldInv
  <1>3. CASE CpTimeout \/ CpRetryOnline \/ CpRetrySc
    BY <1>1, <1>3, PanelLeaves
  <1>4. CASE CpSetup \/ CpOnline \/ CpResend
    BY <1>1, <1>4, PanelTakes
  <1>5. CASE NotThePanel \/ UNCHANGED vars
    BY <1>5 DEF NotThePanel, PdSubmit, CpSubmit, CpSubmitKeyset, PdReceive, PdScTimeout, PdReset,
                vars, cpSide
  <1> QED  BY <1>2, <1>3, <1>4, <1>5, StepsOfNext

LEMMA ToldKept ==
    ASSUME ToldInv, [Next]_vars
    PROVE  ToldInv'
  <1>1. LineInv' /\ Grows
    BY LineKept, NothingTakenBack DEF ToldInv
  <1>2. CpOk(cp) /\ Commands
    BY DEF ToldInv, LineInv, Shapes, Frame
  <1>3. \A n \in told' : n \in 1..Len(cmds')
    <2>1. \A n \in told' : n \in 1..Len(cmds)
      BY PanelTells DEF ToldInv, Heard, TakenAs
    <2> QED  BY <1>1, <2>1 DEF Grows
  <1>4. ASSUME Holds(cp'), Holds(cp), cp'.st = cp.st, cp'.cmd = cp.cmd, cp'.data = cp.data
        PROVE  cp'.st = "ONLINE" /\ TakenAs(cp)'
    <2>1. cp.st = "ONLINE" /\ cp.data.val \in 1..Len(cmds) /\ cp.cmd = cmds[cp.data.val]
      BY <1>4 DEF ToldInv, TakenAs
    <2> QED  BY <1>1, <1>4, <2>1 DEF Grows, TakenAs
  <1>5. Holds(cp') => cp'.st = "ONLINE" /\ TakenAs(cp)'
    <2> SUFFICES ASSUME Holds(cp')
                 PROVE  cp'.st = "ONLINE" /\ TakenAs(cp)'
      OBVIOUS
    <2>1. CASE CpReceive \/ CpTimeout \/ CpRetryOnline \/ CpRetrySc
      <3>1. /\ cp.phy # "idle" /\ cp'.cmd = cp.cmd /\ cp'.data = cp.data
            /\ cp.st # "OFFLINE" => cp'.st = cp.st
        BY <1>2, <2>1, PanelWaits DEF Holds
      <3>2. Holds(cp)
        BY <3>1 DEF Holds
      <3>3. cp.st = "ONLINE"
        BY <3>2 DEF ToldInv
      <3> QED  BY <1>4, <3>1, <3>2, <3>3
    <2>2. CASE CpSetup \/ CpOnline \/ CpResend
      <3>1. /\ cp.phy # "idle" => cp'.phy = "reply" /\ cp'.cmd = cp.cmd /\ cp'.data = cp.data
            /\ cp.phy = "idle" => cp.st = "ONLINE" /\ TakenAs(cp')
        BY <1>2, <2>2, PanelPhases
      <3>2. cp'.st = cp.st /\ cmds' = cmds
        BY <1>2, <2>2, PanelTransmits, PanelTakes DEF Kept, submitted
      <3>3. CASE cp.phy = "idle"
        BY <3>1, <3>2, <3>3 DEF TakenAs
      <3>4. CASE cp.phy # "idle"
        <4>1. Holds(cp)
          BY <3>1, <3>4 DEF Holds
        <4> QED  BY <1>4, <3>1, <3>2, <3>4, <4>1
      <3> QED  BY <3>3, <3>4
    <2>3. CASE NotThePanel \/ UNCHANGED vars
      <3>1. cp' = cp
        BY <2>3, OtherSteps
      <3> QED  BY <1>4, <3>1
    <2> QED  BY <2>1, <2>2, <2>3, StepsOfNext
  <1> QED  BY <1>1, <1>3, <1>5 DEF ToldInv, Grows

LEMMA ToldInit == Init => ToldInv
  <1> SUFFICES ASSUME Init PROVE ToldInv
    OBVIOUS
  <1>1. LineInv
    BY LineInit
  <1>2. cp.phy = "idle" /\ told = {} /\ DOMAIN delivered = {"reads", "reports"}
    BY DEF Init, CpBoot
  <1> QED  BY <1>1, <1>2 DEF ToldInv, Holds

\* What the panel's application was told of command n is so.
Truly(n, ex, kinds, given) ==
    /\ CarriedOut(ex, kinds[n], n)
    /\ kinds[n] = "LSTAT" => n \in given.reports
AllTruly(ex, kinds, given) == \A n \in told : Truly(n, ex, kinds, given)

LEMMA ToldMeans == ToldIsExecuted <=> AllTruly(executed, cmds, delivered)
  BY DEF ToldIsExecuted, AllTruly, Truly, CarriedOut

LEMMA TrulyStill ==
    ASSUME Grows, NEW n \in 1..Len(cmds), Truly(n, executed, cmds, delivered)
    PROVE  Truly(n, executed', cmds', delivered')
  <1>1. cmds'[n] = cmds[n] /\ delivered.reports \subseteq delivered'.reports
    BY DEF Grows
  <1>2. CarriedOut(executed', cmds[n], n)
    BY DEF Truly, CarriedOut, Grows
  <1> QED  BY <1>1, <1>2 DEF Truly

\* A right reply to the command in hand is true news of it.
LEMMA TrulyHeard ==
    ASSUME ToldInv, CpReceive, NEW p, WellReplied(p), Heard(p), TakenAs(cp), RightReply(cp, p, executed)
    PROVE  Truly(cp.data.val, executed', cmds', delivered')
  <1> DEFINE v == cp.data.val
  <1>1. UNCHANGED <<executed, cmds>>
    BY DEF CpReceive, pdSide, submitted
  <1>2. cp.cmd = cmds[v] /\ cp.cmd \in PlainCmds
    BY DEF TakenAs, Heard
  <1>3. CarriedOut(executed, cmds[v], v)
    BY <1>2 DEF RightReply, RightFor
  <1>4. ASSUME cmds[v] = "LSTAT"
        PROVE  v \in delivered'.reports
    <2>1. p.id = "LSTATR" /\ p.data = StatusData(v)
      BY <1>2, <1>4 DEF RightReply, RightFor
    <2>2. delivered' = Given(p.data) /\ p.data.kind = "status" /\ p.data.val = v
      BY <2>1 DEF Heard, StatusData
    <2> QED  BY <2>2, GivenKeeps DEF ToldInv
  <1> QED  BY <1>1, <1>3, <1>4 DEF Truly

\* So it is true as long as the panel does not take a wrong reply for the answer.
LEMMA ToldTruly ==
    ASSUME ToldInv, ToldIsExecuted, [Next]_vars,
           CpReceive /\ toCp # <<>> /\ Heard(Head(toCp)) => RightReply(cp, Head(toCp), executed)
    PROVE  ToldIsExecuted'
  <1>1. Grows /\ AllTruly(executed, cmds, delivered)
    BY NothingTakenBack, ToldMeans
  <1>2. \A n \in told : Truly(n, executed', cmds', delivered')
    BY <1>1, TrulyStill DEF ToldInv, AllTruly
  <1>3. \A n \in told' : Truly(n, executed', cmds', delivered')
    <2>1. CASE told' = told
      BY <1>2, <2>1
    <2>2. CASE told' # told
      <3>1. PICK p : p = Head(toCp)
        OBVIOUS
      <3>2. CpReceive /\ toCp # <<>> /\ WellReplied(p) /\ Heard(p) /\ TakenAs(cp)
        BY <2>2, <3>1, PanelTells
      <3>3. RightReply(cp, p, executed)
        BY <3>1, <3>2
      <3>4. Truly(cp.data.val, executed', cmds', delivered')
        BY <3>2, <3>3, TrulyHeard
      <3>5. told' = told \cup {cp.data.val}
        BY <3>2 DEF Heard
      <3> QED  BY <1>2, <3>4, <3>5
    <2> QED  BY <2>1, <2>2
  <1>4. ToldIsExecuted' <=> \A n \in told' : Truly(n, executed', cmds', delivered')
    BY DEF ToldIsExecuted, Truly, CarriedOut
  <1> QED  BY <1>3, <1>4

LEMMA NothingTold == Init => ToldIsExecuted
  BY DEF Init, ToldIsExecuted

\* In a secure session the reply that passes is at the place of the command in hand.
LEMMA HeardAtPlace ==
    ASSUME Enforce, PlaceInv, toCp # <<>>, Heard(Head(toCp))
    PROVE  RightReply(cp, Head(toCp), executed)
  <1>1. IsSeq(toCp) /\ CpOk(cp)
    BY DEF PlaceInv, LineInv, Shapes, Frame
  <1>2. PICK p : p = Head(toCp) /\ p \in Range(toCp)
    BY <1>1, OneLess
  <1>3. cp.sc /\ cp.phy # "idle" /\ p.id # "NAK" /\ p.sec = "mac" /\ p.auth = CpMac(cp)
    BY <1>1, <1>2 DEF Heard, CpOk
  <1>4. p.auth[2] = cp.cpr /\ p.auth[4] = cp.rmac
    BY <1>3, MacParts DEF CpMac, CpCrypt
  <1>5. AtPlace(p, cp.cpr, cp.rmac)
    BY <1>3, <1>4 DEF AtPlace, OfSession
  <1>6. RightReplies(toCp, cp, executed)
    BY <1>3 DEF PlaceInv, Placed
  <1> QED  BY <1>2, <1>5, <1>6 DEF RightReplies

\* A panel that enforces the secure channel is told the truth: a command that its application
\* hears has succeeded was carried out by the reader, unless it is one of those acknowledged
\* regardless, and a status report that was asked for has been handed over, whatever was lost,
\* garbled, late or restarted (notify_command_status, cp_decode_response,
\* osdp_phy_decode_packet, pd_decode_command).  It holds as long as the chain of MACs does not
\* come back to a place it was at and random numbers do not run out.
THEOREM SecurelyTold ==
    ASSUME Enforce, ~IsFiniteSet(Nonces), NoPlaceTwice
    PROVE  Spec => []ToldIsExecuted
  <1> DEFINE I == ToldInv /\ PlaceInv /\ ToldIsExecuted
  <1>1. Init => I
    BY ToldInit, PlaceInit, NothingTold
  <1>2. I /\ [Next]_vars => I'
    <2> SUFFICES ASSUME I, [Next]_vars PROVE I'
      OBVIOUS
    <2>1. ToldInv' /\ PlaceInv'
      BY ToldKept, PlaceKept
    <2>2. ToldIsExecuted'
      BY HeardAtPlace, ToldTruly
    <2> QED  BY <2>1, <2>2
  <1>3. I => ToldIsExecuted
    OBVIOUS
  <1> QED  BY <1>1, <1>2, <1>3, PTL DEF Spec

-----------------------------------------------------------------------------
\* On a line without faults what has arrived is the reply to the command in hand.
Fits == FaultFree /\ cp.phy # "idle" =>
            \A r \in Range(toCp) : r.id # "NAK" => RightReply(cp, r, executed)

LEMMA FaultsStay ==
    ASSUME LockInv, LineInv, [Next]_vars, FaultFree'
    PROVE  used' = used \/ (UNCHANGED <<cp, toCp, executed>> /\ FaultFree)
  <1>1. used \in [Stimuli -> Nat]
    BY DEF LockInv
  <1>2. CASE CpSetup \/ CpOnline \/ CpResend
    <2>1. Sends
      BY <1>2, PanelKeeps DEF LockInv, Shapes, Frame, Commands
    <2> QED  BY <1>1, <2>1, Arrives DEF Sends
  <1>3. CASE CpReceive \/ CpRetryOnline \/ CpRetrySc
    BY <1>3 DEF CpReceive, CpRetryOnline, CpRetrySc
  <1>4. CASE CpTimeout
    BY <1>1, <1>4, Faulty DEF CpTimeout
  <1>5. CASE PdReset
    BY <1>1, <1>5, Faulty DEF PdReset
  <1>6. CASE \/ \E kind \in PlainCmds : CpSubmit(kind)
             \/ \E k \in NewKeys : CpSubmitKeyset(k)
    BY <1>6, LockSubmits DEF CpSubmit, CpSubmitKeyset, pdSide
  <1>7. CASE PdSubmit \/ PdScTimeout \/ UNCHANGED vars
    BY <1>7 DEF PdSubmit, PdScTimeout, vars
  <1>8. CASE PdReceive
    <2>1. toPd # <<>> => WellMade(Head(toPd))
      BY OneLess DEF LineInv, Shapes, Frame
    <2>2. used' = used \/ \E x : Transmit(toCp, x)
      BY <1>8, <2>1, RepliesRightly DEF LineInv
    <2> QED  BY <1>1, <2>2, Arrives
  <1> QED  BY <1>2, <1>3, <1>4, <1>5, <1>6, <1>7, <1>8, StepsOfNext DEF NotThePanel

LEMMA FitsAnswered ==
    ASSUME LockInv, LineInv, PdReceive, FaultFree'
    PROVE  Fits'
  <1>1. used \in [Stimuli -> Nat] /\ IsSeq(toCp) /\ IsSeq(toPd) /\ IsSeq(executed)
    BY DEF LockInv, LineInv, Shapes, Frame
  <1>2. toPd # <<>> /\ cp' = cp
    BY DEF PdReceive, cpSide
  <1>3. PICK p : p = Head(toPd) /\ WellMade(p)
    BY <1>1, <1>2, OneLess DEF LineInv
  <1>4. \/ toCp' = toCp /\ UNCHANGED used
        \/ \E r : Transmit(toCp, r) /\ Replied(p, r, executed')
    BY <1>3, RepliesRightly DEF LineInv
  <1>5. used' = used /\ FaultFree
    <2>1. used' = used
      BY <1>1, <1>4, Arrives
    <2> QED  BY <2>1 DEF FaultFree
  <1>6. toPd = <<CpPacket(cp)>> /\ toCp = <<>>
    BY <1>2, <1>5 DEF LockInv, Resting, Asking, Answering
  <1>7. p = CpPacket(cp)
    BY <1>3, <1>6
  <1>8. p.id = cp.cmd /\ (cp.cmd \in PlainCmds => p.data = cp.data)
    BY <1>7, PacketInHand DEF LockInv, Shapes, Frame
  <1>9. Range(toCp) = {}
    BY <1>6 DEF Range
  <1>10. \A x \in Range(toCp') : Replied(p, x, executed')
    <2>1. CASE toCp' = toCp
      BY <1>9, <2>1
    <2>2. CASE \E r : Transmit(toCp, r) /\ Replied(p, r, executed')
      <3>1. PICK r : Transmit(toCp, r) /\ Replied(p, r, executed')
        BY <2>2
      <3>2. toCp' = Append(toCp, r)
        BY <1>1, <1>5, <3>1, Arrives
      <3>3. Range(toCp') = Range(toCp) \cup {r}
        BY <1>1, <3>2, OneMore
      <3> QED  BY <1>9, <3>1, <3>3
    <2> QED  BY <1>4, <2>1, <2>2
  <1>11. \A x \in Range(toCp') : x.id # "NAK" => RightReply(cp, x, executed')
    BY <1>8, <1>10 DEF Replied, RightAnswer, RightReply, RightFor
  <1> QED  BY <1>2, <1>11 DEF Fits

LEMMA FitsKept ==
    ASSUME LockInv, LineInv, Fits, [Next]_vars
    PROVE  Fits'
  <1> SUFFICES ASSUME FaultFree', cp'.phy # "idle"
               PROVE  \A r \in Range(toCp') : r.id # "NAK" => RightReply(cp', r, executed')
    BY DEF Fits
  <1>1. FaultFree
    BY FaultsStay DEF FaultFree
  <1>2. CpOk(cp) /\ IsSeq(toCp) /\ cp.rb \in 0..Len(toCp)
    BY DEF LockInv, Shapes, Frame
  <1>3. ASSUME cp.phy # "idle", cp'.cmd = cp.cmd, cp'.data = cp.data, UNCHANGED <<toCp, executed>>
        PROVE  \A r \in Range(toCp') : r.id # "NAK" => RightReply(cp', r, executed')
    BY <1>1, <1>3 DEF Fits, RightReply
  <1>4. CASE CpSetup \/ CpOnline \/ CpResend
    <2>1. cp.phy # "reply"
      BY <1>4, PanelKeeps DEF LockInv, Shapes, Frame, Commands
    <2>2. toCp = <<>>
      BY <1>1, <2>1 DEF LockInv, Resting, Asking, Answering
    <2>3. Range(toCp) = {}
      BY <2>2 DEF Range
    <2>4. Range(toCp') \subseteq Range(toCp)
      BY <1>2, <1>4, PanelTransmits, FirstOnes
    <2> QED  BY <2>3, <2>4
  <1>5. CASE CpReceive
    BY <1>2, <1>5, PanelReceives
  <1>6. CASE CpTimeout \/ CpRetryOnline \/ CpRetrySc
    <2>1. cp.phy # "idle" /\ cp'.cmd = cp.cmd /\ cp'.data = cp.data
      BY <1>2, <1>6, PanelWaits
    <2>2. UNCHANGED <<toCp, executed>>
      BY <1>2, <1>6, PanelLeaves DEF pdSide
    <2> QED  BY <1>3, <2>1, <2>2
  <1>7. CASE PdReceive
    BY <1>7, FitsAnswered DEF Fits
  <1>8. CASE \/ PdSubmit \/ PdScTimeout \/ PdReset \/ UNCHANGED vars
             \/ \E kind \in PlainCmds : CpSubmit(kind)
             \/ \E k \in NewKeys : CpSubmitKeyset(k)
    <2>1. UNCHANGED <<cp, toCp, executed>>
      BY <1>8 DEF PdSubmit, PdScTimeout, PdReset, CpSubmit, CpSubmitKeyset, vars, cpSide, pdSide
    <2> QED  BY <1>3, <2>1
  <1> QED  BY <1>4, <1>5, <1>6, <1>7, <1>8, StepsOfNext DEF NotThePanel

\* On a line without faults the same holds in the clear: the reply that arrives is to the
\* command in hand, whatever the application submits and however often the secure channel is
\* set up again (cp_phy_state_update, notify_command_status, pd_decode_command).
THEOREM ToldWithoutFaults == Spec => [](FaultFree => ToldIsExecuted)
  <1> DEFINE I == ToldInv /\ LockInv /\ Fits /\ (FaultFree => ToldIsExecuted)
  <1>1. Init => I
    <2> SUFFICES ASSUME Init PROVE I
      OBVIOUS
    <2>1. ToldInv /\ LockInv /\ ToldIsExecuted
      BY ToldInit, LockInit, NothingTold
    <2>2. Fits
      BY DEF Init, CpBoot, Fits
    <2> QED  BY <2>1, <2>2
  <1>2. I /\ [Next]_vars => I'
    <2> SUFFICES ASSUME I, [Next]_vars PROVE I'
      OBVIOUS
    <2>1. ToldInv' /\ LockInv' /\ LineInv
      BY ToldKept, LockKept DEF ToldInv
    <2>2. Fits'
      BY <2>1, FitsKept
    <2>3. ASSUME FaultFree'
          PROVE  ToldIsExecuted'
      <3>1. FaultFree
        BY <2>1, <2>3, FaultsStay DEF FaultFree
      <3>2. ASSUME CpReceive, toCp # <<>>, Heard(Head(toCp))
            PROVE  RightReply(cp, Head(toCp), executed)
        <4>1. IsSeq(toCp)
          BY <2>1 DEF LineInv, Shapes, Frame
        <4>2. PICK p : p = Head(toCp) /\ p \in Range(toCp)
          BY <3>2, <4>1, OneLess
        <4>3. cp.phy # "idle" /\ p.id # "NAK"
          BY <3>2, <4>2 DEF Heard
        <4> QED  BY <3>1, <4>2, <4>3 DEF Fits
      <3> QED  BY <3>1, <3>2, ToldTruly
    <2> QED  BY <2>1, <2>2, <2>3
  <1>3. I => (FaultFree => ToldIsExecuted)
    OBVIOUS
  <1> QED  BY <1>1, <1>2, <1>3, PTL DEF Spec
=============================================================================
