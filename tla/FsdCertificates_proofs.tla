----------------------- MODULE FsdCertificates_proofs -----------------------
(***************************************************************************)
(* Proofs about the certificates, for any servers in a network without a   *)
(* cycle, and any connections, files and lists of trusted hosts. What is   *)
(* under way has to be as authentic as what is kept, and no server made    *)
(* anything later than what its own time is now; then, that the copies end *)
(* up equal: nothing is forgotten on a connection (CopiesInv), and while   *)
(* one server gives the commands, each connection carries them in their    *)
(* order (FollowInv).                                                      *)
(***************************************************************************)
EXTENDS FsdCertificates, FiniteSetTheorems, TLAPS

\* Who writes, and who reads.
LEMMA PeersChannels ==
    /\ Servers \subseteq Peers
    /\ Stubs \subseteq Peers
    /\ \A x \in Peers, y \in Servers : <<x, y>> \in Channels
    /\ \A l \in Channels : \E x \in Peers, y \in Servers : l = <<x, y>>
  BY DEF Peers, Channels

\* No server made anything in a second that is still to come there.
Dated == \A v \in issued : v.cert.creation <= mgmtime(v.cert.origin)

\* What is under way was made by the server it names.
Wired ==
    \A l \in Channels : \A i \in DOMAIN wire[l] :
        Given(issued, wire[l][i].cid, wire[l][i].cert)

CertInv == CertTypeOK /\ Dated /\ Authentic /\ Wired

\* A set becomes a sequence of its elements.
LEMMA SetToSeqElements ==
    ASSUME NEW S, IsFiniteSet(S)
    PROVE  SetToSeq(S) \in Seq(S)
<1>1. Cardinality(S) \in Nat /\ ExistsBijection(1..Cardinality(S), S)
  BY FS_CardinalityType
<1>2. \E f \in [1..Cardinality(S) -> S] : IsInjective(f)
  BY <1>1 DEF ExistsBijection, Bijection, Injection, IsInjective
<1>3. SetToSeq(S) \in [1..Cardinality(S) -> S]
  BY <1>2 DEF SetToSeq
<1> QED BY <1>1, <1>3

\* Each element once.
LEMMA SetToSeqEach ==
    ASSUME NEW S, IsFiniteSet(S)
    PROVE  /\ \A x \in S : \E i \in DOMAIN SetToSeq(S) : SetToSeq(S)[i] = x
           /\ \A i, j \in DOMAIN SetToSeq(S) : SetToSeq(S)[i] = SetToSeq(S)[j] => i = j
<1> DEFINE D == 1..Cardinality(S)
<1>1. Cardinality(S) \in Nat /\ ExistsBijection(D, S)
  BY FS_CardinalityType
<1>2. \E f \in [D -> S] : IsInjective(f)
  BY <1>1 DEF ExistsBijection, Bijection, Injection, IsInjective
<1>3. SetToSeq(S) \in [D -> S] /\ IsInjective(SetToSeq(S))
  BY <1>2 DEF SetToSeq
<1>4. PICK f : f = SetToSeq(S)
  OBVIOUS
<1>5. f \in Injection(D, S)
  BY <1>3, <1>4 DEF Injection, IsInjective
<1>6. Cardinality(D) = Cardinality(S)
  BY <1>1, FS_Interval
<1> HIDE DEF D
<1>7. f \in Surjection(D, S)
  BY <1>5, <1>6, FS_Injection
<1> QED BY <1>3, <1>4, <1>7 DEF Surjection, IsInjective

\* A database is a function of some of the cids.
LEMMA DatabaseDef ==
    ASSUME NEW db
    PROVE  db \in Databases <=>
               /\ DOMAIN db \subseteq Cids
               /\ db = [c \in DOMAIN db |-> db[c]]
               /\ \A c \in DOMAIN db : db[c] \in Certificates
  BY DEF Databases

\* The same for a file.
LEMMA FileDef ==
    ASSUME NEW f
    PROVE  f \in Files <=>
               /\ DOMAIN f \subseteq Cids
               /\ f = [c \in DOMAIN f |-> f[c]]
               /\ \A c \in DOMAIN f : f[c] \in Lines
  BY DEF Files

\* One entry more, or another.
LEMMA WithDatabase ==
    ASSUME NEW db \in Databases, NEW c \in Cids, NEW x \in Certificates
    PROVE  /\ With(db, c, x) \in Databases
           /\ DOMAIN With(db, c, x) = DOMAIN db \cup {c}
           /\ \A d \in DOMAIN db \cup {c} :
                 With(db, c, x)[d] = IF d = c THEN x ELSE db[d]
<1>1. DOMAIN With(db, c, x) = DOMAIN db \cup {c}
  BY DEF With
<1>2. \A d \in DOMAIN db \cup {c} : With(db, c, x)[d] = IF d = c THEN x ELSE db[d]
  BY DEF With
<1>3. With(db, c, x) = [d \in DOMAIN With(db, c, x) |-> With(db, c, x)[d]]
  BY DEF With
<1>4. DOMAIN db \subseteq Cids /\ \A d \in DOMAIN db : db[d] \in Certificates
  BY DatabaseDef
<1> QED BY <1>1, <1>2, <1>3, <1>4, DatabaseDef

\* One entry less.
LEMMA WithoutDatabase ==
    ASSUME NEW db \in Databases, NEW c
    PROVE  /\ Without(db, c) \in Databases
           /\ DOMAIN Without(db, c) = DOMAIN db \ {c}
           /\ \A d \in DOMAIN db \ {c} : Without(db, c)[d] = db[d]
<1>1. DOMAIN Without(db, c) = DOMAIN db \ {c}
  BY DEF Without
<1>2. \A d \in DOMAIN db \ {c} : Without(db, c)[d] = db[d]
  BY DEF Without
<1>3. Without(db, c) = [d \in DOMAIN Without(db, c) |-> Without(db, c)[d]]
  BY DEF Without
<1>4. DOMAIN db \subseteq Cids /\ \A d \in DOMAIN db : db[d] \in Certificates
  BY DatabaseDef
<1> QED BY <1>1, <1>2, <1>3, <1>4, DatabaseDef

\* What was given stays given.
LEMMA GivenStays ==
    ASSUME NEW I, NEW J, I \subseteq J
    PROVE  \A c, x : Given(I, c, x) => Given(J, c, x)
  BY DEF Given

\* The time at s is a time.
LEMMA TimeType ==
    ASSUME CertTypeOK, NEW s \in Servers
    PROVE  mgmtime(s) \in Nat
  BY CertificatesAssumption DEF CertTypeOK, mgmtime

\* What s makes now is a certificate.
LEMMA MadeIsCertificate ==
    ASSUME CertTypeOK, NEW s \in Servers, NEW w \in Passwords, NEW l \in Levels
    PROVE  /\ Made(s, w, l) \in Certificates
           /\ Made(s, w, l).creation = mgmtime(s)
           /\ mgmtime(s) \in Nat
           /\ Made(s, w, l).origin = s
           /\ Made(s, w, l).password = w
           /\ Made(s, w, l).level = l
  BY CertificatesAssumption DEF CertTypeOK, Made, mgmtime, Certificates

\* What a concatenation and a tail hold.
LEMMA ConcatElements ==
    ASSUME NEW w \in Seq(Packets), NEW q \in Seq(Packets)
    PROVE  /\ w \o q \in Seq(Packets)
           /\ Len(w \o q) = Len(w) + Len(q)
           /\ \A i \in DOMAIN w : i \in DOMAIN (w \o q) /\ (w \o q)[i] = w[i]
           /\ \A k \in DOMAIN q :
                 Len(w) + k \in DOMAIN (w \o q) /\ (w \o q)[Len(w) + k] = q[k]
           /\ \A i \in DOMAIN (w \o q) :
                 i \in DOMAIN w \/ (i - Len(w) \in DOMAIN q /\ i = Len(w) + (i - Len(w)))
  OBVIOUS

LEMMA TailElements ==
    ASSUME NEW w \in Seq(Packets), w # <<>>
    PROVE  /\ Tail(w) \in Seq(Packets)
           /\ Len(Tail(w)) = Len(w) - 1
           /\ 1 \in DOMAIN w /\ Head(w) = w[1] /\ Head(w) \in Packets
           /\ \A i \in DOMAIN Tail(w) : i + 1 \in DOMAIN w /\ Tail(w)[i] = w[i + 1]
           /\ \A i \in DOMAIN w : i # 1 => i - 1 \in DOMAIN Tail(w) /\ Tail(w)[i - 1] = w[i]
  OBVIOUS

\* One packet.
LEMMA CertPacket ==
    ASSUME NEW s \in Servers, NEW mode \in {"add", "delete", "modify"},
           NEW c \in Cids, NEW x \in Certificates
    PROVE  \E p \in Packets :
              p = Cert(s, mode, c, x) /\ p.mode = mode /\ p.cid = c /\ p.cert = x
<1> DEFINE p == Cert(s, mode, c, x)
<1>1. p \in Packets /\ p.mode = mode /\ p.cid = c /\ p.cert = x
  BY DEF Cert, Packets
<1> HIDE DEF p
<1> QED BY <1>1 DEF p

LEMMA OnePacket ==
    ASSUME NEW p \in Packets
    PROVE  \E q \in Seq(Packets) : q = <<p>> /\ DOMAIN q = {1} /\ q[1] = p
<1> DEFINE q == <<p>>
<1>1. q \in Seq(Packets) /\ DOMAIN q = {1} /\ q[1] = p
  OBVIOUS
<1> HIDE DEF q
<1> QED BY <1>1 DEF q

(***************************************************************************)
(* Writing authentic packets leaves the wires authentic.                   *)
(***************************************************************************)
LEMMA TransmitAuthentic ==
    ASSUME NEW s, NEW packets \in Seq(Packets), NEW to,
           NEW wires \in [Channels -> Seq(Packets)],
           \A i \in DOMAIN packets : Given(issued', packets[i].cid, packets[i].cert),
           \A l \in Channels : \A i \in DOMAIN wires[l] :
               Given(issued', wires[l][i].cid, wires[l][i].cert),
           Transmit(s, packets, to, wires)
    PROVE  /\ wire' \in [Channels -> Seq(Packets)]
           /\ Wired'
<1>1. \A l \in Channels :
          wire'[l] = wires[l] \/ wire'[l] = wires[l] \o packets
  BY DEF Transmit
<1>2. wire' \in [Channels -> Seq(Packets)]
  BY DEF Transmit
<1>3. ASSUME NEW l \in Channels, NEW i \in DOMAIN wire'[l]
      PROVE  Given(issued', wire'[l][i].cid, wire'[l][i].cert)
  <2>1. CASE wire'[l] = wires[l]
    BY <1>3, <2>1
  <2>2. CASE wire'[l] = wires[l] \o packets
    <3>1. wires[l] \in Seq(Packets)
      OBVIOUS
    <3>2. \/ i \in DOMAIN wires[l] /\ wire'[l][i] = wires[l][i]
          \/ \E j \in DOMAIN packets : wire'[l][i] = packets[j]
      <4>1. i \in 1..(Len(wires[l]) + Len(packets))
        BY <1>3, <2>2, <3>1
      <4>2. CASE i <= Len(wires[l])
        BY <2>2, <3>1, <4>1, <4>2
      <4>3. CASE ~(i <= Len(wires[l]))
        <5>1. i - Len(wires[l]) \in DOMAIN packets
          BY <3>1, <4>1, <4>3
        <5>2. wire'[l][i] = packets[i - Len(wires[l])]
          BY <2>2, <3>1, <4>1, <4>3
        <5> QED BY <5>1, <5>2
      <4> QED BY <4>2, <4>3
    <3> QED BY <3>2
  <2> QED BY <1>1, <2>1, <2>2
<1> QED BY <1>2, <1>3 DEF Wired

\* What is kept stays authentic when issued grows.
LEMMA StaysAuthentic ==
    ASSUME CertInv, issued \subseteq issued', NEW s \in Servers,
           NEW db \in Databases, certs' = [certs EXCEPT ![s] = db],
           \A c \in DOMAIN db : /\ Given(issued', c, db[c])
                                /\ db[c].origin \in Trusted[s] \cup {s}
    PROVE  certs' \in [Servers -> Databases] /\ Authentic'
<1>1. certs' \in [Servers -> Databases]
  BY DEF CertInv, CertTypeOK
<1>2. ASSUME NEW t \in Servers, NEW c \in DOMAIN certs'[t]
      PROVE  Given(issued', c, certs'[t][c]) /\ certs'[t][c].origin \in Trusted[t] \cup {t}
  <2>1. CASE t = s
    BY <1>2, <2>1 DEF CertInv, CertTypeOK
  <2>2. CASE t # s
    <3>1. certs'[t] = certs[t]
      BY <2>2 DEF CertInv, CertTypeOK
    <3>2. Given(issued, c, certs[t][c]) /\ certs[t][c].origin \in Trusted[t] \cup {t}
      BY <1>2, <3>1 DEF CertInv, Authentic
    <3> QED BY <3>1, <3>2, GivenStays
  <2> QED BY <2>1, <2>2
<1> QED BY <1>1, <1>2 DEF Authentic

(***************************************************************************)
(* s changes its database to db and tells its neighbours what is new in it *)
(* and what is gone.                                                       *)
(***************************************************************************)
LEMMA IssueAuthentic ==
    ASSUME CertInv, NEW s \in Servers, NEW db \in Databases,
           \A c \in DOMAIN db : /\ db[c].creation <= mgmtime(db[c].origin)
                                /\ db[c].origin \in Trusted[s] \cup {s},
           NEW packets \in Seq(Packets),
           \A i \in DOMAIN packets :
               LET c == packets[i].cid
               IN  \/ c \in DOMAIN db /\ packets[i].cert = db[c]
                   \/ c \in DOMAIN certs[s] /\ packets[i].cert = certs[s][c],
           Issue(s, db, packets), file' \in [Servers -> Files]
    PROVE  CertInv'
<1>1. /\ issued' = issued \cup Listed(db)
      /\ issued \subseteq issued'
      /\ clock' = clock
      /\ certs' = [certs EXCEPT ![s] = db]
  BY DEF Issue
<1>2. ASSUME NEW c \in DOMAIN db PROVE Given(issued', c, db[c])
  <2> DEFINE v == [cid |-> c, cert |-> db[c]]
  <2>1. v \in issued'
    BY <1>1 DEF Listed
  <2>2. v.cid = c /\ v.cert = db[c]
    OBVIOUS
  <2> HIDE DEF v
  <2> QED BY <2>1, <2>2 DEF Given
<1>3. \A c \in DOMAIN certs[s] : Given(issued', c, certs[s][c])
  BY <1>1, GivenStays DEF CertInv, Authentic
<1>4. certs' \in [Servers -> Databases] /\ Authentic'
  BY <1>1, <1>2, StaysAuthentic
<1>5. wire' \in [Channels -> Seq(Packets)] /\ Wired'
  <2>1. wire \in [Channels -> Seq(Packets)]
    BY DEF CertInv, CertTypeOK
  <2>2. \A l \in Channels : \A i \in DOMAIN wire[l] :
            Given(issued', wire[l][i].cid, wire[l][i].cert)
    BY <1>1, GivenStays DEF CertInv, Wired
  <2>3. \A i \in DOMAIN packets : Given(issued', packets[i].cid, packets[i].cert)
    BY <1>2, <1>3
  <2>4. Transmit(s, packets, Neighbours(s), wire)
    BY DEF Issue
  <2> QED BY <2>1, <2>2, <2>3, <2>4, TransmitAuthentic
<1>6. issued' \subseteq [cid : Cids, cert : Certificates]
  BY <1>1, DatabaseDef DEF Listed, CertInv, CertTypeOK
<1>7. Dated'
  <2>1. \A v \in issued : v.cert.creation <= mgmtime(v.cert.origin)'
    BY <1>1 DEF CertInv, Dated, mgmtime
  <2>2. \A v \in Listed(db) : v.cert.creation <= mgmtime(v.cert.origin)'
    BY <1>1 DEF Listed, mgmtime
  <2> QED BY <1>1, <2>1, <2>2 DEF Dated
<1>8. clock' \in Nat
  BY <1>1 DEF CertInv, CertTypeOK
<1> QED BY <1>4, <1>5, <1>6, <1>7, <1>8 DEF CertInv, CertTypeOK

\* What is kept was made by now, and is what it says.
LEMMA KeptCertificates ==
    ASSUME CertInv, NEW s \in Servers
    PROVE  /\ certs[s] \in Databases
           /\ DOMAIN certs[s] \subseteq Cids
           /\ IsFiniteSet(DOMAIN certs[s])
           /\ \A c \in DOMAIN certs[s] :
                 /\ certs[s][c] \in Certificates
                 /\ certs[s][c].creation <= mgmtime(certs[s][c].origin)
                 /\ certs[s][c].origin \in Trusted[s] \cup {s}
<1>1. certs[s] \in Databases
  BY DEF CertInv, CertTypeOK
<1>2. DOMAIN certs[s] \subseteq Cids /\ \A c \in DOMAIN certs[s] : certs[s][c] \in Certificates
  BY <1>1, DatabaseDef
<1>3. IsFiniteSet(DOMAIN certs[s])
  BY <1>2, FS_Subset, CertificatesAssumption
<1>4. \A c \in DOMAIN certs[s] :
          /\ certs[s][c].creation <= mgmtime(certs[s][c].origin)
          /\ certs[s][c].origin \in Trusted[s] \cup {s}
  BY DEF CertInv, Dated, Authentic, Given
<1> QED BY <1>1, <1>2, <1>3, <1>4

-----------------------------------------------------------------------------
(***************************************************************************)
(* The actions, one by one.                                                *)
(***************************************************************************)
LEMMA AddAuthentic ==
    ASSUME CertInv, NEW s \in Servers, NEW c \in Cids, NEW w \in Passwords,
           NEW l \in Levels, Add(s, c, w, l)
    PROVE  CertInv'
<1> DEFINE x == Made(s, w, l)
           db == With(certs[s], c, x)
           sent == Cert(s, "add", c, x)
           packets == <<sent>>
<1>1. x \in Certificates /\ x.creation = mgmtime(s) /\ x.origin = s /\ mgmtime(s) \in Nat
  BY MadeIsCertificate DEF CertInv
<1>2. db \in Databases /\ DOMAIN db = DOMAIN certs[s] \cup {c}
      /\ \A d \in DOMAIN certs[s] \cup {c} : db[d] = IF d = c THEN x ELSE certs[s][d]
  <2>1. PICK old \in Databases : old = certs[s]
    BY KeptCertificates
  <2>2. PICK y \in Certificates : y = x
    BY <1>1
  <2>3. /\ With(old, c, y) \in Databases
        /\ DOMAIN With(old, c, y) = DOMAIN old \cup {c}
        /\ \A d \in DOMAIN old \cup {c} : With(old, c, y)[d] = IF d = c THEN y ELSE old[d]
    BY WithDatabase
  <2> HIDE DEF x
  <2> QED BY <2>1, <2>2, <2>3
<1>3. ASSUME NEW d \in DOMAIN db
      PROVE  db[d].creation <= mgmtime(db[d].origin) /\ db[d].origin \in Trusted[s] \cup {s}
  <2> HIDE DEF x, db
  <2>1. CASE d = c
    <3>1. db[d] = x
      BY <1>2, <2>1
    <3> QED BY <1>1, <3>1
  <2>2. CASE d # c
    BY <1>2, <1>3, <2>2, KeptCertificates
  <2> QED BY <2>1, <2>2
<1>4. packets \in Seq(Packets) /\ \A i \in DOMAIN packets : packets[i] = sent
  BY <1>1 DEF Packets, Cert
<1>5. sent.cid = c /\ sent.cert = x
  BY DEF Cert
<1>6. Issue(s, db, packets) /\ file' \in [Servers -> Files]
  BY DEF Add, CertInv, CertTypeOK
<1> HIDE DEF x, db, packets, sent
<1> QED BY <1>2, <1>3, <1>4, <1>5, <1>6, IssueAuthentic

LEMMA ModifyAuthentic ==
    ASSUME CertInv, NEW s \in Servers, NEW c \in Cids, NEW l \in Levels,
           Modify(s, c, l)
    PROVE  CertInv'
<1> DEFINE x == Made(s, certs[s][c].password, l)
           db == With(certs[s], c, x)
           sent == Cert(s, "modify", c, x)
           packets == <<sent>>
<1>1. certs[s][c].password \in Passwords
  BY KeptCertificates DEF Modify, Certificates
<1>2. x \in Certificates /\ x.creation = mgmtime(s) /\ x.origin = s /\ mgmtime(s) \in Nat
  BY <1>1, MadeIsCertificate DEF CertInv
<1>3. db \in Databases /\ DOMAIN db = DOMAIN certs[s] \cup {c}
      /\ \A d \in DOMAIN certs[s] \cup {c} : db[d] = IF d = c THEN x ELSE certs[s][d]
  <2>1. PICK old \in Databases : old = certs[s]
    BY KeptCertificates
  <2>2. PICK y \in Certificates : y = x
    BY <1>2
  <2>3. /\ With(old, c, y) \in Databases
        /\ DOMAIN With(old, c, y) = DOMAIN old \cup {c}
        /\ \A d \in DOMAIN old \cup {c} : With(old, c, y)[d] = IF d = c THEN y ELSE old[d]
    BY WithDatabase
  <2> HIDE DEF x
  <2> QED BY <2>1, <2>2, <2>3
<1>4. ASSUME NEW d \in DOMAIN db
      PROVE  db[d].creation <= mgmtime(db[d].origin) /\ db[d].origin \in Trusted[s] \cup {s}
  <2> HIDE DEF x, db
  <2>1. CASE d = c
    <3>1. db[d] = x
      BY <1>3, <2>1
    <3> QED BY <1>2, <3>1
  <2>2. CASE d # c
    BY <1>3, <1>4, <2>2, KeptCertificates
  <2> QED BY <2>1, <2>2
<1>5. packets \in Seq(Packets) /\ \A i \in DOMAIN packets : packets[i] = sent
  BY <1>2 DEF Packets, Cert
<1>6. sent.cid = c /\ sent.cert = x
  BY DEF Cert
<1>7. Issue(s, db, packets) /\ file' \in [Servers -> Files]
  BY DEF Modify, CertInv, CertTypeOK
<1> HIDE DEF x, db, packets, sent
<1> QED BY <1>3, <1>4, <1>5, <1>6, <1>7, IssueAuthentic

LEMMA DeleteAuthentic ==
    ASSUME CertInv, NEW s \in Servers, NEW c \in Cids, Delete(s, c)
    PROVE  CertInv'
<1> DEFINE db == Without(certs[s], c)
           gone == Cert(s, "delete", c, certs[s][c])
           packets == <<gone>>
<1>1. db \in Databases /\ DOMAIN db = DOMAIN certs[s] \ {c}
      /\ \A d \in DOMAIN certs[s] \ {c} : db[d] = certs[s][d]
  BY KeptCertificates, WithoutDatabase
<1>2. \A d \in DOMAIN db : db[d].creation <= mgmtime(db[d].origin) /\ db[d].origin \in Trusted[s] \cup {s}
  BY <1>1, KeptCertificates
<1>3. c \in DOMAIN certs[s] /\ certs[s][c] \in Certificates
  BY KeptCertificates DEF Delete
<1>4. packets \in Seq(Packets) /\ \A i \in DOMAIN packets : packets[i] = gone
  BY <1>3 DEF Packets, Cert
<1>5. gone.cid = c /\ gone.cert = certs[s][c]
  BY DEF Cert
<1>6. Issue(s, db, packets) /\ file' \in [Servers -> Files]
  BY DEF Delete, CertInv, CertTypeOK
<1> HIDE DEF db, packets, gone
<1> QED BY <1>1, <1>2, <1>3, <1>4, <1>5, <1>6, IssueAuthentic

\* readcert leaves the certificates of the file: what was there, or made now.
LEMMA ReadFromDatabase ==
    ASSUME CertInv, NEW s \in Servers, NEW f \in Files
    PROVE  /\ ReadFrom(s, f) \in Databases
           /\ DOMAIN ReadFrom(s, f) = DOMAIN f
           /\ Unchanged(s, f) \subseteq DOMAIN f \cap DOMAIN certs[s]
           /\ \A c \in Unchanged(s, f) : ReadFrom(s, f)[c] = certs[s][c]
           /\ \A c \in DOMAIN f \ Unchanged(s, f) :
                 ReadFrom(s, f)[c].creation = mgmtime(s) /\ ReadFrom(s, f)[c].origin = s
<1> DEFINE db == ReadFrom(s, f)
<1>1. DOMAIN f \subseteq Cids /\ \A c \in DOMAIN f : f[c] \in Lines
  BY FileDef
<1>2. DOMAIN db = DOMAIN f /\ db = [c \in DOMAIN db |-> db[c]]
  BY DEF ReadFrom
<1>3. ASSUME NEW c \in Unchanged(s, f)
      PROVE  /\ c \in DOMAIN f \cap DOMAIN certs[s]
             /\ db[c] = certs[s][c]
             /\ db[c] \in Certificates
  <2>1. db[c] = certs[s][c] /\ c \in DOMAIN f \cap DOMAIN certs[s]
    BY <1>3 DEF ReadFrom, Unchanged
  <2> QED BY <2>1, KeptCertificates
<1>4. ASSUME NEW c \in DOMAIN f \ Unchanged(s, f)
      PROVE  db[c] \in Certificates /\ db[c].creation = mgmtime(s) /\ db[c].origin = s
  <2>1. db[c] = Made(s, f[c].password, f[c].level)
    BY <1>4 DEF ReadFrom
  <2>2. f[c].password \in Passwords /\ f[c].level \in Levels
    BY <1>1 DEF Lines
  <2>3. Made(s, f[c].password, f[c].level) \in Certificates
        /\ Made(s, f[c].password, f[c].level).creation = mgmtime(s)
        /\ Made(s, f[c].password, f[c].level).origin = s
    BY <2>2, MadeIsCertificate DEF CertInv
  <2> QED BY <2>1, <2>3
<1> HIDE DEF db
<1>5. db \in Databases
  BY <1>1, <1>2, <1>3, <1>4, DatabaseDef
<1> QED BY <1>2, <1>3, <1>4, <1>5 DEF db

\* What a packet of readcert says: a line that is not as it was, or a loss.
ChangeOf(s, f, p) ==
    \/ /\ p.mode = "delete"
       /\ p.cid \in DOMAIN certs[s] \ DOMAIN f
       /\ p.cert = certs[s][p.cid]
    \/ /\ p.mode = IF p.cid \in DOMAIN certs[s] THEN "modify" ELSE "add"
       /\ p.cid \in DOMAIN f \ Unchanged(s, f)
       /\ p.cert = ReadFrom(s, f)[p.cid]

\* The packets of readcert tell each change, and each once.
LEMMA ChangesPackets ==
    ASSUME CertInv, NEW s \in Servers, NEW f \in Files
    PROVE  /\ Changes(s, f) \in Seq(Packets)
           /\ \A i \in DOMAIN Changes(s, f) : ChangeOf(s, f, Changes(s, f)[i])
           /\ \A c \in (DOMAIN f \ Unchanged(s, f)) \cup (DOMAIN certs[s] \ DOMAIN f) :
                 \E i \in DOMAIN Changes(s, f) : Changes(s, f)[i].cid = c
           /\ \A i, j \in DOMAIN Changes(s, f) :
                 Changes(s, f)[i].cid = Changes(s, f)[j].cid => i = j
<1> DEFINE fresh == DOMAIN f \ Unchanged(s, f)
           stale == DOMAIN certs[s] \ DOMAIN f
           new == SetToSeq(fresh)
           gone == SetToSeq(stale)
           db == ReadFrom(s, f)
           added == [i \in DOMAIN new |->
                        Cert(s, IF new[i] \in DOMAIN certs[s] THEN "modify" ELSE "add",
                             new[i], db[new[i]])]
           losses == [i \in DOMAIN gone |-> Cert(s, "delete", gone[i], certs[s][gone[i]])]
           all == added \o losses
<1>1. IsFiniteSet(fresh) /\ IsFiniteSet(stale) /\ DOMAIN f \subseteq Cids
  <2>1. DOMAIN f \subseteq Cids
    BY FileDef
  <2> QED BY <2>1, KeptCertificates, FS_Subset, CertificatesAssumption
<1>2. db \in Databases /\ DOMAIN db = DOMAIN f
  BY ReadFromDatabase
<1>3. new \in Seq(fresh) /\ gone \in Seq(stale)
  BY <1>1, SetToSeqElements
<1>4. /\ \A x \in fresh : \E i \in DOMAIN new : new[i] = x
      /\ \A i, j \in DOMAIN new : new[i] = new[j] => i = j
      /\ \A x \in stale : \E i \in DOMAIN gone : gone[i] = x
      /\ \A i, j \in DOMAIN gone : gone[i] = gone[j] => i = j
  <2> HIDE DEF fresh, stale
  <2> QED BY <1>1, SetToSeqEach
<1>5. /\ DOMAIN new = 1..Len(new) /\ Len(new) \in Nat /\ \A i \in DOMAIN new : new[i] \in fresh
      /\ DOMAIN gone = 1..Len(gone) /\ Len(gone) \in Nat
      /\ \A i \in DOMAIN gone : gone[i] \in stale
  <2> HIDE DEF fresh, stale, new, gone
  <2> QED BY <1>3
<1>6. fresh \cap stale = {}
  OBVIOUS
<1>7. ASSUME NEW i \in DOMAIN added
      PROVE  /\ added[i] \in Packets
             /\ added[i].cid = new[i] /\ new[i] \in fresh
             /\ ChangeOf(s, f, added[i])
  <2>1. PICK c \in DOMAIN f \ Unchanged(s, f) : c = new[i]
    BY <1>5
  <2>2. PICK x \in Certificates : x = ReadFrom(s, f)[c]
    BY <1>2, <2>1, DatabaseDef
  <2>3. PICK mode \in {"add", "delete", "modify"} :
           mode = IF c \in DOMAIN certs[s] THEN "modify" ELSE "add"
    OBVIOUS
  <2>4. PICK p \in Packets : p = Cert(s, mode, c, x) /\ p.mode = mode /\ p.cid = c /\ p.cert = x
    BY <1>1, CertPacket
  <2>5. added[i] = p
    BY <2>1, <2>2, <2>3, <2>4
  <2>6. ChangeOf(s, f, p)
    BY <2>2, <2>3, <2>4 DEF ChangeOf
  <2> HIDE DEF added, new
  <2> QED BY <2>1, <2>4, <2>5, <2>6
<1>8. ASSUME NEW i \in DOMAIN losses
      PROVE  /\ losses[i] \in Packets
             /\ losses[i].cid = gone[i] /\ gone[i] \in stale
             /\ ChangeOf(s, f, losses[i])
  <2>1. PICK c \in DOMAIN certs[s] \ DOMAIN f : c = gone[i]
    BY <1>5
  <2>2. PICK x \in Certificates : x = certs[s][c]
    BY KeptCertificates
  <2>3. PICK p \in Packets : /\ p = Cert(s, "delete", c, x)
                             /\ p.mode = "delete" /\ p.cid = c /\ p.cert = x
    BY KeptCertificates, CertPacket
  <2>4. losses[i] = p
    BY <2>1, <2>2, <2>3
  <2>5. ChangeOf(s, f, p)
    BY <2>2, <2>3 DEF ChangeOf
  <2> HIDE DEF losses, gone
  <2> QED BY <2>1, <2>3, <2>4, <2>5
<1>9. /\ added \in [1..Len(new) -> Packets] /\ DOMAIN added = 1..Len(new)
      /\ losses \in [1..Len(gone) -> Packets] /\ DOMAIN losses = 1..Len(gone)
  <2>1. DOMAIN added = 1..Len(new) /\ DOMAIN losses = 1..Len(gone)
    BY <1>5
  <2> QED BY <1>7, <1>8, <2>1
<1>10. Changes(s, f) = all
  BY DEF Changes
<1> HIDE DEF fresh, stale, new, gone, db, added, losses
<1>11. added \in Seq(Packets) /\ losses \in Seq(Packets)
       /\ Len(added) = Len(new)
  BY <1>5, <1>9
<1>12. /\ all \in Seq(Packets)
       /\ \A i \in DOMAIN added : i \in DOMAIN all /\ all[i] = added[i]
       /\ \A k \in DOMAIN losses :
             Len(added) + k \in DOMAIN all /\ all[Len(added) + k] = losses[k]
       /\ \A i \in DOMAIN all : i \in DOMAIN added
             \/ (i - Len(added) \in DOMAIN losses /\ i = Len(added) + (i - Len(added)))
  BY <1>11, ConcatElements
<1> HIDE DEF all
<1>13. \A i \in DOMAIN all : ChangeOf(s, f, all[i])
  BY <1>7, <1>8, <1>12
<1>14. \A c \in fresh \cup stale : \E i \in DOMAIN all : all[i].cid = c
  <2>1. \A c \in fresh : \E i \in DOMAIN all : all[i].cid = c
    BY <1>4, <1>5, <1>7, <1>9, <1>12
  <2>2. ASSUME NEW c \in stale PROVE \E i \in DOMAIN all : all[i].cid = c
    <3>1. PICK k \in DOMAIN gone : gone[k] = c
      BY <1>4
    <3>2. k \in DOMAIN losses /\ losses[k].cid = c
      BY <1>5, <1>8, <1>9, <3>1
    <3> QED BY <1>12, <3>2
  <2> QED BY <2>1, <2>2
<1>15. ASSUME NEW i \in DOMAIN all, NEW j \in DOMAIN all, all[i].cid = all[j].cid
       PROVE  i = j
  <2>1. CASE i \in DOMAIN added /\ j \in DOMAIN added
    BY <1>4, <1>5, <1>7, <1>9, <1>12, <1>15, <2>1
  <2>2. CASE i \in DOMAIN added /\ j \notin DOMAIN added
    <3>1. PICK k \in DOMAIN losses : j = Len(added) + k
      BY <1>12, <2>2
    <3>2. all[i].cid \in fresh /\ all[j].cid \in stale
      BY <1>7, <1>8, <1>12, <2>2, <3>1
    <3> QED BY <1>6, <1>15, <3>2
  <2>3. CASE i \notin DOMAIN added /\ j \in DOMAIN added
    <3>1. PICK k \in DOMAIN losses : i = Len(added) + k
      BY <1>12, <2>3
    <3>2. all[j].cid \in fresh /\ all[i].cid \in stale
      BY <1>7, <1>8, <1>12, <2>3, <3>1
    <3> QED BY <1>6, <1>15, <3>2
  <2>4. CASE i \notin DOMAIN added /\ j \notin DOMAIN added
    <3>1. PICK k \in DOMAIN losses : i = Len(added) + k
      BY <1>12, <2>4
    <3>2. PICK m \in DOMAIN losses : j = Len(added) + m
      BY <1>12, <2>4
    <3>3. gone[k] = gone[m]
      BY <1>8, <1>12, <1>15, <3>1, <3>2
    <3>4. k = m
      BY <1>4, <1>5, <1>9, <3>3
    <3> QED BY <3>1, <3>2, <3>4
  <2> QED BY <2>1, <2>2, <2>3, <2>4
<1> QED BY <1>10, <1>12, <1>13, <1>14, <1>15 DEF fresh, stale

LEMMA ReadCertAuthentic ==
    ASSUME CertInv, NEW s \in Servers, NEW f \in Files, ReadCert(s, f)
    PROVE  CertInv'
<1>1. PICK db \in Databases : db = ReadFrom(s, f)
  BY ReadFromDatabase
<1>2. PICK packets \in Seq(Packets) : packets = Changes(s, f)
  BY ChangesPackets
<1>3. ASSUME NEW c \in DOMAIN db
      PROVE  db[c].creation <= mgmtime(db[c].origin) /\ db[c].origin \in Trusted[s] \cup {s}
  <2>1. CASE c \in Unchanged(s, f)
    BY <1>1, <2>1, ReadFromDatabase, KeptCertificates
  <2>2. CASE c \notin Unchanged(s, f)
    <3>1. db[c].creation = mgmtime(s) /\ db[c].origin = s
      BY <1>1, <1>3, <2>2, ReadFromDatabase
    <3>2. mgmtime(s) \in Nat
      BY TimeType DEF CertInv
    <3> QED BY <3>1, <3>2
  <2> QED BY <2>1, <2>2
<1>4. ASSUME NEW i \in DOMAIN packets
      PROVE  LET c == packets[i].cid
             IN  \/ c \in DOMAIN db /\ packets[i].cert = db[c]
                 \/ c \in DOMAIN certs[s] /\ packets[i].cert = certs[s][c]
  BY <1>1, <1>2, ReadFromDatabase, ChangesPackets DEF ChangeOf
<1>5. Issue(s, db, packets)
  BY <1>1, <1>2 DEF ReadCert
<1>6. file' \in [Servers -> Files]
  BY DEF ReadCert, CertInv, CertTypeOK
<1> QED BY <1>3, <1>4, <1>5, <1>6, IssueAuthentic

\* What s reads was authentic, and is a packet.
LEMMA HeadAuthentic ==
    ASSUME CertInv, NEW l \in Channels, wire[l] # <<>>
    PROVE  /\ Head(wire[l]) \in Packets
           /\ Given(issued, Head(wire[l]).cid, Head(wire[l]).cert)
           /\ [wire EXCEPT ![l] = Tail(@)] \in [Channels -> Seq(Packets)]
           /\ \A k \in Channels : \A i \in DOMAIN [wire EXCEPT ![l] = Tail(@)][k] :
                 Given(issued, [wire EXCEPT ![l] = Tail(@)][k][i].cid,
                       [wire EXCEPT ![l] = Tail(@)][k][i].cert)
<1> DEFINE taken == [wire EXCEPT ![l] = Tail(@)]
<1>1. wire \in [Channels -> Seq(Packets)]
  BY DEF CertInv, CertTypeOK
<1>2. wire[l] \in Seq(Packets) /\ Len(wire[l]) > 0 /\ Head(wire[l]) = wire[l][1]
      /\ 1 \in DOMAIN wire[l]
  BY <1>1
<1>3. Head(wire[l]) \in Packets /\ Given(issued, Head(wire[l]).cid, Head(wire[l]).cert)
  BY <1>2 DEF CertInv, Wired
<1>4. taken \in [Channels -> Seq(Packets)]
  BY <1>1, <1>2
<1>5. ASSUME NEW k \in Channels, NEW i \in DOMAIN taken[k]
      PROVE  Given(issued, taken[k][i].cid, taken[k][i].cert)
  <2>1. CASE k = l
    <3>1. i + 1 \in DOMAIN wire[l] /\ taken[k][i] = wire[l][i + 1]
      BY <1>1, <1>2, <1>5, <2>1
    <3> QED BY <3>1 DEF CertInv, Wired
  <2>2. CASE k # l
    <3>1. taken[k] = wire[k]
      BY <1>1, <2>2
    <3> QED BY <1>5, <3>1 DEF CertInv, Wired
  <2> QED BY <2>1, <2>2
<1> QED BY <1>3, <1>4, <1>5

\* What is heeded and authorised changes one entry, to what the packet says.
LEMMA ExecutedDatabase ==
    ASSUME NEW old \in Databases, NEW p \in Packets, Heeded(old, p),
           NEW db, db = Executed(old, p)
    PROVE  /\ db \in Databases
           /\ \A d \in DOMAIN db :
                 \/ d \in DOMAIN old /\ db[d] = old[d]
                 \/ /\ d = p.cid
                    /\ db[d].level = p.cert.level
                    /\ db[d].creation = p.cert.creation
                    /\ db[d].origin = p.cert.origin
                    /\ d \in DOMAIN old => Newer(old, p)
<1>1. PICK c \in Cids, x \in Certificates : c = p.cid /\ x = p.cert
  BY DEF Packets
<1>2. p.mode \in {"add", "delete", "modify"}
  BY DEF Packets
<1>3. CASE p.mode = "delete"
  <2>1. db = Without(old, c)
    BY <1>1, <1>3 DEF Executed
  <2>2. db \in Databases /\ DOMAIN db = DOMAIN old \ {c}
        /\ \A d \in DOMAIN old \ {c} : db[d] = old[d]
    BY <2>1, WithoutDatabase
  <2> QED BY <2>2
<1>4. CASE p.mode = "add" /\ p.cid \in DOMAIN old
  <2>1. PICK y : y = [p.cert EXCEPT !.password = old[p.cid].password]
    OBVIOUS
  <2>2. y \in Certificates /\ y.level = p.cert.level /\ y.creation = p.cert.creation
        /\ y.origin = p.cert.origin
    <3>1. old[p.cid].password \in Passwords
      BY <1>4, DatabaseDef DEF Certificates
    <3> QED BY <1>1, <2>1, <3>1 DEF Certificates
  <2>3. Newer(old, p)
    BY <1>4 DEF Heeded
  <2>4. db = With(old, c, y)
    BY <1>1, <1>4, <2>1 DEF Executed
  <2>5. db \in Databases /\ DOMAIN db = DOMAIN old \cup {c}
        /\ \A d \in DOMAIN old \cup {c} : db[d] = IF d = c THEN y ELSE old[d]
    <3>1. /\ With(old, c, y) \in Databases
          /\ DOMAIN With(old, c, y) = DOMAIN old \cup {c}
          /\ \A d \in DOMAIN old \cup {c} : With(old, c, y)[d] = IF d = c THEN y ELSE old[d]
      BY <2>2, WithDatabase
    <3> QED BY <2>4, <3>1
  <2> QED BY <1>1, <2>2, <2>3, <2>5
<1>5. CASE p.mode # "delete" /\ ~(p.mode = "add" /\ p.cid \in DOMAIN old)
  <2>1. db = With(old, c, x)
    BY <1>1, <1>5 DEF Executed
  <2>2. p.cid \in DOMAIN old => Newer(old, p)
    BY <1>2, <1>5 DEF Heeded
  <2>3. db \in Databases /\ DOMAIN db = DOMAIN old \cup {c}
        /\ \A d \in DOMAIN old \cup {c} : db[d] = IF d = c THEN x ELSE old[d]
    <3>1. /\ With(old, c, x) \in Databases
          /\ DOMAIN With(old, c, x) = DOMAIN old \cup {c}
          /\ \A d \in DOMAIN old \cup {c} : With(old, c, x)[d] = IF d = c THEN x ELSE old[d]
      BY WithDatabase
    <3> QED BY <2>1, <3>1
  <2> QED BY <1>1, <2>2, <2>3
<1> QED BY <1>3, <1>4, <1>5

LEMMA ReceiveAuthentic ==
    ASSUME CertInv, NEW s \in Servers, NEW n \in Peers, Receive(s, n)
    PROVE  CertInv'
<1> DEFINE p == Head(wire[<<n, s>>])
           taken == Taken(n, s)
<1>1. /\ p \in Packets
      /\ Given(issued, p.cid, p.cert)
      /\ taken \in [Channels -> Seq(Packets)]
      /\ \A k \in Channels : \A i \in DOMAIN taken[k] :
            Given(issued, taken[k][i].cid, taken[k][i].cert)
  <2>1. <<n, s>> \in Channels /\ wire[<<n, s>>] # <<>>
    BY PeersChannels DEF Receive, Arrived
  <2> QED BY <2>1, HeadAuthentic DEF Taken
<1>2. UNCHANGED <<file, clock, issued>>
  BY DEF Receive
<1>3. certs' \in [Servers -> Databases] /\ Authentic'
  <2>1. CASE UNCHANGED certs
    BY <1>2, <2>1 DEF CertInv, CertTypeOK, Authentic
  <2>2. CASE /\ Heeded(certs[s], p)
             /\ Authorized(s, p)
             /\ certs' = [certs EXCEPT ![s] = Executed(certs[s], p)]
    <3> HIDE DEF p
    <3>0. PICK db : db = Executed(certs[s], p)
      OBVIOUS
    <3>1. db \in Databases /\ \A d \in DOMAIN db :
             \/ d \in DOMAIN certs[s] /\ db[d] = certs[s][d]
             \/ /\ d = p.cid
                /\ db[d].level = p.cert.level
                /\ db[d].creation = p.cert.creation
                /\ db[d].origin = p.cert.origin
      <4>1. PICK old \in Databases : old = certs[s]
        BY KeptCertificates
      <4>2. PICK q \in Packets : q = p
        BY <1>1
      <4> QED BY <2>2, <3>0, <4>1, <4>2, ExecutedDatabase
    <3>2. ASSUME NEW d \in DOMAIN db
          PROVE  Given(issued', d, db[d]) /\ db[d].origin \in Trusted[s] \cup {s}
      <4>1. CASE d \in DOMAIN certs[s] /\ db[d] = certs[s][d]
        BY <1>2, <4>1 DEF CertInv, Authentic
      <4>2. CASE /\ d = p.cid
                 /\ db[d].level = p.cert.level
                 /\ db[d].creation = p.cert.creation
                 /\ db[d].origin = p.cert.origin
        BY <1>1, <1>2, <2>2, <4>2 DEF Given, Authorized
      <4> QED BY <3>1, <3>2, <4>1, <4>2
    <3>3. certs' = [certs EXCEPT ![s] = db] /\ issued \subseteq issued'
      BY <1>2, <2>2, <3>0
    <3> QED BY <3>1, <3>2, <3>3, StaysAuthentic
  <2> QED BY <2>1, <2>2 DEF Receive
<1>4. wire' \in [Channels -> Seq(Packets)] /\ Wired'
  <2>1. CASE wire' = taken
    BY <1>1, <1>2, <2>1 DEF Wired
  <2>2. CASE Transmit(s, <<p>>, Neighbours(s) \ {n}, taken)
    <3> HIDE DEF p, taken
    <3>1. <<p>> \in Seq(Packets) /\ \A i \in DOMAIN <<p>> : <<p>>[i] = p
      BY <1>1
    <3>2. \A i \in DOMAIN <<p>> : Given(issued', <<p>>[i].cid, <<p>>[i].cert)
      BY <1>1, <1>2, <3>1
    <3>3. \A k \in Channels : \A i \in DOMAIN taken[k] :
              Given(issued', taken[k][i].cid, taken[k][i].cert)
      BY <1>1, <1>2
    <3>4. Given(issued', p.cid, p.cert)
      BY <1>1, <1>2
    <3> DEFINE packets == <<p>>
    <3> HIDE DEF packets
    <3> QED BY <1>1, <2>2, <3>1, <3>2, <3>3, TransmitAuthentic DEF packets
  <2> QED BY <2>1, <2>2 DEF Receive
<1> QED BY <1>2, <1>3, <1>4 DEF CertInv, CertTypeOK, Dated, mgmtime

LEMMA IgnoreAuthentic ==
    ASSUME CertInv, NEW s \in Servers, NEW n \in Peers, Ignore(s, n)
    PROVE  CertInv'
<1>1. UNCHANGED <<certs, file, clock, issued>> /\ wire' = Taken(n, s)
  BY DEF Ignore
<1>2. wire' \in [Channels -> Seq(Packets)] /\ Wired'
  <2>1. <<n, s>> \in Channels /\ wire[<<n, s>>] # <<>>
    BY PeersChannels DEF Ignore, Arrived
  <2> QED BY <1>1, <2>1, HeadAuthentic DEF Taken, Wired
<1> QED BY <1>1, <1>2 DEF CertInv, CertTypeOK, Dated, Authentic, mgmtime

\* A feed holds what is kept, each certificate once.
LEMMA FeedPackets ==
    ASSUME CertInv, NEW s \in Servers
    PROVE  /\ Feed(s) \in Seq(Packets)
           /\ \A i \in DOMAIN Feed(s) :
                 /\ Feed(s)[i].mode = "add"
                 /\ Feed(s)[i].cid \in DOMAIN certs[s]
                 /\ Feed(s)[i].cert = certs[s][Feed(s)[i].cid]
           /\ \A c \in DOMAIN certs[s] : \E i \in DOMAIN Feed(s) : Feed(s)[i].cid = c
           /\ \A i, j \in DOMAIN Feed(s) : Feed(s)[i].cid = Feed(s)[j].cid => i = j
<1> DEFINE known == SetToSeq(DOMAIN certs[s])
           fed == [i \in DOMAIN known |-> Cert(s, "add", known[i], certs[s][known[i]])]
<1>1. IsFiniteSet(DOMAIN certs[s])
  BY KeptCertificates
<1>2. known \in Seq(DOMAIN certs[s])
  BY <1>1, SetToSeqElements
<1>3. /\ \A x \in DOMAIN certs[s] : \E i \in DOMAIN known : known[i] = x
      /\ \A i, j \in DOMAIN known : known[i] = known[j] => i = j
  BY <1>1, SetToSeqEach
<1>4. /\ DOMAIN known = 1..Len(known) /\ Len(known) \in Nat
      /\ \A i \in DOMAIN known : known[i] \in DOMAIN certs[s]
  <2> HIDE DEF known
  <2> QED BY <1>2
<1>5. Feed(s) = fed
  BY DEF Feed
<1>6. DOMAIN fed = DOMAIN known
  OBVIOUS
<1>7. ASSUME NEW i \in DOMAIN known
      PROVE  /\ fed[i] \in Packets /\ fed[i].mode = "add"
             /\ fed[i].cid = known[i] /\ fed[i].cert = certs[s][known[i]]
  <2>1. PICK c \in DOMAIN certs[s] : c = known[i]
    BY <1>4
  <2>2. PICK x \in Certificates : x = certs[s][c]
    BY KeptCertificates
  <2>3. PICK p \in Packets : /\ p = Cert(s, "add", c, x)
                             /\ p.mode = "add" /\ p.cid = c /\ p.cert = x
    BY KeptCertificates, CertPacket
  <2>4. fed[i] = p
    BY <2>1, <2>2, <2>3
  <2> HIDE DEF fed, known
  <2> QED BY <2>1, <2>2, <2>3, <2>4
<1> HIDE DEF fed, known
<1>8. fed \in Seq(Packets)
  <2>1. fed \in [1..Len(known) -> Packets]
    <3>1. fed = [i \in DOMAIN known |-> fed[i]]
      BY DEF fed
    <3> QED BY <1>4, <1>7, <3>1
  <2> QED BY <1>4, <2>1
<1> QED BY <1>3, <1>4, <1>5, <1>6, <1>7, <1>8

LEMMA NewUserAuthentic ==
    ASSUME CertInv, NEW s \in Servers, NEW n, NEW before,
           NEW wires \in [Channels -> Seq(Packets)],
           \A l \in Channels : \A i \in DOMAIN wires[l] :
               Given(issued, wires[l][i].cid, wires[l][i].cert),
           NewUser(s, n, before, wires)
    PROVE  CertInv'
<1>1. UNCHANGED <<certs, file, clock, issued>>
  BY DEF NewUser
<1>2. PICK packets \in Seq(Packets) : packets = Feed(s)
  BY FeedPackets
<1>3. \A i \in DOMAIN packets : Given(issued', packets[i].cid, packets[i].cert)
  BY <1>1, <1>2, FeedPackets DEF CertInv, Authentic
<1>4. Transmit(s, packets, {n}, wires)
  BY <1>2 DEF NewUser
<1>5. wire' \in [Channels -> Seq(Packets)] /\ Wired'
  BY <1>1, <1>3, <1>4, TransmitAuthentic
<1> QED BY <1>1, <1>5 DEF CertInv, CertTypeOK, Dated, Authentic, mgmtime

\* When nothing under way has to move.
LEMMA NewUserNow ==
    ASSUME CertInv, NEW s \in Servers, NEW n, NewUser(s, n, links, wire)
    PROVE  CertInv'
<1>1. /\ wire \in [Channels -> Seq(Packets)]
      /\ \A l \in Channels : \A i \in DOMAIN wire[l] :
            Given(issued, wire[l][i].cid, wire[l][i].cert)
  BY DEF CertInv, CertTypeOK, Wired
<1> QED BY <1>1, NewUserAuthentic

\* What is under way to the end that gets another name stays as it is.
Moved(s, n, g) == [wire EXCEPT ![<<g, n>>] = wire[<<s, n>>], ![<<s, n>>] = <<>>]

LEMMA MovedTypes ==
    ASSUME CertTypeOK, NEW s \in Servers, NEW n \in Servers, NEW g \in Stubs
    PROVE  /\ Moved(s, n, g) \in [Channels -> Seq(Packets)]
           /\ Moved(s, n, g)[<<g, n>>] = wire[<<s, n>>]
           /\ Moved(s, n, g)[<<s, n>>] = <<>>
<1>1. g # s
  BY CertificatesAssumption
<1>2. <<g, n>> \in Channels /\ <<s, n>> \in Channels
  BY PeersChannels
<1>3. wire \in [Channels -> Seq(Packets)] /\ <<>> \in Seq(Packets)
  BY DEF CertTypeOK
<1> QED BY <1>1, <1>2, <1>3 DEF Moved

LEMMA MovedElse ==
    ASSUME CertTypeOK, NEW s \in Servers, NEW n \in Servers, NEW g \in Stubs,
           NEW l \in Channels, l # <<g, n>>, l # <<s, n>>
    PROVE  Moved(s, n, g)[l] = wire[l]
  BY DEF CertTypeOK, Moved

LEMMA DialAuthentic ==
    ASSUME CertInv, NEW s \in Servers, NEW n \in Servers,
           Connect(s, n) \/ \E g \in Stubs : Reconnect(s, n, g)
    PROVE  CertInv'
<1>1. CASE Connect(s, n)
  <2>1. NewUser(s, n, links, wire)
    BY <1>1 DEF Connect
  <2> QED BY <2>1, NewUserNow
<1>2. ASSUME NEW g \in Stubs, Reconnect(s, n, g)
      PROVE  CertInv'
  <2>1. PICK before : NewUser(s, n, before, Moved(s, n, g))
    BY <1>2 DEF Reconnect, Moved
  <2>2. CertTypeOK
    BY DEF CertInv
  <2>3. PICK wires \in [Channels -> Seq(Packets)] :
           /\ wires = Moved(s, n, g)
           /\ wires[<<g, n>>] = wire[<<s, n>>]
           /\ wires[<<s, n>>] = <<>>
    BY <2>2, MovedTypes
  <2>4. \A l \in Channels : l # <<g, n>> /\ l # <<s, n>> => wires[l] = wire[l]
    BY <2>2, <2>3, MovedElse
  <2>5. ASSUME NEW l \in Channels, NEW i \in DOMAIN wires[l]
        PROVE  Given(issued, wires[l][i].cid, wires[l][i].cert)
    <3>1. DOMAIN <<>> = {}
      OBVIOUS
    <3>2. l # <<s, n>>
      BY <2>3, <2>5, <3>1
    <3>3. PICK k \in Channels : wires[l] = wire[k]
      BY <2>3, <2>4, <3>2, PeersChannels
    <3> QED BY <2>5, <3>3 DEF CertInv, Wired
  <2> QED BY <2>1, <2>3, <2>5, NewUserAuthentic
<1> QED BY <1>1, <1>2

LEMMA AcceptAuthentic ==
    ASSUME CertInv, NEW s \in Servers, NEW n \in Peers, Accept(s, n)
    PROVE  CertInv'
<1>1. NewUser(s, n, links, wire)
  BY DEF Accept
<1> QED BY <1>1, NewUserNow

LEMMA RemoveUserAuthentic ==
    ASSUME CertInv, NEW s \in Servers, NEW n \in Peers, RemoveUser(s, n)
    PROVE  CertInv'
<1>1. UNCHANGED <<certs, file, clock, issued>> /\ wire' = [wire EXCEPT ![<<n, s>>] = <<>>]
      /\ <<n, s>> \in Channels
  BY PeersChannels DEF RemoveUser
<1>2. wire' \in [Channels -> Seq(Packets)] /\ Wired'
  <2>1. wire' \in [Channels -> Seq(Packets)]
    BY <1>1 DEF CertInv, CertTypeOK
  <2>2. \A l \in Channels : wire'[l] = <<>> \/ wire'[l] = wire[l]
    BY <1>1 DEF CertInv, CertTypeOK
  <2>3. DOMAIN <<>> = {}
    OBVIOUS
  <2> QED BY <1>1, <2>1, <2>2, <2>3 DEF CertInv, Wired
<1> QED BY <1>1, <1>2 DEF CertInv, CertTypeOK, Dated, Authentic, mgmtime

LEMMA CrashAuthentic ==
    ASSUME CertInv, NEW s \in Servers, Crash(s)
    PROVE  CertInv'
<1> DEFINE db == [c \in DOMAIN file[s] |-> Made(s, file[s][c].password, file[s][c].level)]
<1>1. /\ certs' = [certs EXCEPT ![s] = db]
      /\ issued' = issued \cup Listed(db)
      /\ issued \subseteq issued'
      /\ UNCHANGED <<file, clock>>
  BY DEF Crash
<1>2. file[s] \in Files
  BY DEF CertInv, CertTypeOK
<1>3. DOMAIN file[s] \subseteq Cids /\ \A c \in DOMAIN file[s] : file[s][c] \in Lines
  BY <1>2, FileDef
<1>4. DOMAIN db = DOMAIN file[s] /\ db = [c \in DOMAIN db |-> db[c]]
  OBVIOUS
<1>5. ASSUME NEW c \in DOMAIN db
      PROVE  db[c] \in Certificates /\ db[c].creation = mgmtime(s) /\ db[c].origin = s
  <2>1. file[s][c].password \in Passwords /\ file[s][c].level \in Levels
    BY <1>3 DEF Lines
  <2> QED BY <2>1, MadeIsCertificate DEF CertInv
<1> HIDE DEF db
<1>6. db \in Databases
  BY <1>3, <1>4, <1>5, DatabaseDef
<1>7. ASSUME NEW c \in DOMAIN db PROVE Given(issued', c, db[c])
  <2> DEFINE v == [cid |-> c, cert |-> db[c]]
  <2>1. v \in issued'
    BY <1>1 DEF Listed
  <2>2. v.cid = c /\ v.cert = db[c]
    OBVIOUS
  <2> HIDE DEF v
  <2> QED BY <2>1, <2>2 DEF Given
<1>8. certs' \in [Servers -> Databases] /\ Authentic'
  BY <1>1, <1>5, <1>6, <1>7, StaysAuthentic
<1>9. wire' \in [Channels -> Seq(Packets)] /\ Wired'
  <2>1. \A l \in Channels : wire'[l] = <<>> \/ wire'[l] = wire[l]
    BY DEF Crash, CertInv, CertTypeOK
  <2>2. wire' = [l \in Channels |-> wire'[l]]
    BY DEF Crash
  <2>3. wire' \in [Channels -> Seq(Packets)]
    <3>1. wire \in [Channels -> Seq(Packets)] /\ <<>> \in Seq(Packets)
      BY DEF CertInv, CertTypeOK
    <3>2. \A l \in Channels : wire'[l] \in Seq(Packets)
      BY <2>1, <3>1
    <3> QED BY <2>2, <3>2
  <2>4. \A c, x : Given(issued, c, x) => Given(issued', c, x)
    BY <1>1, GivenStays
  <2>5. DOMAIN <<>> = {}
    OBVIOUS
  <2> QED BY <1>1, <2>1, <2>3, <2>4, <2>5 DEF CertInv, Wired
<1>10. issued' \subseteq [cid : Cids, cert : Certificates]
  BY <1>1, <1>6, DatabaseDef DEF Listed, CertInv, CertTypeOK
<1>11. Dated'
  <2>1. mgmtime(s) \in Nat
    BY CertificatesAssumption DEF CertInv, CertTypeOK, mgmtime
  <2>2. \A v \in Listed(db) : v.cert.creation <= mgmtime(v.cert.origin)'
    BY <1>1, <1>5, <2>1 DEF Listed, mgmtime
  <2>3. \A v \in issued : v.cert.creation <= mgmtime(v.cert.origin)'
    BY <1>1 DEF CertInv, Dated, mgmtime
  <2> QED BY <1>1, <2>2, <2>3 DEF Dated
<1> QED BY <1>1, <1>8, <1>9, <1>10, <1>11 DEF CertInv, CertTypeOK
-----------------------------------------------------------------------------
LEMMA InitAuthentic ==
    ASSUME Init
    PROVE  CertInv
<1>1. Empty \in Databases /\ Empty \in Files /\ DOMAIN Empty = {}
  BY DatabaseDef, FileDef DEF Empty
<1>2. CertTypeOK
  BY <1>1 DEF Init, CertTypeOK
<1>3. Dated /\ Authentic /\ Wired
  BY <1>1 DEF Init, Dated, Authentic, Wired
<1> QED BY <1>2, <1>3 DEF CertInv

LEMMA NextAuthentic ==
    ASSUME CertInv, [Next]_vars
    PROVE  CertInv'
<1>1. CASE Tick
  <2>1. UNCHANGED <<certs, file, wire, issued>> /\ clock' = clock + 1
    BY <1>1 DEF Tick, net, history
  <2>2. CertTypeOK' /\ Authentic' /\ Wired'
    BY <2>1 DEF CertInv, CertTypeOK, Authentic, Wired
  <2>3. Dated'
    <3>1. ASSUME NEW v \in issued PROVE v.cert.creation <= mgmtime(v.cert.origin)'
      <4>1. v.cert.origin \in Servers /\ v.cert.creation \in Nat
        BY DEF CertInv, CertTypeOK, Certificates
      <4>2. v.cert.creation <= clock + Offset[v.cert.origin]
        BY DEF CertInv, Dated, mgmtime
      <4>3. clock \in Nat /\ Offset[v.cert.origin] \in Nat
        BY <4>1, CertificatesAssumption DEF CertInv, CertTypeOK
      <4> QED BY <2>1, <4>1, <4>2, <4>3 DEF mgmtime
    <3> QED BY <2>1, <3>1 DEF Dated
  <2> QED BY <2>2, <2>3 DEF CertInv
<1>2. ASSUME NEW s \in Servers, NEW c \in Cids, NEW l \in Levels, NEW w \in Passwords,
             Add(s, c, w, l)
      PROVE  CertInv'
  BY <1>2, AddAuthentic
<1>3. ASSUME NEW s \in Servers, NEW c \in Cids, NEW l \in Levels, Modify(s, c, l)
      PROVE  CertInv'
  BY <1>3, ModifyAuthentic
<1>4. ASSUME NEW s \in Servers, NEW c \in Cids, Delete(s, c)
      PROVE  CertInv'
  BY <1>4, DeleteAuthentic
<1>5. ASSUME NEW s \in Servers, NEW f \in Files, ReadCert(s, f)
      PROVE  CertInv'
  BY <1>5, ReadCertAuthentic
<1>6. ASSUME NEW s \in Servers, Crash(s)
      PROVE  CertInv'
  BY <1>6, CrashAuthentic
<1>7. ASSUME NEW s \in Servers, NEW n \in Servers,
             Connect(s, n) \/ \E g \in Stubs : Reconnect(s, n, g)
      PROVE  CertInv'
  BY <1>7, DialAuthentic
<1>8. ASSUME NEW s \in Servers, NEW n \in Peers, Fail(s, n) \/ Close(s, n)
      PROVE  CertInv'
  BY <1>8, RemoveUserAuthentic DEF Fail, Close
<1>9. ASSUME NEW s \in Servers, NEW n \in Peers,
             Accept(s, n) \/ Receive(s, n) \/ Ignore(s, n)
      PROVE  CertInv'
  BY <1>9, AcceptAuthentic, ReceiveAuthentic, IgnoreAuthentic
<1>10. CASE UNCHANGED vars
  BY <1>10 DEF vars, net, history, CertInv, CertTypeOK, Dated, Authentic, Wired, mgmtime
<1> QED BY <1>1, <1>2, <1>3, <1>4, <1>5, <1>6, <1>7, <1>8, <1>9, <1>10 DEF Next

\* The inductive invariant of the certificates.
THEOREM CertInvariant == Spec => []CertInv
<1>1. Init => CertInv
  BY InitAuthentic
<1>2. CertInv /\ [Next]_vars => CertInv'
  BY NextAuthentic
<1> QED BY <1>1, <1>2, PTL DEF Spec

(***************************************************************************)
(* What a server keeps was made by the server it names, as it says, and    *)
(* that server is trusted: execcert, readcert and the feed keep time and   *)
(* origin together.                                                        *)
(***************************************************************************)
THEOREM AuthenticCorrect == Spec => []Authentic
<1>1. CertInv => Authentic
  BY DEF CertInv
<1> QED BY <1>1, CertInvariant, PTL

\* The certificates, the files and the packets have their types.
THEOREM CertTypesCorrect == Spec => []CertTypeOK
<1>1. CertInv => CertTypeOK
  BY DEF CertInv
<1> QED BY <1>1, CertInvariant, PTL

-----------------------------------------------------------------------------
(***************************************************************************)
(* s changes its database to db, and tells all that is new in it or gone,  *)
(* each certificate once.                                                  *)
(***************************************************************************)
Tells(s, db, packets) ==
    /\ \A i \in DOMAIN packets :
          LET p == packets[i]
          IN  IF p.mode = "delete"
              THEN p.cid \in DOMAIN certs[s] \ DOMAIN db /\ p.cert = certs[s][p.cid]
              ELSE /\ p.cid \in DOMAIN db
                   /\ p.cert = db[p.cid]
                   /\ p.cert.creation = mgmtime(s)
                   /\ p.cert.origin = s
                   /\ p.mode = IF p.cid \in DOMAIN certs[s] THEN "modify" ELSE "add"
    /\ \A c \in DOMAIN db \cup DOMAIN certs[s] :
          \/ c \in DOMAIN db \cap DOMAIN certs[s] /\ db[c] = certs[s][c]
          \/ \E i \in DOMAIN packets : packets[i].cid = c
    /\ \A i, j \in DOMAIN packets : packets[i].cid = packets[j].cid => i = j

LEMMA AddTells ==
    ASSUME CertInv, NEW s \in Servers, NEW c \in Cids,
           NEW w \in Passwords, NEW l \in Levels, Add(s, c, w, l)
    PROVE  \E db \in Databases, packets \in Seq(Packets) :
               Issue(s, db, packets) /\ Tells(s, db, packets)
<1>1. PICK x \in Certificates : x = Made(s, w, l) /\ x.creation = mgmtime(s) /\ x.origin = s
  BY MadeIsCertificate DEF CertInv
<1>2. PICK db \in Databases : db = With(certs[s], c, x)
  <2>1. PICK old \in Databases : old = certs[s]
    BY KeptCertificates
  <2>2. With(old, c, x) \in Databases
    BY WithDatabase
  <2> QED BY <2>1, <2>2
<1>3. DOMAIN db = DOMAIN certs[s] \cup {c}
      /\ \A d \in DOMAIN db : db[d] = IF d = c THEN x ELSE certs[s][d]
  BY <1>2 DEF With
<1>4. PICK p \in Packets : p = Cert(s, "add", c, x) /\ p.mode = "add" /\ p.cid = c /\ p.cert = x
  BY CertPacket
<1>5. PICK packets \in Seq(Packets) : packets = <<p>> /\ DOMAIN packets = {1} /\ packets[1] = p
  BY OnePacket
<1>6. Issue(s, db, packets) /\ c \notin DOMAIN certs[s]
  BY <1>1, <1>2, <1>4, <1>5 DEF Add
<1>7. Tells(s, db, packets)
  BY <1>1, <1>3, <1>4, <1>5, <1>6 DEF Tells
<1> QED BY <1>6, <1>7

LEMMA ModifyTells ==
    ASSUME CertInv, NEW s \in Servers, NEW c \in Cids,
           NEW l \in Levels, Modify(s, c, l)
    PROVE  \E db \in Databases, packets \in Seq(Packets) :
               Issue(s, db, packets) /\ Tells(s, db, packets)
<1>0. certs[s][c].password \in Passwords /\ c \in DOMAIN certs[s]
  BY KeptCertificates DEF Modify, Certificates
<1>1. PICK x \in Certificates : /\ x = Made(s, certs[s][c].password, l)
                                /\ x.creation = mgmtime(s) /\ x.origin = s
  BY <1>0, MadeIsCertificate DEF CertInv
<1>2. PICK db \in Databases : db = With(certs[s], c, x)
  <2>1. PICK old \in Databases : old = certs[s]
    BY KeptCertificates
  <2>2. With(old, c, x) \in Databases
    BY WithDatabase
  <2> QED BY <2>1, <2>2
<1>3. DOMAIN db = DOMAIN certs[s] \cup {c}
      /\ \A d \in DOMAIN db : db[d] = IF d = c THEN x ELSE certs[s][d]
  BY <1>2 DEF With
<1>4. PICK p \in Packets : /\ p = Cert(s, "modify", c, x)
                           /\ p.mode = "modify" /\ p.cid = c /\ p.cert = x
  BY CertPacket
<1>5. PICK packets \in Seq(Packets) : packets = <<p>> /\ DOMAIN packets = {1} /\ packets[1] = p
  BY OnePacket
<1>6. Issue(s, db, packets)
  BY <1>1, <1>2, <1>4, <1>5 DEF Modify
<1>7. Tells(s, db, packets)
  BY <1>0, <1>1, <1>3, <1>4, <1>5 DEF Tells
<1> QED BY <1>6, <1>7

LEMMA DeleteTells ==
    ASSUME CertInv, NEW s \in Servers, NEW c \in Cids, Delete(s, c)
    PROVE  \E db \in Databases, packets \in Seq(Packets) :
               Issue(s, db, packets) /\ Tells(s, db, packets)
<1>1. certs[s] \in Databases /\ c \in DOMAIN certs[s] /\ certs[s][c] \in Certificates
  BY KeptCertificates DEF Delete
<1>2. PICK db \in Databases : db = Without(certs[s], c)
  BY <1>1, WithoutDatabase
<1>3. DOMAIN db = DOMAIN certs[s] \ {c} /\ \A d \in DOMAIN db : db[d] = certs[s][d]
  BY <1>2 DEF Without
<1>4. PICK p \in Packets : /\ p = Cert(s, "delete", c, certs[s][c])
                           /\ p.mode = "delete" /\ p.cid = c /\ p.cert = certs[s][c]
  BY <1>1, CertPacket
<1>5. PICK packets \in Seq(Packets) : packets = <<p>> /\ DOMAIN packets = {1} /\ packets[1] = p
  BY OnePacket
<1>6. Issue(s, db, packets)
  BY <1>2, <1>4, <1>5 DEF Delete
<1>7. Tells(s, db, packets)
  BY <1>1, <1>3, <1>4, <1>5 DEF Tells
<1> QED BY <1>6, <1>7

LEMMA ReadCertTells ==
    ASSUME CertInv, NEW s \in Servers, NEW f \in Files, ReadCert(s, f)
    PROVE  \E db \in Databases, packets \in Seq(Packets) :
               Issue(s, db, packets) /\ Tells(s, db, packets)
<1>1. PICK db \in Databases : db = ReadFrom(s, f)
  BY ReadFromDatabase
<1>2. PICK packets \in Seq(Packets) : packets = Changes(s, f)
  BY ChangesPackets
<1>3. Issue(s, db, packets)
  BY <1>1, <1>2 DEF ReadCert
<1>4. DOMAIN db = DOMAIN f
      /\ \A c \in DOMAIN f \ Unchanged(s, f) : db[c].creation = mgmtime(s) /\ db[c].origin = s
  BY <1>1, ReadFromDatabase
<1>5. \A i \in DOMAIN packets : ChangeOf(s, f, packets[i])
  BY <1>2, ChangesPackets
<1>6. ASSUME NEW c \in DOMAIN db \cup DOMAIN certs[s]
      PROVE  \/ c \in DOMAIN db \cap DOMAIN certs[s] /\ db[c] = certs[s][c]
             \/ \E i \in DOMAIN packets : packets[i].cid = c
  <2>1. CASE c \in Unchanged(s, f)
    BY <1>1, <1>4, <2>1, ReadFromDatabase
  <2>2. CASE c \notin Unchanged(s, f)
    <3>1. c \in (DOMAIN f \ Unchanged(s, f)) \cup (DOMAIN certs[s] \ DOMAIN f)
      BY <1>4, <1>6, <2>2
    <3> QED BY <1>2, <3>1, ChangesPackets
  <2> QED BY <2>1, <2>2
<1>7. \A i, j \in DOMAIN packets : packets[i].cid = packets[j].cid => i = j
  BY <1>2, ChangesPackets
<1>8. ASSUME NEW i \in DOMAIN packets
      PROVE  LET p == packets[i]
             IN  IF p.mode = "delete"
                 THEN p.cid \in DOMAIN certs[s] \ DOMAIN db /\ p.cert = certs[s][p.cid]
                 ELSE /\ p.cid \in DOMAIN db
                      /\ p.cert = db[p.cid]
                      /\ p.cert.creation = mgmtime(s)
                      /\ p.cert.origin = s
                      /\ p.mode = IF p.cid \in DOMAIN certs[s] THEN "modify" ELSE "add"
  BY <1>1, <1>4, <1>5 DEF ChangeOf
<1>9. Tells(s, db, packets)
  BY <1>6, <1>7, <1>8 DEF Tells
<1> QED BY <1>3, <1>9

\* Commands and files, all alike.
Changed(s) ==
    \/ \E c \in Cids, l \in Levels : \/ \E w \in Passwords : Add(s, c, w, l)
                                     \/ Modify(s, c, l)
    \/ \E c \in Cids : Delete(s, c)
    \/ \E f \in Files : ReadCert(s, f)

LEMMA ChangedTells ==
    ASSUME CertInv, NEW s \in Servers, Changed(s)
    PROVE  \E db \in Databases, packets \in Seq(Packets) :
               Issue(s, db, packets) /\ Tells(s, db, packets)
<1>1. ASSUME NEW c \in Cids, NEW l \in Levels, NEW w \in Passwords, Add(s, c, w, l)
      PROVE  \E db \in Databases, packets \in Seq(Packets) :
                 Issue(s, db, packets) /\ Tells(s, db, packets)
  BY <1>1, AddTells
<1>2. ASSUME NEW c \in Cids, NEW l \in Levels, Modify(s, c, l)
      PROVE  \E db \in Databases, packets \in Seq(Packets) :
                 Issue(s, db, packets) /\ Tells(s, db, packets)
  BY <1>2, ModifyTells
<1>3. ASSUME NEW c \in Cids, Delete(s, c)
      PROVE  \E db \in Databases, packets \in Seq(Packets) :
                 Issue(s, db, packets) /\ Tells(s, db, packets)
  BY <1>3, DeleteTells
<1>4. ASSUME NEW f \in Files, ReadCert(s, f)
      PROVE  \E db \in Databases, packets \in Seq(Packets) :
                 Issue(s, db, packets) /\ Tells(s, db, packets)
  BY <1>4, ReadCertTells
<1> QED BY <1>1, <1>2, <1>3, <1>4 DEF Changed

\* What a server can do, for the proofs that go by actions.
LEMMA NextCases ==
    ASSUME [Next]_vars
    PROVE  \/ Tick
           \/ \E s \in Servers :
                 \/ Changed(s)
                 \/ Crash(s)
                 \/ \E n \in Servers : \/ Connect(s, n)
                                       \/ \E g \in Stubs : Reconnect(s, n, g)
                 \/ \E n \in Peers : \/ Accept(s, n) \/ Fail(s, n) \/ Close(s, n)
                                     \/ Receive(s, n) \/ Ignore(s, n)
           \/ UNCHANGED vars
  BY DEF Next, Changed
-----------------------------------------------------------------------------
(***************************************************************************)
(* LevelsAgree.  What has to be true between the steps is that nothing a   *)
(* server has of a certificate is forgotten on a connection: the other end *)
(* has it too, or a packet that will give it is under way.                 *)
(***************************************************************************)
\* The connections lead from servers to peers, and one end is held once.
Ends ==
    /\ links \cup knocks \subseteq Servers \X Peers
    /\ links \cap knocks = {}
    /\ \A s, n \in Servers : <<s, n>> \in links \cup knocks =>
          s # n /\ (<<s, n>> \in Topology \/ <<n, s>> \in Topology)

\* Who has not accepted has not written.
Unasked(wires) ==
    \A s, n \in Servers : <<n, s>> \in knocks =>
        <<s, n>> \in Topology /\ wires[<<n, s>>] = <<>>

\* What is under way, someone will read.
HasReader(wires) ==
    \A s \in Servers, n \in Peers :
        wires[<<n, s>>] # <<>> => <<s, n>> \in links \cup knocks

\* As long as nothing is lost, both sides know of each other.
Whole ==
    \/ lost
    \/ /\ links \cup knocks \subseteq Servers \X Servers
       /\ \A s, n \in Servers : <<n, s>> \in knocks => <<s, n>> \in links

LinksInv == Ends /\ Unasked(wire) /\ HasReader(wire) /\ Whole

\* What x writes to y will be read.
Live(x, y) == <<x, y>> \in links /\ <<y, x>> \in links \cup knocks

\* The second at which c was changed last, as far as db goes.
Second(db, c) == IF c \in DOMAIN db THEN db[c].creation ELSE -1

\* No packet of w about c is newer than a.
NotAhead(a, w, c) == \A i \in DOMAIN w : w[i].cid = c => w[i].cert.creation <= a

\* Who has b of c and reads the packets w will have at least a.
Covered(a, b, w, c) ==
    \/ b >= a
    \/ \E i \in DOMAIN w :
          /\ w[i].cid = c
          /\ w[i].cert.creation >= a
          /\ b >= 0 \/ \E j \in 1..i : w[j].cid = c /\ w[j].mode = "add"

Copied(x, y, c) ==
    /\ NotAhead(Second(certs[x], c), wire[<<x, y>>], c)
    /\ Covered(Second(certs[x], c), Second(certs[y], c), wire[<<x, y>>], c)

\* Only what was deleted is told to be deleted.
DeletionsTold ==
    \A x \in Peers, y \in Servers : \A i \in DOMAIN wire[<<x, y>>] :
        wire[<<x, y>>][i].mode = "delete" => wire[<<x, y>>][i].cid \in deleted

CopiesInv ==
    /\ DeletionsTold
    /\ \A c \in Plain : \A x, y \in Listing(OriginsOf(c)) :
          Live(x, y) => Copied(x, y, c)

-----------------------------------------------------------------------------
\* What is on the wires after s has written to some.
LEMMA TransmitTold ==
    ASSUME NEW s, NEW packets, NEW to, NEW wires, Transmit(s, packets, to, wires),
           NEW x \in Peers, NEW y \in Servers,
           x = s /\ y \in to /\ <<y, s>> \in links' \cup knocks'
    PROVE  wire'[<<x, y>>] = wires[<<x, y>>] \o packets
  BY PeersChannels DEF Transmit

LEMMA TransmitElse ==
    ASSUME NEW s, NEW packets, NEW to, NEW wires, Transmit(s, packets, to, wires),
           NEW x \in Peers, NEW y \in Servers,
           ~(x = s /\ y \in to /\ <<y, s>> \in links' \cup knocks')
    PROVE  wire'[<<x, y>>] = wires[<<x, y>>]
  BY PeersChannels DEF Transmit

\* The two together.
LEMMA Written ==
    ASSUME NEW s, NEW packets, NEW to, NEW wires, Transmit(s, packets, to, wires)
    PROVE  \A x \in Peers, y \in Servers :
               wire'[<<x, y>>] =
                   IF x = s /\ y \in to /\ <<y, s>> \in links' \cup knocks'
                   THEN wires[<<x, y>>] \o packets ELSE wires[<<x, y>>]
  BY PeersChannels DEF Transmit

LEMMA WireTypes ==
    ASSUME CertTypeOK
    PROVE  \A x \in Peers, y \in Servers : wire[<<x, y>>] \in Seq(Packets)
  BY PeersChannels DEF CertTypeOK

\* Writing to neighbours: only where someone reads.
LEMMA SendLinks ==
    ASSUME LinksInv, UNCHANGED <<links, knocks, lost>>, NEW s \in Servers,
           NEW packets, NEW to \in SUBSET Neighbours(s), NEW wires,
           \A x \in Peers, y \in Servers : wire[<<x, y>>] = <<>> => wires[<<x, y>>] = <<>>,
           Transmit(s, packets, to, wires)
    PROVE  LinksInv'
<1>1. ASSUME NEW t \in Servers, NEW n \in Servers, <<n, t>> \in knocks
      PROVE  <<t, n>> \in Topology /\ wire'[<<n, t>>] = <<>>
  <2>1. wire[<<n, t>>] = <<>> /\ <<n, t>> \notin links /\ <<t, n>> \in Topology
    BY <1>1 DEF LinksInv, Ends, Unasked
  <2>2. ~(n = s /\ t \in to /\ <<t, s>> \in links' \cup knocks')
    BY <2>1 DEF Neighbours
  <2>3. n \in Peers
    BY PeersChannels
  <2>4. wire'[<<n, t>>] = wires[<<n, t>>]
    BY <2>2, <2>3, TransmitTold, TransmitElse
  <2> QED BY <2>1, <2>3, <2>4
<1>2. ASSUME NEW t \in Servers, NEW n \in Peers, wire'[<<n, t>>] # <<>>
      PROVE  <<t, n>> \in links \cup knocks
  <2>1. CASE n = s /\ t \in to /\ <<t, s>> \in links' \cup knocks'
    BY <2>1
  <2>2. CASE ~(n = s /\ t \in to /\ <<t, s>> \in links' \cup knocks')
    <3>1. wire'[<<n, t>>] = wires[<<n, t>>]
      BY <2>2, TransmitTold, TransmitElse
    <3> QED BY <1>2, <3>1 DEF LinksInv, HasReader
  <2> QED BY <2>1, <2>2
<1>3. Ends' /\ Whole'
  BY DEF LinksInv, Ends, Whole
<1> QED BY <1>1, <1>2, <1>3 DEF LinksInv, Unasked, HasReader

\* Taking a packet from a wire.
LEMMA TakenTypes ==
    ASSUME CertTypeOK, NEW s \in Servers, NEW n \in Peers, Arrived(s, n)
    PROVE  /\ Taken(n, s) \in [Channels -> Seq(Packets)]
           /\ Taken(n, s)[<<n, s>>] = Tail(wire[<<n, s>>])
<1>1. wire \in [Channels -> Seq(Packets)] /\ wire[<<n, s>>] # <<>> /\ <<n, s>> \in Channels
  BY PeersChannels DEF CertTypeOK, Arrived
<1>2. wire[<<n, s>>] \in Seq(Packets)
  BY <1>1
<1>3. Tail(wire[<<n, s>>]) \in Seq(Packets)
  BY <1>1, <1>2
<1> QED BY <1>1, <1>3 DEF Taken

LEMMA TakenElse ==
    ASSUME CertTypeOK, NEW s \in Servers, NEW n \in Peers, Arrived(s, n),
           NEW x \in Peers, NEW y \in Servers, <<x, y>> # <<n, s>>
    PROVE  Taken(n, s)[<<x, y>>] = wire[<<x, y>>]
<1>1. wire \in [Channels -> Seq(Packets)] /\ <<x, y>> \in Channels
  BY PeersChannels DEF CertTypeOK
<1> QED BY <1>1 DEF Taken

LEMMA TakenNothing ==
    ASSUME CertTypeOK, NEW s \in Servers, NEW n \in Peers, Arrived(s, n),
           NEW x \in Peers, NEW y \in Servers, wire[<<x, y>>] = <<>>
    PROVE  Taken(n, s)[<<x, y>>] = <<>>
<1>1. <<x, y>> # <<n, s>>
  BY DEF Arrived
<1> QED BY <1>1, TakenElse

LEMMA ReceiveLinks ==
    ASSUME CertTypeOK, LinksInv, NEW s \in Servers, NEW n \in Peers, Receive(s, n)
    PROVE  LinksInv'
<1>1. UNCHANGED <<links, knocks, lost>> /\ Arrived(s, n)
  BY DEF Receive
<1>2. PICK taken : taken = Taken(n, s)
  OBVIOUS
<1>3. \A x \in Peers, y \in Servers : wire[<<x, y>>] = <<>> => taken[<<x, y>>] = <<>>
  BY <1>1, <1>2, TakenNothing
<1>4. CASE wire' = taken
  <2>1. Ends' /\ Whole'
    BY <1>1 DEF LinksInv, Ends, Whole
  <2>2. \A x \in Servers : x \in Peers
    BY DEF Peers
  <2> QED BY <1>1, <1>3, <1>4, <2>1, <2>2 DEF LinksInv, Unasked, HasReader
<1>5. CASE Transmit(s, <<Head(wire[<<n, s>>])>>, Neighbours(s) \ {n}, taken)
  <2>1. PICK packets, to : /\ packets = <<Head(wire[<<n, s>>])>>
                           /\ to = Neighbours(s) \ {n}
    OBVIOUS
  <2>2. to \in SUBSET Neighbours(s) /\ Transmit(s, packets, to, taken)
    BY <1>5, <2>1
  <2> QED BY <1>1, <1>3, <2>2, SendLinks
<1> QED BY <1>2, <1>4, <1>5 DEF Receive

LEMMA IgnoreLinks ==
    ASSUME CertTypeOK, LinksInv, NEW s \in Servers, NEW n \in Peers, Ignore(s, n)
    PROVE  LinksInv'
<1>1. UNCHANGED <<links, knocks>> /\ Arrived(s, n) /\ lost' /\ wire' = Taken(n, s)
  BY DEF Ignore
<1>2. \A x \in Peers, y \in Servers : wire[<<x, y>>] = <<>> => wire'[<<x, y>>] = <<>>
  BY <1>1, TakenNothing
<1>3. \A x \in Servers : x \in Peers
  BY PeersChannels
<1>4. Ends' /\ Whole'
  BY <1>1 DEF LinksInv, Ends, Whole
<1> QED BY <1>1, <1>2, <1>3, <1>4 DEF LinksInv, Unasked, HasReader

\* A new end, when the other ends and the wires are in order: what is written
\* to the new neighbour, it will read, if it has an end at all.
LEMMA NewUserLinks ==
    ASSUME Ends', Whole', NEW s \in Servers, NEW n \in Peers, NEW packets,
           <<s, n>> \in links',
           NEW wires, Transmit(s, packets, {n}, wires),
           \A x, y \in Servers : <<y, x>> \in knocks' =>
               <<x, y>> \in Topology /\ wires[<<y, x>>] = <<>>,
           \A x \in Servers, y \in Peers :
               wires[<<y, x>>] # <<>> => <<x, y>> \in links' \cup knocks'
    PROVE  LinksInv'
<1>1. ASSUME NEW x \in Servers, NEW y \in Servers, <<y, x>> \in knocks'
      PROVE  <<x, y>> \in Topology /\ wire'[<<y, x>>] = <<>>
  <2>1. ~(y = s /\ x \in {n} /\ <<x, s>> \in links' \cup knocks')
    BY <1>1 DEF Ends
  <2>2. y \in Peers
    BY PeersChannels
  <2>3. wire'[<<y, x>>] = wires[<<y, x>>]
    BY <2>1, <2>2, TransmitTold, TransmitElse
  <2> QED BY <1>1, <2>3
<1>2. ASSUME NEW x \in Servers, NEW y \in Peers, wire'[<<y, x>>] # <<>>
      PROVE  <<x, y>> \in links' \cup knocks'
  <2>1. CASE y = s /\ x \in {n} /\ <<x, s>> \in links' \cup knocks'
    BY <2>1
  <2>2. CASE ~(y = s /\ x \in {n} /\ <<x, s>> \in links' \cup knocks')
    <3>1. wire'[<<y, x>>] = wires[<<y, x>>]
      BY <2>2, TransmitTold, TransmitElse
    <3> QED BY <1>2, <3>1
  <2> QED BY <2>1, <2>2
<1> QED BY <1>1, <1>2 DEF LinksInv, Unasked, HasReader

LEMMA ConnectLinks ==
    ASSUME LinksInv, NEW s \in Servers, NEW n \in Servers, Connect(s, n)
    PROVE  LinksInv'
<1>1. PICK packets : packets = Feed(s)
  OBVIOUS
<1>2. /\ links' = links \cup {<<s, n>>}
      /\ knocks' = knocks \cup {<<n, s>>}
      /\ <<s, n>> \in Topology /\ <<s, n>> \notin links
      /\ <<n, s>> \notin links \cup knocks
      /\ lost' = lost
      /\ Transmit(s, packets, {n}, wire)
  BY <1>1 DEF Connect, NewUser
<1>3. <<n, s>> \notin Topology /\ s # n
  BY <1>2, CertificatesAssumption
<1>4. <<s, n>> \notin knocks
  BY <1>3 DEF LinksInv, Unasked
<1>5. Ends'
  BY <1>2, <1>3, <1>4, PeersChannels DEF LinksInv, Ends
<1>6. Whole'
  BY <1>2 DEF LinksInv, Whole
<1>7. ASSUME NEW x \in Servers, NEW y \in Servers, <<y, x>> \in knocks'
      PROVE  <<x, y>> \in Topology /\ wire[<<y, x>>] = <<>>
  <2>1. CASE <<y, x>> \in knocks
    BY <2>1 DEF LinksInv, Unasked
  <2>2. CASE y = n /\ x = s
    <3>1. n \in Peers /\ <<s, n>> \notin links \cup knocks
      BY <1>2, <1>4, PeersChannels
    <3> QED BY <1>2, <2>2, <3>1 DEF LinksInv, HasReader
  <2> QED BY <1>2, <1>7, <2>1, <2>2
<1>8. ASSUME NEW x \in Servers, NEW y \in Peers, wire[<<y, x>>] # <<>>
      PROVE  <<x, y>> \in links' \cup knocks'
  BY <1>2, <1>8 DEF LinksInv, HasReader
<1>9. n \in Peers /\ <<s, n>> \in links'
  BY <1>2, PeersChannels
<1> QED BY <1>2, <1>5, <1>6, <1>7, <1>8, <1>9, NewUserLinks

\* The ends after one has got another name.
RenamedIn(n, s, g, S) == {Renamed(n, s, g, l) : l \in S}

LEMMA RenamedEnds ==
    ASSUME NEW S \in SUBSET (Servers \X Peers), NEW s \in Servers, NEW n \in Servers,
           NEW g \in Stubs, NEW R, R = RenamedIn(n, s, g, S)
    PROVE  /\ R \subseteq Servers \X Peers
           /\ \A x, y : /\ <<x, y>> \in S /\ <<x, y>> # <<n, s>> => <<x, y>> \in R
                        /\ <<n, s>> \in S => <<n, g>> \in R
                        /\ <<x, y>> \in R => \/ <<x, y>> \in S /\ <<x, y>> # <<n, s>>
                                             \/ <<n, s>> \in S /\ x = n /\ y = g
<1>1. \A l : Renamed(n, s, g, l) = IF l = <<n, s>> THEN <<n, g>> ELSE l
  BY DEF Renamed
<1>2. <<n, g>> \in Servers \X Peers
  BY PeersChannels
<1>3. R = {Renamed(n, s, g, l) : l \in S}
  BY DEF RenamedIn
<1>6. R \subseteq Servers \X Peers
  BY <1>1, <1>2, <1>3
<1>4. ASSUME NEW x, NEW y
      PROVE  /\ <<x, y>> \in S /\ <<x, y>> # <<n, s>> => <<x, y>> \in R
             /\ <<n, s>> \in S => <<n, g>> \in R
  BY <1>1, <1>3
<1>5. ASSUME NEW x, NEW y, <<x, y>> \in R
      PROVE  \/ <<x, y>> \in S /\ <<x, y>> # <<n, s>>
             \/ <<n, s>> \in S /\ x = n /\ y = g
  <2>1. PICK l \in S : <<x, y>> = Renamed(n, s, g, l)
    BY <1>3, <1>5
  <2> QED BY <1>1, <2>1
<1> QED BY <1>4, <1>5, <1>6

LEMMA ReconnectLinks ==
    ASSUME CertTypeOK, LinksInv, NEW s \in Servers, NEW n \in Servers, NEW g \in Stubs,
           Reconnect(s, n, g)
    PROVE  LinksInv'
<1>1. PICK before : before = RenamedIn(n, s, g, links)
  OBVIOUS
<1>2. PICK knocked : knocked = RenamedIn(n, s, g, knocks)
  OBVIOUS
<1>3. PICK wires : wires = Moved(s, n, g)
  OBVIOUS
<1>4. PICK packets : packets = Feed(s)
  OBVIOUS
<1>5. /\ links' = before \cup {<<s, n>>}
      /\ knocks' = knocked \cup {<<n, s>>}
      /\ <<s, n>> \in Topology /\ <<s, n>> \notin links
      /\ <<n, s>> \in links \cup knocks
      /\ <<n, g>> \notin links \cup knocks
      /\ lost'
      /\ Transmit(s, packets, {n}, wires)
  BY <1>1, <1>2, <1>3, <1>4 DEF Reconnect, NewUser, RenamedIn, Moved
<1>6. <<n, s>> \notin Topology /\ s # n /\ g \notin Servers /\ s # g
  BY <1>5, CertificatesAssumption
<1>7. <<s, n>> \notin knocks
  BY <1>6 DEF LinksInv, Unasked
<1>8. links \subseteq Servers \X Peers /\ knocks \subseteq Servers \X Peers
  BY DEF LinksInv, Ends
<1>9. /\ before \subseteq Servers \X Peers
      /\ \A x, y : /\ <<x, y>> \in links /\ <<x, y>> # <<n, s>> => <<x, y>> \in before
                   /\ <<n, s>> \in links => <<n, g>> \in before
                   /\ <<x, y>> \in before => \/ <<x, y>> \in links /\ <<x, y>> # <<n, s>>
                                             \/ <<n, s>> \in links /\ x = n /\ y = g
  BY <1>1, <1>8, RenamedEnds
<1>10. /\ knocked \subseteq Servers \X Peers
       /\ \A x, y : /\ <<x, y>> \in knocks /\ <<x, y>> # <<n, s>> => <<x, y>> \in knocked
                    /\ <<n, s>> \in knocks => <<n, g>> \in knocked
                    /\ <<x, y>> \in knocked => \/ <<x, y>> \in knocks /\ <<x, y>> # <<n, s>>
                                               \/ <<n, s>> \in knocks /\ x = n /\ y = g
  BY <1>2, <1>8, RenamedEnds
<1>11. Ends'
  <2>1. links' \cup knocks' \subseteq Servers \X Peers
    <3>1. <<s, n>> \in Servers \X Peers /\ <<n, s>> \in Servers \X Peers
      BY PeersChannels
    <3> QED BY <1>5, <1>9, <1>10, <3>1
  <2>2. ASSUME NEW x \in Servers, NEW y \in Peers, <<x, y>> \in links', <<x, y>> \in knocks'
        PROVE  FALSE
    <3>1. \A u, v : ~(<<u, v>> \in links /\ <<u, v>> \in knocks)
      BY DEF LinksInv, Ends
    <3>2. CASE <<x, y>> = <<s, n>>
      BY <1>5, <1>6, <1>7, <1>10, <2>2, <3>2
    <3>3. CASE <<x, y>> = <<n, s>>
      BY <1>5, <1>6, <1>9, <2>2, <3>3
    <3>4. CASE <<x, y>> # <<s, n>> /\ <<x, y>> # <<n, s>>
      <4>1. <<x, y>> \in before /\ <<x, y>> \in knocked
        BY <1>5, <2>2, <3>4
      <4>2. \/ <<x, y>> \in links
            \/ <<n, s>> \in links /\ x = n /\ y = g
        BY <1>9, <4>1
      <4>3. \/ <<x, y>> \in knocks
            \/ <<n, s>> \in knocks /\ x = n /\ y = g
        BY <1>10, <4>1
      <4> QED BY <1>5, <3>1, <4>2, <4>3
    <3> QED BY <3>2, <3>3, <3>4
  <2>3. ASSUME NEW x \in Servers, NEW y \in Servers, <<x, y>> \in links' \cup knocks'
        PROVE  x # y /\ (<<x, y>> \in Topology \/ <<y, x>> \in Topology)
    <3>1. \/ <<x, y>> \in links \cup knocks
          \/ <<x, y>> = <<s, n>> \/ <<x, y>> = <<n, s>>
      BY <1>5, <1>6, <1>9, <1>10, <2>3
    <3> QED BY <1>5, <1>6, <3>1 DEF LinksInv, Ends
  <2> QED BY <2>1, <2>2, <2>3 DEF Ends
<1>12. Whole'
  BY <1>5 DEF Whole
<1>13. /\ wires[<<g, n>>] = wire[<<s, n>>]
       /\ wires[<<s, n>>] = <<>>
       /\ \A l \in Channels : l # <<g, n>> /\ l # <<s, n>> => wires[l] = wire[l]
  BY <1>3, MovedTypes, MovedElse
<1>14. ASSUME NEW x \in Servers, NEW y \in Servers, <<y, x>> \in knocks'
       PROVE  <<x, y>> \in Topology /\ wires[<<y, x>>] = <<>>
  <2>1. <<y, x>> \in Channels /\ n \in Peers
    BY PeersChannels
  <2>2. y # g /\ x # g
    BY <1>6
  <2>3. CASE <<y, x>> = <<n, s>>
    <3>1. wire[<<n, s>>] = <<>>
      BY <1>5, <1>7, <2>1 DEF LinksInv, HasReader
    <3> QED BY <1>5, <1>6, <1>13, <2>1, <2>3, <3>1
  <2>4. CASE <<y, x>> # <<n, s>>
    <3>1. <<y, x>> \in knocks
      BY <1>5, <1>10, <1>14, <2>2, <2>4
    <3>2. <<x, y>> \in Topology /\ wire[<<y, x>>] = <<>>
      BY <3>1 DEF LinksInv, Unasked
    <3> QED BY <1>7, <1>13, <2>1, <2>2, <3>1, <3>2
  <2> QED BY <2>3, <2>4
<1>15. ASSUME NEW x \in Servers, NEW y \in Peers, wires[<<y, x>>] # <<>>
       PROVE  <<x, y>> \in links' \cup knocks'
  <2>1. <<y, x>> \in Channels /\ s \in Peers
    BY PeersChannels
  <2>2. CASE <<y, x>> = <<g, n>>
    BY <1>5, <1>9, <1>10, <2>2
  <2>3. CASE <<y, x>> # <<g, n>>
    <3>1. <<y, x>> # <<s, n>> /\ wires[<<y, x>>] = wire[<<y, x>>]
      BY <1>13, <1>15, <2>1, <2>3
    <3>2. <<x, y>> \in links \cup knocks
      BY <1>15, <3>1 DEF LinksInv, HasReader
    <3> QED BY <1>5, <1>9, <1>10, <3>1, <3>2
  <2> QED BY <2>2, <2>3
<1>16. n \in Peers /\ <<s, n>> \in links'
  BY <1>5, PeersChannels
<1> QED BY <1>5, <1>11, <1>12, <1>14, <1>15, <1>16, NewUserLinks

LEMMA AcceptLinks ==
    ASSUME LinksInv, NEW n \in Servers, NEW s \in Peers, Accept(n, s)
    PROVE  LinksInv'
<1>1. PICK packets : packets = Feed(n)
  OBVIOUS
<1>2. /\ <<n, s>> \in knocks
      /\ links' = links \cup {<<n, s>>}
      /\ knocks' = knocks \ {<<n, s>>}
      /\ lost' = lost
      /\ Transmit(n, packets, {s}, wire)
  BY <1>1 DEF Accept, NewUser
<1>3. Ends'
  BY <1>2 DEF LinksInv, Ends
<1>4. Whole'
  BY <1>2 DEF LinksInv, Whole
<1>5. ASSUME NEW x \in Servers, NEW y \in Servers, <<y, x>> \in knocks'
      PROVE  <<x, y>> \in Topology /\ wire[<<y, x>>] = <<>>
  BY <1>2, <1>5 DEF LinksInv, Unasked
<1>6. ASSUME NEW x \in Servers, NEW y \in Peers, wire[<<y, x>>] # <<>>
      PROVE  <<x, y>> \in links' \cup knocks'
  BY <1>2, <1>6 DEF LinksInv, HasReader
<1>7. <<n, s>> \in links'
  BY <1>2
<1> QED BY <1>2, <1>3, <1>4, <1>5, <1>6, <1>7, NewUserLinks

LEMMA RemoveUserLinks ==
    ASSUME CertTypeOK, LinksInv, NEW s \in Servers, NEW n \in Peers, RemoveUser(s, n)
    PROVE  LinksInv'
<1>1. /\ links' = links \ {<<s, n>>}
      /\ knocks' = knocks
      /\ lost'
      /\ wire' = [wire EXCEPT ![<<n, s>>] = <<>>]
  BY DEF RemoveUser
<1>2. wire'[<<n, s>>] = <<>>
      /\ \A x \in Peers, y \in Servers : <<x, y>> # <<n, s>> =>
            wire'[<<x, y>>] = wire[<<x, y>>]
  BY <1>1, PeersChannels DEF CertTypeOK
<1>3. \A x \in Servers : x \in Peers
  BY PeersChannels
<1>4. Ends' /\ Whole'
  BY <1>1 DEF LinksInv, Ends, Whole
<1>5. ASSUME NEW x \in Servers, NEW y \in Servers, <<y, x>> \in knocks'
      PROVE  <<x, y>> \in Topology /\ wire'[<<y, x>>] = <<>>
  BY <1>1, <1>2, <1>3, <1>5 DEF LinksInv, Unasked
<1>6. ASSUME NEW x \in Servers, NEW y \in Peers, wire'[<<y, x>>] # <<>>
      PROVE  <<x, y>> \in links' \cup knocks'
  BY <1>1, <1>2, <1>6 DEF LinksInv, HasReader
<1> QED BY <1>4, <1>5, <1>6 DEF LinksInv, Unasked, HasReader

LEMMA CrashLinks ==
    ASSUME LinksInv, NEW s \in Servers, Crash(s)
    PROVE  LinksInv'
<1>1. /\ links' = {l \in links : l[1] # s}
      /\ knocks' = {l \in knocks : l[1] # s}
      /\ lost'
      /\ wire' = [l \in Channels |->
                     IF l[2] = s \/ (l[1] = s /\ <<l[2], s>> \notin links \cup knocks)
                     THEN <<>> ELSE wire[l]]
  BY DEF Crash
<1>2. ASSUME NEW x \in Servers, NEW y \in Peers
      PROVE  wire'[<<y, x>>] = IF x = s \/ (y = s /\ <<x, s>> \notin links \cup knocks)
                               THEN <<>> ELSE wire[<<y, x>>]
  BY <1>1, PeersChannels
<1>3. \A x \in Servers : x \in Peers
  BY PeersChannels
<1>4. Ends' /\ Whole'
  BY <1>1 DEF LinksInv, Ends, Whole
<1>5. ASSUME NEW x \in Servers, NEW y \in Servers, <<y, x>> \in knocks'
      PROVE  <<x, y>> \in Topology /\ wire'[<<y, x>>] = <<>>
  BY <1>1, <1>2, <1>3, <1>5 DEF LinksInv, Unasked
<1>6. ASSUME NEW x \in Servers, NEW y \in Peers, wire'[<<y, x>>] # <<>>
      PROVE  <<x, y>> \in links' \cup knocks'
  <2>1. x # s /\ wire[<<y, x>>] # <<>>
    BY <1>2, <1>6
  <2>2. <<x, y>> \in links \cup knocks
    BY <2>1 DEF LinksInv, HasReader
  <2> QED BY <1>1, <2>1, <2>2
<1> QED BY <1>4, <1>5, <1>6 DEF LinksInv, Unasked, HasReader

LEMMA IssueLinks ==
    ASSUME LinksInv, NEW s \in Servers, NEW db, NEW packets, Issue(s, db, packets)
    PROVE  LinksInv'
<1>1. UNCHANGED <<links, knocks, lost>> /\ Transmit(s, packets, Neighbours(s), wire)
  BY DEF Issue
<1> QED BY <1>1, SendLinks

LEMMA NextLinks ==
    ASSUME CertTypeOK, LinksInv, [Next]_vars
    PROVE  LinksInv'
<1>1. CASE Tick
  BY <1>1 DEF Tick, net, history, LinksInv, Ends, Unasked, HasReader, Whole
<1>2. ASSUME NEW s \in Servers, Changed(s)
      PROVE  LinksInv'
  BY <1>2, IssueLinks DEF Changed, Add, Modify, Delete, ReadCert
<1>3. ASSUME NEW s \in Servers, Crash(s)
      PROVE  LinksInv'
  BY <1>3, CrashLinks
<1>4. ASSUME NEW s \in Servers, NEW n \in Servers,
             Connect(s, n) \/ \E g \in Stubs : Reconnect(s, n, g)
      PROVE  LinksInv'
  BY <1>4, ConnectLinks, ReconnectLinks
<1>5. ASSUME NEW s \in Servers, NEW n \in Peers, Fail(s, n) \/ Close(s, n)
      PROVE  LinksInv'
  BY <1>5, RemoveUserLinks DEF Fail, Close
<1>6. ASSUME NEW s \in Servers, NEW n \in Peers,
             Accept(s, n) \/ Receive(s, n) \/ Ignore(s, n)
      PROVE  LinksInv'
  BY <1>6, AcceptLinks, ReceiveLinks, IgnoreLinks
<1>7. CASE UNCHANGED vars
  BY <1>7 DEF vars, net, history, LinksInv, Ends, Unasked, HasReader, Whole
<1> QED BY <1>1, <1>2, <1>3, <1>4, <1>5, <1>6, <1>7, NextCases

LEMMA LinksAlways == Spec => []LinksInv
<1>1. Init => LinksInv
  <2>1. \A x \in Peers, y \in Servers : <<x, y>> \in Channels
    BY PeersChannels
  <2>2. Init => HasReader(wire) /\ Unasked(wire)
    BY <2>1 DEF Init, HasReader, Unasked
  <2> QED BY <2>2 DEF Init, LinksInv, Ends, Whole
<1>2. CertInv /\ LinksInv /\ [Next]_vars => LinksInv'
  BY NextLinks DEF CertInv
<1> QED BY <1>1, <1>2, CertInvariant, PTL DEF Spec
-----------------------------------------------------------------------------
LEMMA PacketCreation ==
    ASSUME NEW p \in Packets
    PROVE  p.cert.creation \in Nat /\ p.mode \in {"add", "delete", "modify"}
  BY DEF Packets, Certificates

LEMMA SecondType ==
    ASSUME NEW db \in Databases, NEW c
    PROVE  /\ Second(db, c) \in Int
           /\ Second(db, c) >= -1
           /\ c \in DOMAIN db <=> Second(db, c) >= 0
           /\ c \in DOMAIN db => Second(db, c) = db[c].creation
<1>1. \A d \in DOMAIN db : db[d].creation \in Nat
  BY DatabaseDef DEF Certificates
<1> QED BY <1>1 DEF Second

\* Who has more is covered as well.
LEMMA CoveredMore ==
    ASSUME NEW a \in Int, NEW b \in Int, NEW more \in Int, more >= b, NEW w, NEW c,
           Covered(a, b, w, c)
    PROVE  Covered(a, more, w, c)
<1>1. b >= a => more >= a
  OBVIOUS
<1>2. b >= 0 => more >= 0
  OBVIOUS
<1> QED BY <1>1, <1>2 DEF Covered

\* More packets spoil nothing.
LEMMA CoveredAppend ==
    ASSUME NEW a \in Int, NEW b \in Int, NEW w \in Seq(Packets), NEW q \in Seq(Packets),
           NEW c, Covered(a, b, w, c)
    PROVE  Covered(a, b, w \o q, c)
<1>1. CASE b >= a
  BY <1>1 DEF Covered
<1>2. CASE ~(b >= a)
  <2>1. PICK i \in DOMAIN w : /\ w[i].cid = c
                              /\ w[i].cert.creation >= a
                              /\ b >= 0 \/ \E j \in 1..i : w[j].cid = c /\ w[j].mode = "add"
    BY <1>2 DEF Covered
  <2>2. \A j \in 1..i : j \in DOMAIN w
    OBVIOUS
  <2>3. \A j \in 1..i : (w \o q)[j] = w[j]
    BY <2>2, ConcatElements
  <2>4. i \in DOMAIN (w \o q) /\ (w \o q)[i] = w[i]
    BY ConcatElements
  <2> QED BY <2>1, <2>3, <2>4 DEF Covered
<1> QED BY <1>1, <1>2

\* The packet that tells the news comes last.
LEMMA CoveredNews ==
    ASSUME NEW a \in Int, NEW b \in Int, NEW new \in Int,
           NEW w \in Seq(Packets), NEW q \in Seq(Packets), NEW c,
           Covered(a, b, w, c), NEW k \in DOMAIN q, q[k].cid = c,
           q[k].cert.creation >= new, q[k].mode = "add" \/ a >= 0
    PROVE  Covered(new, b, w \o q, c)
<1> DEFINE m == Len(w) + k
           all == w \o q
<1>1. m \in DOMAIN all /\ all[m] = q[k] /\ m \in 1..m /\ Len(w) \in Nat /\ k \in Nat
  BY ConcatElements
<1>2. b >= 0 \/ \E j \in 1..m : all[j].cid = c /\ all[j].mode = "add"
  <2>1. CASE q[k].mode = "add"
    BY <1>1, <2>1
  <2>2. CASE a >= 0 /\ b >= a
    BY <2>2
  <2>3. CASE ~(b >= 0) /\ ~(b >= a)
    <3>1. PICK i \in DOMAIN w : \E j \in 1..i : w[j].cid = c /\ w[j].mode = "add"
      BY <2>3 DEF Covered
    <3>2. PICK j \in 1..i : w[j].cid = c /\ w[j].mode = "add"
      BY <3>1
    <3>3. j \in DOMAIN w /\ j \in 1..m
      BY <1>1
    <3>4. all[j] = w[j]
      BY <3>3, ConcatElements
    <3> QED BY <3>2, <3>3, <3>4
  <2> QED BY <2>1, <2>2, <2>3
<1> QED BY <1>1, <1>2 DEF Covered

\* Reading the first packet: afterwards there is b2, where there was b.
LEMMA CoveredTail ==
    ASSUME NEW a \in Int, NEW b \in Int, NEW b2 \in Int, b2 >= b,
           NEW w \in Seq(Packets), w # <<>>, NEW c, Covered(a, b, w, c),
           Head(w).cid = c =>
               /\ Head(w).mode # "delete"
               /\ b2 >= Head(w).cert.creation \/ (Head(w).mode = "modify" /\ b = -1)
    PROVE  Covered(a, b2, Tail(w), c)
<1> DEFINE rest == Tail(w)
<1>1. /\ rest \in Seq(Packets)
      /\ Head(w) = w[1]
      /\ \A i \in DOMAIN w : i # 1 => i - 1 \in DOMAIN rest /\ rest[i - 1] = w[i]
      /\ w[1] \in Packets
  BY TailElements
<1>2. CASE b >= a
  BY <1>2 DEF Covered
<1>3. CASE ~(b >= a)
  <2>1. PICK i \in DOMAIN w : /\ w[i].cid = c
                              /\ w[i].cert.creation >= a
                              /\ b >= 0 \/ \E j \in 1..i : w[j].cid = c /\ w[j].mode = "add"
    BY <1>3 DEF Covered
  <2>2. w[1].cert.creation \in Nat /\ w[i].cert.creation \in Nat
    BY <1>1, PacketCreation
  <2>3. i \in Nat /\ i >= 1
    OBVIOUS
  <2>4. ASSUME i = 1 PROVE b2 >= a
    <3>1. w[1].mode = "modify" /\ b = -1 => FALSE
      <4>1. \A j \in 1..i : j = 1
        BY <2>4
      <4> QED BY <2>1, <4>1
    <3>2. b2 >= w[1].cert.creation
      BY <1>1, <2>1, <2>4, <3>1
    <3> QED BY <2>1, <2>2, <2>4, <3>2
  <2>5. ASSUME i # 1
        PROVE  b2 >= 0 \/ \E j \in 1..(i - 1) : rest[j].cid = c /\ rest[j].mode = "add"
    <3>1. CASE b >= 0
      BY <3>1
    <3>2. CASE ~(b >= 0)
      <4>1. PICK j \in 1..i : w[j].cid = c /\ w[j].mode = "add"
        BY <2>1, <3>2
      <4>2. CASE j = 1
        <5>1. b2 >= w[1].cert.creation
          BY <1>1, <4>1, <4>2
        <5> QED BY <2>2, <5>1
      <4>3. CASE j # 1
        <5>1. j \in DOMAIN w /\ j - 1 \in 1..(i - 1)
          BY <4>3
        <5>2. rest[j - 1] = w[j]
          BY <1>1, <4>3, <5>1
        <5> QED BY <4>1, <5>1, <5>2
      <4> QED BY <4>2, <4>3
    <3> QED BY <3>1, <3>2
  <2>6. CASE i = 1
    BY <2>4, <2>6 DEF Covered
  <2>7. CASE i # 1
    <3>1. i - 1 \in DOMAIN rest /\ rest[i - 1] = w[i]
      BY <1>1, <2>7
    <3> HIDE DEF rest
    <3>2. Covered(a, b2, rest, c)
      BY <2>1, <2>5, <2>7, <3>1 DEF Covered
    <3> QED BY <3>2 DEF rest
  <2> QED BY <2>6, <2>7
<1> QED BY <1>2, <1>3

LEMMA NotAheadAppend ==
    ASSUME NEW a \in Int, NEW new \in Int, new >= a, NEW w \in Seq(Packets),
           NEW q \in Seq(Packets), NEW c, NotAhead(a, w, c), NotAhead(new, q, c)
    PROVE  NotAhead(new, w \o q, c)
<1> SUFFICES ASSUME NEW i \in DOMAIN (w \o q), (w \o q)[i].cid = c
             PROVE  (w \o q)[i].cert.creation <= new
  BY DEF NotAhead
<1>1. CASE i \in DOMAIN w
  <2>1. (w \o q)[i] = w[i] /\ w[i] \in Packets
    BY <1>1, ConcatElements
  <2>2. w[i].cert.creation \in Nat /\ w[i].cert.creation <= a
    BY <1>1, <2>1, PacketCreation DEF NotAhead
  <2> QED BY <2>1, <2>2
<1>2. CASE i \notin DOMAIN w
  <2>1. PICK k \in DOMAIN q : i = Len(w) + k
    BY <1>2, ConcatElements
  <2>2. (w \o q)[i] = q[k]
    BY <2>1, ConcatElements
  <2> QED BY <2>2 DEF NotAhead
<1> QED BY <1>1, <1>2

LEMMA NotAheadMore ==
    ASSUME NEW a \in Int, NEW new \in Int, new >= a, NEW w \in Seq(Packets), NEW c,
           NotAhead(a, w, c)
    PROVE  NotAhead(new, w, c)
<1> SUFFICES ASSUME NEW i \in DOMAIN w, w[i].cid = c
             PROVE  w[i].cert.creation <= new
  BY DEF NotAhead
<1>1. w[i].cert.creation \in Nat
  <2>1. w[i] \in Packets
    OBVIOUS
  <2> QED BY <2>1, PacketCreation
<1> QED BY <1>1 DEF NotAhead

LEMMA NotAheadTail ==
    ASSUME NEW a, NEW w \in Seq(Packets), w # <<>>, NEW c, NotAhead(a, w, c)
    PROVE  NotAhead(a, Tail(w), c)
  BY TailElements DEF NotAhead
-----------------------------------------------------------------------------
\* The more changes there were, the fewer servers list all who made them.
LEMMA ListingShrinks ==
    ASSUME issued \subseteq issued', NEW c
    PROVE  Listing(OriginsOf(c))' \subseteq Listing(OriginsOf(c))
  BY DEF Listing, OriginsOf

\* What a server with CertInv has of c, as a number.
LEMMA SecondKept ==
    ASSUME CertInv, NEW s \in Servers, NEW c
    PROVE  /\ Second(certs[s], c) \in Int
           /\ Second(certs[s], c) >= -1
           /\ c \in DOMAIN certs[s] <=> Second(certs[s], c) >= 0
           /\ c \in DOMAIN certs[s] => Second(certs[s], c) = certs[s][c].creation
<1>1. PICK db \in Databases : db = certs[s]
  BY KeptCertificates
<1>2. /\ Second(db, c) \in Int
      /\ Second(db, c) >= -1
      /\ c \in DOMAIN db <=> Second(db, c) >= 0
      /\ c \in DOMAIN db => Second(db, c) = db[c].creation
  BY SecondType
<1> QED BY <1>1, <1>2

LEMMA IssueCopies ==
    ASSUME CertInv, LinksInv, CopiesInv, NEW s \in Servers, NEW db \in Databases,
           NEW packets \in Seq(Packets), Issue(s, db, packets), Tells(s, db, packets)
    PROVE  CopiesInv'
<1>1. /\ certs' = [certs EXCEPT ![s] = db]
      /\ issued \subseteq issued'
      /\ deleted' = deleted \cup (DOMAIN certs[s] \ DOMAIN db)
      /\ backdated' = backdated \cup {d \in DOMAIN certs[s] \cap DOMAIN db :
                                          db[d].creation < certs[s][d].creation}
      /\ UNCHANGED <<links, knocks, dropped>>
      /\ Transmit(s, packets, Neighbours(s), wire)
  BY DEF Issue
<1>2. /\ certs'[s] = db
      /\ \A t \in Servers : t # s => certs'[t] = certs[t]
      /\ \A x \in Peers, y \in Servers : wire[<<x, y>>] \in Seq(Packets)
      /\ Servers \subseteq Peers
  <2>1. CertTypeOK
    BY DEF CertInv
  <2>2. certs \in [Servers -> Databases]
    BY <2>1 DEF CertTypeOK
  <2> QED BY <1>1, <2>1, <2>2, WireTypes, PeersChannels
<1>3. \A x \in Peers, y \in Servers :
         /\ x = s /\ y \in Neighbours(s) /\ <<y, s>> \in links \cup knocks
               => wire'[<<x, y>>] = wire[<<x, y>>] \o packets
         /\ ~(x = s /\ y \in Neighbours(s) /\ <<y, s>> \in links \cup knocks)
               => wire'[<<x, y>>] = wire[<<x, y>>]
  <2>1. \A x \in Peers, y \in Servers :
           wire'[<<x, y>>] =
               IF x = s /\ y \in Neighbours(s) /\ <<y, s>> \in links' \cup knocks'
               THEN wire[<<x, y>>] \o packets ELSE wire[<<x, y>>]
    BY <1>1, PeersChannels DEF Transmit
  <2>2. links' \cup knocks' = links \cup knocks
    BY <1>1
  <2> QED BY <2>1, <2>2
<1>4. DeletionsTold'
  <2> SUFFICES ASSUME NEW x \in Peers, NEW y \in Servers, NEW i \in DOMAIN wire'[<<x, y>>],
                      wire'[<<x, y>>][i].mode = "delete"
               PROVE  wire'[<<x, y>>][i].cid \in deleted'
    BY DEF DeletionsTold
  <2>1. PICK w \in Seq(Packets) : w = wire[<<x, y>>]
    BY <1>2
  <2>2. \A j \in DOMAIN w : w[j].mode = "delete" => w[j].cid \in deleted'
    BY <1>1, <2>1 DEF CopiesInv, DeletionsTold
  <2>3. \A j \in DOMAIN packets : packets[j].mode = "delete" => packets[j].cid \in deleted'
    BY <1>1 DEF Tells
  <2>4. CASE wire'[<<x, y>>] = w
    BY <2>2, <2>4
  <2>5. CASE wire'[<<x, y>>] = w \o packets
    BY <2>2, <2>3, <2>5, ConcatElements
  <2> QED BY <1>3, <2>1, <2>4, <2>5
<1>5. ASSUME NEW c \in Plain', NEW x \in Listing(OriginsOf(c))',
             NEW y \in Listing(OriginsOf(c))', Live(x, y)'
      PROVE  Copied(x, y, c)'
  <2>1. x \in Servers /\ y \in Servers /\ x \in Listing(OriginsOf(c))
        /\ y \in Listing(OriginsOf(c)) /\ Live(x, y) /\ c \in Plain /\ c \notin deleted' \cup backdated'
    BY <1>1, <1>5, ListingShrinks DEF Listing, Live, Plain
  <2>2. Copied(x, y, c) /\ x # y
    BY <2>1 DEF CopiesInv, Live, LinksInv, Ends
  <2>3. PICK w \in Seq(Packets) : w = wire[<<x, y>>]
    BY <1>2, <2>1
  <2>4. PICK a \in Int, b \in Int, new \in Int :
            a = Second(certs[x], c) /\ b = Second(certs[y], c) /\ new = Second(db, c)
    BY <2>1, SecondKept, SecondType
  <2>5. NotAhead(a, w, c) /\ Covered(a, b, w, c)
    BY <2>2, <2>3, <2>4 DEF Copied
  <2>6. \/ new = Second(certs[s], c)
        \/ \E i \in DOMAIN packets :
              /\ packets[i].cid = c
              /\ packets[i].cert.creation = new
              /\ packets[i].mode = "add" \/ Second(certs[s], c) >= 0
    <3>1. CASE c \notin DOMAIN db
      <4>1. c \notin DOMAIN certs[s]
        BY <1>1, <2>1, <3>1
      <4> QED BY <2>4, <3>1, <4>1 DEF Second
    <3>2. CASE c \in DOMAIN db /\ c \in DOMAIN certs[s] /\ db[c] = certs[s][c]
      BY <2>4, <3>2 DEF Second
    <3>3. CASE c \in DOMAIN db /\ \E i \in DOMAIN packets : packets[i].cid = c
      <4>1. PICK i \in DOMAIN packets : packets[i].cid = c
        BY <3>3
      <4>2. /\ packets[i].mode # "delete"
            /\ packets[i].cert = db[c]
            /\ packets[i].mode = IF c \in DOMAIN certs[s] THEN "modify" ELSE "add"
        BY <3>3, <4>1 DEF Tells
      <4>3. new = db[c].creation
        BY <2>4, <3>3, <4>2 DEF Second
      <4> QED BY <4>1, <4>2, <4>3, SecondKept
    <3> QED BY <3>1, <3>2, <3>3 DEF Tells
  <2>7. new >= Second(certs[s], c)
    <3>1. PICK old \in Int : /\ old = Second(certs[s], c)
                             /\ old >= -1
                             /\ c \notin DOMAIN certs[s] => old = -1
                             /\ c \in DOMAIN certs[s] => old = certs[s][c].creation
      BY SecondKept DEF Second
    <3>2. CASE c \notin DOMAIN certs[s]
      BY <2>4, <3>1, <3>2, SecondType
    <3>3. CASE c \in DOMAIN certs[s]
      <4>1. c \in DOMAIN db
        BY <1>1, <2>1, <3>3
      <4>2. new = db[c].creation /\ ~(db[c].creation < certs[s][c].creation)
        BY <1>1, <2>1, <2>4, <3>3, <4>1 DEF Second
      <4> QED BY <3>1, <3>3, <4>2
    <3> QED BY <3>2, <3>3
  <2>8. CASE x = s
    <3>1. wire'[<<x, y>>] = w \o packets
      <4>1. y \in Neighbours(s) /\ <<y, s>> \in links \cup knocks
        BY <1>2, <2>1, <2>8 DEF Neighbours, Live
      <4> QED BY <1>2, <1>3, <2>1, <2>3, <2>8, <4>1
    <3>2. certs'[x] = db /\ certs'[y] = certs[y]
      BY <1>2, <2>1, <2>2, <2>8
    <3>3. NotAhead(new, packets, c)
      <4> SUFFICES ASSUME NEW i \in DOMAIN packets, packets[i].cid = c
                   PROVE  packets[i].cert.creation <= new
        BY DEF NotAhead
      <4>1. packets[i].mode # "delete"
        BY <1>1, <2>1 DEF Tells
      <4>2. c \in DOMAIN db /\ packets[i].cert = db[c]
        BY <4>1 DEF Tells
      <4>3. new = db[c].creation
        BY <2>4, <4>2 DEF Second
      <4> QED BY <4>2, <4>3
    <3>4. NotAhead(new, w \o packets, c)
      BY <2>4, <2>5, <2>7, <2>8, <3>3, NotAheadAppend
    <3>5. Covered(new, b, w \o packets, c)
      <4>1. CASE new = a
        BY <2>5, <4>1, CoveredAppend
      <4>2. CASE new # a
        <5>1. PICK i \in DOMAIN packets :
                 /\ packets[i].cid = c
                 /\ packets[i].cert.creation = new
                 /\ packets[i].mode = "add" \/ a >= 0
          BY <2>4, <2>6, <2>8, <4>2
        <5> QED BY <2>5, <5>1, CoveredNews
      <4> QED BY <4>1, <4>2
    <3> QED BY <2>4, <3>1, <3>2, <3>4, <3>5 DEF Copied
  <2>9. CASE x # s
    <3>1. wire'[<<x, y>>] = w /\ certs'[x] = certs[x]
      <4>1. x \in Peers
        BY <1>2, <2>1
      <4> QED BY <1>2, <1>3, <2>1, <2>3, <2>9, <4>1
    <3>2. PICK more \in Int : more = Second(certs'[y], c) /\ more >= b
      BY <1>2, <2>1, <2>4, <2>7
    <3>3. Covered(a, more, w, c)
      BY <2>5, <3>2, CoveredMore
    <3> QED BY <2>4, <2>5, <3>1, <3>2, <3>3 DEF Copied
  <2> QED BY <2>8, <2>9
<1> QED BY <1>4, <1>5 DEF CopiesInv

(***************************************************************************)
(* Carrying out a packet about c that s is allowed to: its second becomes  *)
(* that of the packet.  A packet that is not heeded has nothing new.       *)
(***************************************************************************)
LEMMA ExecutedSecond ==
    ASSUME NEW old \in Databases, NEW p \in Packets, p.mode # "delete", Heeded(old, p),
           NEW c
    PROVE  /\ c = p.cid => /\ Second(Executed(old, p), c) = p.cert.creation
                           /\ p.cert.creation >= Second(old, c)
                           /\ p.mode = "modify" => Second(old, c) >= 0
           /\ c # p.cid => Second(Executed(old, p), c) = Second(old, c)
<1>1. p.cid \in Cids /\ p.cert \in Certificates /\ p.mode \in {"add", "modify"}
  BY DEF Packets
<1>2. p.cert.creation \in Nat
  BY PacketCreation
<1>3. /\ Second(old, c) \in Int
      /\ Second(old, c) >= -1
      /\ c \in DOMAIN old <=> Second(old, c) >= 0
      /\ c \in DOMAIN old => Second(old, c) = old[c].creation
  BY SecondType
<1>4. PICK x : Executed(old, p) = With(old, p.cid, x) /\ x.creation = p.cert.creation
  <2>1. CASE p.mode = "add" /\ p.cid \in DOMAIN old
    <3>1. PICK y : y = [p.cert EXCEPT !.password = old[p.cid].password]
      OBVIOUS
    <3>2. y.creation = p.cert.creation
      BY <1>1, <3>1 DEF Certificates
    <3>3. Executed(old, p) = With(old, p.cid, y)
      BY <2>1, <3>1 DEF Executed
    <3> QED BY <3>2, <3>3
  <2>2. CASE ~(p.mode = "add" /\ p.cid \in DOMAIN old)
    <3>1. Executed(old, p) = With(old, p.cid, p.cert)
      BY <2>2, <1>1 DEF Executed
    <3> QED BY <3>1
  <2> QED BY <2>1, <2>2
<1>5. CASE c = p.cid
  <2>1. Second(Executed(old, p), c) = p.cert.creation
    BY <1>4, <1>5 DEF With, Second
  <2>2. p.cert.creation >= Second(old, c) /\ (p.mode = "modify" => Second(old, c) >= 0)
    <3>1. PICK a \in Int, at \in Nat : a = Second(old, c) /\ at = p.cert.creation
      BY <1>2, <1>3
    <3>2. CASE c \in DOMAIN old
      <4>1. a = old[p.cid].creation /\ a >= 0
        BY <1>3, <1>5, <3>1, <3>2
      <4>2. at > a
        BY <1>1, <1>5, <3>1, <3>2, <4>1 DEF Heeded, Newer
      <4> QED BY <3>1, <4>1, <4>2
    <3>3. CASE c \notin DOMAIN old
      <4>1. p.mode # "modify"
        BY <1>5, <3>3 DEF Heeded
      <4>2. a = -1
        BY <3>1, <3>3 DEF Second
      <4> QED BY <3>1, <4>1, <4>2
    <3> QED BY <3>2, <3>3
  <2> QED BY <1>5, <2>1, <2>2
<1>6. CASE c # p.cid
  BY <1>4, <1>6 DEF With, Second
<1> QED BY <1>5, <1>6

LEMMA UnheededSecond ==
    ASSUME NEW old \in Databases, NEW p \in Packets, p.mode # "delete", ~Heeded(old, p),
           NEW c, c = p.cid
    PROVE  \/ Second(old, c) >= p.cert.creation
           \/ p.mode = "modify" /\ Second(old, c) = -1
<1>1. p.mode \in {"add", "modify"}
  BY DEF Packets
<1>2. p.cert.creation \in Nat
  BY PacketCreation
<1>3. /\ Second(old, c) \in Int
      /\ Second(old, c) >= -1
      /\ c \in DOMAIN old <=> Second(old, c) >= 0
      /\ c \in DOMAIN old => Second(old, c) = old[c].creation
  BY SecondType
<1>4. PICK a \in Int, at \in Nat : a = Second(old, c) /\ at = p.cert.creation
  BY <1>2, <1>3
<1>5. CASE c \in DOMAIN old
  <2>1. a = old[p.cid].creation
    BY <1>3, <1>4, <1>5
  <2>2. ~(at > a)
    BY <1>1, <1>4, <1>5, <2>1 DEF Heeded, Newer
  <2> QED BY <1>4, <2>2
<1>6. CASE c \notin DOMAIN old
  <2>1. p.mode = "modify"
    BY <1>1, <1>6 DEF Heeded
  <2> QED BY <1>6, <2>1 DEF Second
<1> QED BY <1>5, <1>6

LEMMA ReceiveCopies ==
    ASSUME CertInv, LinksInv, CopiesInv, NEW s \in Servers, NEW n \in Peers, Receive(s, n)
    PROVE  CopiesInv'
<1>0. CertTypeOK /\ Arrived(s, n)
  BY DEF CertInv, Receive
<1>1. /\ \A x \in Peers, y \in Servers : wire[<<x, y>>] \in Seq(Packets)
      /\ certs \in [Servers -> Databases]
      /\ Servers \subseteq Peers
  <2>1. certs \in [Servers -> Databases]
    BY <1>0 DEF CertTypeOK
  <2> QED BY <1>0, <2>1, WireTypes, PeersChannels
<1>2. PICK w0 \in Seq(Packets) : w0 = wire[<<n, s>>] /\ w0 # <<>>
  BY <1>0, <1>1 DEF Arrived
<1>3. PICK p \in Packets : p = Head(w0) /\ p = w0[1] /\ 1 \in DOMAIN w0
  BY <1>2, TailElements
<1>4. PICK taken \in [Channels -> Seq(Packets)] : taken = Taken(n, s)
  BY <1>0, TakenTypes
<1>5. /\ taken[<<n, s>>] = Tail(w0)
      /\ \A x \in Peers, y \in Servers :
            <<x, y>> # <<n, s>> => taken[<<x, y>>] = wire[<<x, y>>]
  BY <1>0, <1>2, <1>4, TakenTypes, TakenElse
<1>6. <<s, n>> \in links /\ (n \in Servers => <<n, s>> \notin knocks /\ s # n)
  BY <1>0, <1>2 DEF Arrived, LinksInv, Ends, Unasked
<1>7. /\ UNCHANGED <<links, knocks, issued, backdated, dropped>>
      /\ deleted \subseteq deleted'
  BY DEF Receive
<1>8. p.mode = "delete" => p.cid \in deleted
  BY <1>2, <1>3 DEF CopiesInv, DeletionsTold
<1>9. Given(issued, p.cid, p.cert)
  <2>1. <<n, s>> \in Channels
    BY PeersChannels
  <2> QED BY <1>2, <1>3, <2>1 DEF CertInv, Wired
<1>10. PICK q \in Seq(Packets) : q = <<p>> /\ DOMAIN q = {1} /\ q[1] = p
  BY OnePacket
<1>11. \/ /\ Heeded(certs[s], p)
          /\ IF Authorized(s, p) THEN certs' = [certs EXCEPT ![s] = Executed(@, p)]
                                 ELSE UNCHANGED certs
          /\ Transmit(s, q, Neighbours(s) \ {n}, taken)
       \/ ~Heeded(certs[s], p) /\ UNCHANGED certs /\ wire' = taken
  BY <1>2, <1>3, <1>4, <1>10 DEF Receive
<1>12. \A t \in Servers : t # s => certs'[t] = certs[t]
  BY <1>1, <1>11
<1>13. ASSUME NEW x \in Peers, NEW y \in Servers
       PROVE  \/ wire'[<<x, y>>] = taken[<<x, y>>]
              \/ /\ Heeded(certs[s], p) /\ x = s /\ y # n
                 /\ wire'[<<x, y>>] = taken[<<x, y>>] \o q
  <2>1. CASE wire' = taken
    BY <2>1
  <2>2. CASE Heeded(certs[s], p) /\ Transmit(s, q, Neighbours(s) \ {n}, taken)
    <3>1. wire'[<<x, y>>] =
              IF x = s /\ y \in Neighbours(s) \ {n} /\ <<y, s>> \in links' \cup knocks'
              THEN taken[<<x, y>>] \o q ELSE taken[<<x, y>>]
      BY <2>2, Written
    <3> QED BY <2>2, <3>1
  <2> QED BY <1>11, <2>1, <2>2
<1>14. DeletionsTold'
  <2> SUFFICES ASSUME NEW x \in Peers, NEW y \in Servers, NEW i \in DOMAIN wire'[<<x, y>>],
                      wire'[<<x, y>>][i].mode = "delete"
               PROVE  wire'[<<x, y>>][i].cid \in deleted'
    BY DEF DeletionsTold
  <2>1. PICK w \in Seq(Packets) : w = taken[<<x, y>>]
    BY <1>4, PeersChannels
  <2>2. \A j \in DOMAIN w : w[j].mode = "delete" => w[j].cid \in deleted'
    <3>1. CASE <<x, y>> = <<n, s>>
      <4>1. w = Tail(w0)
        BY <1>5, <2>1, <3>1
      <4>2. \A j \in DOMAIN w0 : w0[j].mode = "delete" => w0[j].cid \in deleted
        BY <1>2 DEF CopiesInv, DeletionsTold
      <4>3. \A j \in DOMAIN Tail(w0) : j + 1 \in DOMAIN w0 /\ Tail(w0)[j] = w0[j + 1]
        BY <1>2, TailElements
      <4> QED BY <1>7, <4>1, <4>2, <4>3
    <3>2. CASE <<x, y>> # <<n, s>>
      <4>1. w = wire[<<x, y>>]
        BY <1>5, <2>1, <3>2
      <4> QED BY <1>7, <4>1 DEF CopiesInv, DeletionsTold
    <3> QED BY <3>1, <3>2
  <2>3. CASE wire'[<<x, y>>] = w
    BY <2>2, <2>3
  <2>4. CASE wire'[<<x, y>>] = w \o q
    <3>1. \A j \in DOMAIN q : q[j].mode = "delete" => q[j].cid \in deleted'
      BY <1>7, <1>8, <1>10
    <3>2. \A j \in DOMAIN (w \o q) : \/ j \in DOMAIN w /\ (w \o q)[j] = w[j]
                                     \/ \E k \in DOMAIN q : (w \o q)[j] = q[k]
      BY ConcatElements
    <3> QED BY <2>2, <2>4, <3>1, <3>2
  <2> QED BY <1>13, <2>1, <2>3, <2>4
<1>15. ASSUME NEW c \in Plain', s \in Listing(OriginsOf(c))
       PROVE  /\ p.cid = c => p.mode # "delete"
              /\ ~Heeded(certs[s], p) => Second(certs'[s], c) = Second(certs[s], c)
              /\ p.cid # c => Second(certs'[s], c) = Second(certs[s], c)
              /\ p.cid = c /\ Heeded(certs[s], p) =>
                    /\ Second(certs'[s], c) = p.cert.creation
                    /\ p.cert.creation >= Second(certs[s], c)
                    /\ p.mode = "add" \/ Second(certs[s], c) >= 0
              /\ p.cid = c /\ ~Heeded(certs[s], p) =>
                    \/ Second(certs[s], c) >= p.cert.creation
                    \/ p.mode = "modify" /\ Second(certs[s], c) = -1
  <2>1. p.cid = c => p.mode # "delete"
    BY <1>7, <1>8, <1>15 DEF Plain
  <2>2. PICK old \in Databases : old = certs[s]
    BY <1>1
  <2>3. ~Heeded(certs[s], p) => certs'[s] = certs[s]
    BY <1>11
  <2>4. ASSUME p.cid = c, Heeded(old, p)
        PROVE  /\ Second(certs'[s], c) = p.cert.creation
               /\ p.cert.creation >= Second(certs[s], c)
               /\ p.mode = "add" \/ Second(certs[s], c) >= 0
    <3>1. p.cert.origin \in OriginsOf(c)
      BY <1>9, <2>4 DEF Given, OriginsOf
    <3>2. Authorized(s, p)
      BY <1>15, <3>1 DEF Listing, Authorized
    <3>3. certs'[s] = Executed(old, p)
      BY <1>1, <1>11, <2>2, <2>4, <3>2
    <3>4. p.mode \in {"add", "modify"}
      BY <2>1, <2>4, PacketCreation
    <3> QED BY <2>1, <2>2, <2>4, <3>3, <3>4, ExecutedSecond
  <2>5. ASSUME p.cid # c PROVE Second(certs'[s], c) = Second(certs[s], c)
    <3>1. CASE certs'[s] = certs[s]
      BY <3>1
    <3>2. CASE certs'[s] = Executed(old, p) /\ Heeded(old, p)
      <4>1. CASE p.mode = "delete"
        <5>1. certs'[s] = Without(old, p.cid)
          BY <3>2, <4>1 DEF Executed
        <5> QED BY <2>2, <2>5, <5>1 DEF Without, Second
      <4>2. CASE p.mode # "delete"
        BY <2>2, <2>5, <3>2, <4>2, ExecutedSecond
      <4> QED BY <4>1, <4>2
    <3> QED BY <1>1, <1>11, <2>2, <3>1, <3>2
  <2>6. p.cid = c /\ ~Heeded(old, p) =>
            \/ Second(old, c) >= p.cert.creation
            \/ p.mode = "modify" /\ Second(old, c) = -1
    BY <2>1, UnheededSecond
  <2> QED BY <2>1, <2>2, <2>3, <2>4, <2>5, <2>6
<1>16. ASSUME NEW c \in Plain', NEW x \in Listing(OriginsOf(c))',
              NEW y \in Listing(OriginsOf(c))', Live(x, y)'
       PROVE  Copied(x, y, c)'
  <2>1. x \in Servers /\ y \in Servers /\ x \in Listing(OriginsOf(c))
        /\ y \in Listing(OriginsOf(c)) /\ Live(x, y) /\ c \in Plain /\ x \in Peers
    BY <1>1, <1>7, <1>16, ListingShrinks DEF Listing, Live, Plain
  <2>2. Copied(x, y, c) /\ x # y
    BY <2>1 DEF CopiesInv, Live, LinksInv, Ends
  <2>3. PICK w \in Seq(Packets) : w = wire[<<x, y>>]
    BY <1>1, <2>1
  <2>4. PICK a \in Int, b \in Int : /\ a = Second(certs[x], c) /\ b = Second(certs[y], c)
                                    /\ a >= -1 /\ b >= -1
    BY <2>1, SecondKept
  <2>5. NotAhead(a, w, c) /\ Covered(a, b, w, c)
    BY <2>2, <2>3, <2>4 DEF Copied
  <2>6. p.cert.creation \in Nat
    BY PacketCreation
  <2>7. CASE x # s /\ y # s
    <3>1. wire'[<<x, y>>] = w /\ certs'[x] = certs[x] /\ certs'[y] = certs[y]
      BY <1>5, <1>12, <1>13, <2>1, <2>3, <2>7
    <3> QED BY <2>4, <2>5, <3>1 DEF Copied
  <2>8. CASE y = s
    <3>1. certs'[x] = certs[x]
      BY <1>12, <2>1, <2>2, <2>8
    <3>2. PICK more \in Int : /\ more = Second(certs'[y], c) /\ more >= b
                              /\ p.cid = c => \/ more >= p.cert.creation
                                              \/ p.mode = "modify" /\ b = -1
      BY <1>15, <2>1, <2>4, <2>6, <2>8
    <3>3. CASE x = n
      <4>1. w = w0 /\ wire'[<<x, y>>] = Tail(w)
        BY <1>2, <1>5, <1>13, <2>1, <2>2, <2>3, <2>8, <3>3
      <4>2. NotAhead(a, Tail(w), c)
        BY <1>2, <2>5, <4>1, NotAheadTail
      <4>3. Head(w).cid = c => /\ Head(w).mode # "delete"
                               /\ \/ more >= Head(w).cert.creation
                                  \/ Head(w).mode = "modify" /\ b = -1
        BY <1>3, <1>15, <2>1, <2>8, <3>2, <4>1
      <4>4. Covered(a, more, Tail(w), c)
        BY <1>2, <2>5, <3>2, <4>1, <4>3, CoveredTail
      <4> QED BY <2>4, <3>1, <3>2, <4>1, <4>2, <4>4 DEF Copied
    <3>4. CASE x # n
      <4>1. wire'[<<x, y>>] = w
        BY <1>5, <1>13, <2>1, <2>2, <2>3, <2>8, <3>4
      <4>2. Covered(a, more, w, c)
        BY <2>5, <3>2, CoveredMore
      <4> QED BY <2>4, <2>5, <3>1, <3>2, <4>1, <4>2 DEF Copied
    <3> QED BY <3>3, <3>4
  <2>9. CASE x = s
    <3>1. certs'[y] = certs[y]
      BY <1>12, <2>1, <2>2, <2>9
    <3>2. taken[<<x, y>>] = w
      BY <1>5, <2>1, <2>2, <2>3, <2>9
    <3>3. CASE Second(certs'[s], c) = a
      <4>1. CASE wire'[<<x, y>>] = w
        BY <2>4, <2>5, <2>9, <3>1, <3>3, <4>1 DEF Copied
      <4>2. CASE wire'[<<x, y>>] = w \o q /\ Heeded(certs[s], p)
        <5>1. NotAhead(a, q, c)
          BY <1>10, <1>15, <2>1, <2>6, <2>9, <3>3, <4>2 DEF NotAhead
        <5>2. NotAhead(a, w \o q, c)
          BY <2>5, <5>1, NotAheadAppend
        <5>3. Covered(a, b, w \o q, c)
          BY <2>5, CoveredAppend
        <5> QED BY <2>4, <2>9, <3>1, <3>3, <4>2, <5>2, <5>3 DEF Copied
      <4> QED BY <1>13, <2>1, <3>2, <4>1, <4>2
    <3>4. CASE Second(certs'[s], c) # a
      <4>1. p.cid = c /\ Heeded(certs[s], p)
        BY <1>15, <2>1, <2>4, <2>9, <3>4
      <4>2. PICK new \in Int : /\ new = Second(certs'[s], c) /\ new = p.cert.creation
                               /\ new >= a /\ (p.mode = "add" \/ a >= 0)
        BY <1>15, <2>1, <2>4, <2>6, <2>9, <4>1
      <4>3. CASE y = n
        <5>1. wire'[<<x, y>>] = w
          BY <1>13, <2>1, <3>2, <4>3
        <5>2. Live(n, s)
          BY <1>6, <1>7, <1>16, <2>1, <2>9, <4>3 DEF Live
        <5>3. NotAhead(b, w0, c)
          <6>1. Copied(n, s, c)
            BY <2>1, <2>9, <4>3, <5>2 DEF CopiesInv
          <6> QED BY <1>2, <2>4, <4>3, <6>1 DEF Copied
        <5>4. b >= new
          BY <1>3, <2>6, <4>1, <4>2, <5>3 DEF NotAhead
        <5>5. Covered(new, b, w, c)
          BY <5>4 DEF Covered
        <5>6. NotAhead(new, w, c)
          BY <2>5, <4>2, NotAheadMore
        <5> QED BY <2>4, <2>9, <3>1, <4>2, <5>1, <5>5, <5>6 DEF Copied
      <4>4. CASE y # n
        <5>1. wire'[<<x, y>>] = w \o q
          <6>1. y \in Neighbours(s) /\ <<y, s>> \in links' \cup knocks'
            BY <1>1, <1>7, <2>1, <2>9 DEF Neighbours, Live
          <6>2. Transmit(s, q, Neighbours(s) \ {n}, taken)
            BY <1>11, <4>1
          <6>3. y \in Neighbours(s) \ {n} /\ x = s
            BY <2>9, <4>4, <6>1
          <6>4. \A u \in Peers, v \in Servers :
                   wire'[<<u, v>>] =
                       IF u = s /\ v \in Neighbours(s) \ {n} /\ <<v, s>> \in links' \cup knocks'
                       THEN taken[<<u, v>>] \o q ELSE taken[<<u, v>>]
            BY <6>2, PeersChannels DEF Transmit
          <6>5. wire'[<<x, y>>] = taken[<<x, y>>] \o q
            BY <2>1, <6>1, <6>3, <6>4
          <6> QED BY <3>2, <6>5
        <5>2. NotAhead(new, q, c)
          BY <1>10, <4>2 DEF NotAhead
        <5>3. NotAhead(new, w \o q, c)
          BY <2>5, <4>2, <5>2, NotAheadAppend
        <5>4. Covered(new, b, w \o q, c)
          <6>1. /\ 1 \in DOMAIN q /\ q[1].cid = c
                /\ q[1].cert.creation >= new
                /\ q[1].mode = "add" \/ a >= 0
            BY <1>10, <4>1, <4>2
          <6> QED BY <2>5, <6>1, CoveredNews
        <5> QED BY <2>4, <2>9, <3>1, <4>2, <5>1, <5>3, <5>4 DEF Copied
      <4> QED BY <4>3, <4>4
    <3> QED BY <3>3, <3>4
  <2> QED BY <2>7, <2>8, <2>9
<1> QED BY <1>14, <1>16 DEF CopiesInv

\* A packet that is ignored changes nothing but what is said to be dropped.
LEMMA IgnoreCopies ==
    ASSUME CertInv, LinksInv, CopiesInv, NEW s \in Servers, NEW n \in Peers, Ignore(s, n)
    PROVE  CopiesInv'
<1>0. CertTypeOK /\ Arrived(s, n)
  BY DEF CertInv, Ignore
<1>1. /\ \A x \in Peers, y \in Servers : wire[<<x, y>>] \in Seq(Packets)
      /\ Servers \subseteq Peers
  BY <1>0, WireTypes, PeersChannels
<1>2. PICK w0 \in Seq(Packets) : w0 = wire[<<n, s>>] /\ w0 # <<>>
  BY <1>0, <1>1 DEF Arrived
<1>3. /\ UNCHANGED <<certs, links, knocks, issued, deleted, backdated>>
      /\ dropped' = dropped \cup {Head(w0).cid}
      /\ wire' = Taken(n, s)
  BY <1>2 DEF Ignore
<1>4. /\ wire'[<<n, s>>] = Tail(w0)
      /\ \A x \in Peers, y \in Servers :
            <<x, y>> # <<n, s>> => wire'[<<x, y>>] = wire[<<x, y>>]
  BY <1>0, <1>2, <1>3, TakenTypes, TakenElse
<1>5. DeletionsTold'
  <2>1. \A j \in DOMAIN Tail(w0) : j + 1 \in DOMAIN w0 /\ Tail(w0)[j] = w0[j + 1]
    BY <1>2, TailElements
  <2>2. ASSUME NEW x \in Peers, NEW y \in Servers, NEW i \in DOMAIN wire'[<<x, y>>],
               wire'[<<x, y>>][i].mode = "delete"
        PROVE  wire'[<<x, y>>][i].cid \in deleted
    <3>1. CASE <<x, y>> = <<n, s>>
      <4>1. wire'[<<x, y>>] = Tail(w0)
        BY <1>4, <3>1
      <4>2. \A j \in DOMAIN w0 : w0[j].mode = "delete" => w0[j].cid \in deleted
        BY <1>2 DEF CopiesInv, DeletionsTold
      <4> QED BY <2>1, <2>2, <4>1, <4>2
    <3>2. CASE <<x, y>> # <<n, s>>
      BY <1>4, <2>2, <3>2 DEF CopiesInv, DeletionsTold
    <3> QED BY <3>1, <3>2
  <2> QED BY <1>3, <2>2 DEF DeletionsTold
<1>6. ASSUME NEW c \in Plain', NEW x \in Listing(OriginsOf(c))',
             NEW y \in Listing(OriginsOf(c))', Live(x, y)'
      PROVE  Copied(x, y, c)'
  <2>1. x \in Servers /\ y \in Servers /\ x \in Listing(OriginsOf(c))
        /\ y \in Listing(OriginsOf(c)) /\ Live(x, y) /\ c \in Plain /\ Head(w0).cid # c
        /\ x \in Peers
    BY <1>1, <1>3, <1>6, ListingShrinks DEF Listing, Live, Plain
  <2>2. Copied(x, y, c)
    BY <2>1 DEF CopiesInv
  <2>3. CASE <<x, y>> = <<n, s>>
    <3>1. PICK a \in Int, b \in Int : /\ a = Second(certs[x], c) /\ b = Second(certs[y], c)
                                      /\ a >= -1 /\ b >= -1
      BY <2>1, SecondKept
    <3>2. NotAhead(a, w0, c) /\ Covered(a, b, w0, c)
      BY <1>2, <2>2, <2>3, <3>1 DEF Copied
    <3>3. NotAhead(a, Tail(w0), c)
      BY <1>2, <3>2, NotAheadTail
    <3>4. Covered(a, b, Tail(w0), c)
      BY <1>2, <2>1, <3>1, <3>2, CoveredTail
    <3> QED BY <1>3, <1>4, <2>3, <3>1, <3>3, <3>4 DEF Copied
  <2>4. CASE <<x, y>> # <<n, s>>
    <3>1. wire'[<<x, y>>] = wire[<<x, y>>]
      BY <1>4, <2>1, <2>4
    <3> QED BY <1>3, <2>2, <3>1 DEF Copied
  <2> QED BY <2>3, <2>4
<1> QED BY <1>5, <1>6 DEF CopiesInv

\* The feed to a new neighbour covers everything.
LEMMA NewUserCopies ==
    ASSUME CertInv, LinksInv, CopiesInv, NEW s \in Servers, NEW n \in Peers, s # n,
           NEW before, NEW wires, NewUser(s, n, before, wires),
           n \in Servers => wires[<<s, n>>] = <<>>,
           \A x \in Peers, y \in Servers : \A i \in DOMAIN wires[<<x, y>>] :
               wires[<<x, y>>][i].mode = "delete" => wires[<<x, y>>][i].cid \in deleted,
           \A x, y \in Servers : Live(x, y)' /\ <<x, y>> # <<s, n>> =>
               Live(x, y) /\ wires[<<x, y>>] = wire[<<x, y>>]
    PROVE  CopiesInv'
<1>1. UNCHANGED <<certs, issued, deleted, backdated, dropped>>
  BY DEF NewUser
<1>2. PICK packets \in Seq(Packets) : packets = Feed(s)
  BY FeedPackets
<1>3. /\ \A i \in DOMAIN packets : /\ packets[i].mode = "add"
                                   /\ packets[i].cid \in DOMAIN certs[s]
                                   /\ packets[i].cert = certs[s][packets[i].cid]
      /\ \A c \in DOMAIN certs[s] : \E i \in DOMAIN packets : packets[i].cid = c
  <2>1. \A i \in DOMAIN Feed(s) : /\ Feed(s)[i].mode = "add"
                                  /\ Feed(s)[i].cid \in DOMAIN certs[s]
                                  /\ Feed(s)[i].cert = certs[s][Feed(s)[i].cid]
    BY FeedPackets
  <2>2. \A c \in DOMAIN certs[s] : \E i \in DOMAIN Feed(s) : Feed(s)[i].cid = c
    BY FeedPackets
  <2> QED BY <1>2, <2>1, <2>2
<1>4. Transmit(s, packets, {n}, wires)
  BY <1>2 DEF NewUser
<1>5. \A x \in Peers, y \in Servers : <<x, y>> # <<s, n>> => wire'[<<x, y>>] = wires[<<x, y>>]
  <2>1. \A x \in Peers, y \in Servers :
           wire'[<<x, y>>] =
               IF x = s /\ y \in {n} /\ <<y, s>> \in links' \cup knocks'
               THEN wires[<<x, y>>] \o packets ELSE wires[<<x, y>>]
    BY <1>4, PeersChannels DEF Transmit
  <2> QED BY <2>1
<1>6. n \in Servers => /\ wire'[<<s, n>>] = <<>> \/ wire'[<<s, n>>] = packets
                       /\ <<n, s>> \in links' \cup knocks' => wire'[<<s, n>>] = packets
  <2>1. <<>> \o packets = packets /\ s \in Peers
    BY PeersChannels
  <2>2. n \in Servers => wire'[<<s, n>>] =
            IF <<n, s>> \in links' \cup knocks'
            THEN wires[<<s, n>>] \o packets ELSE wires[<<s, n>>]
    BY <1>4, <2>1, Written
  <2> QED BY <2>1, <2>2
<1>7. DeletionsTold'
  <2> SUFFICES ASSUME NEW x \in Peers, NEW y \in Servers, NEW i \in DOMAIN wire'[<<x, y>>],
                      wire'[<<x, y>>][i].mode = "delete"
               PROVE  wire'[<<x, y>>][i].cid \in deleted'
    BY DEF DeletionsTold
  <2>1. CASE <<x, y>> = <<s, n>>
    BY <1>3, <1>6, <2>1
  <2>2. CASE <<x, y>> # <<s, n>>
    <3>1. wire'[<<x, y>>] = wires[<<x, y>>]
      BY <1>5, <2>2
    <3> QED BY <1>1, <3>1
  <2> QED BY <2>1, <2>2
<1>8. ASSUME NEW c \in Plain', NEW x \in Listing(OriginsOf(c))',
             NEW y \in Listing(OriginsOf(c))', Live(x, y)'
      PROVE  Copied(x, y, c)'
  <2>1. x \in Servers /\ y \in Servers /\ x \in Listing(OriginsOf(c))
        /\ y \in Listing(OriginsOf(c)) /\ c \in Plain /\ x \in Peers
    BY <1>1, <1>8, PeersChannels, ListingShrinks DEF Listing, Plain
  <2>2. CASE <<x, y>> # <<s, n>>
    <3>1. Live(x, y) /\ wires[<<x, y>>] = wire[<<x, y>>]
      BY <1>8, <2>1, <2>2
    <3>2. Copied(x, y, c)
      BY <2>1, <3>1 DEF CopiesInv
    <3>3. wire'[<<x, y>>] = wire[<<x, y>>]
      BY <1>5, <2>1, <2>2, <3>1
    <3> QED BY <1>1, <3>2, <3>3 DEF Copied
  <2>3. CASE x = s /\ y = n
    <3>1. wire'[<<s, n>>] = packets /\ n \in Servers
      BY <1>6, <1>8, <2>1, <2>3 DEF Live
    <3>2. PICK a \in Int, b \in Int : /\ a = Second(certs[s], c) /\ b = Second(certs[n], c)
                                      /\ b >= -1
      BY <3>1, SecondKept
    <3>3. NotAhead(a, packets, c)
      BY <1>3, <3>2 DEF NotAhead, Second
    <3>4. Covered(a, b, packets, c)
      <4>1. CASE c \in DOMAIN certs[s]
        <5>1. PICK i \in DOMAIN packets : packets[i].cid = c
          BY <1>3, <4>1
        <5>2. packets[i].mode = "add" /\ packets[i].cert.creation = a
          BY <1>3, <3>2, <4>1, <5>1 DEF Second
        <5>3. i \in 1..i
          OBVIOUS
        <5> QED BY <5>1, <5>2, <5>3 DEF Covered
      <4>2. CASE c \notin DOMAIN certs[s]
        <5>1. a = -1
          BY <3>2, <4>2 DEF Second
        <5> QED BY <3>2, <5>1 DEF Covered
      <4> QED BY <4>1, <4>2
    <3> QED BY <1>1, <2>3, <3>1, <3>2, <3>3, <3>4 DEF Copied
  <2> QED BY <2>2, <2>3
<1> QED BY <1>7, <1>8 DEF CopiesInv

\* When nothing under way has to move.
LEMMA NewUserNowCopies ==
    ASSUME CertInv, LinksInv, CopiesInv, NEW s \in Servers, NEW n \in Peers, s # n,
           NewUser(s, n, links, wire), n \in Servers => wire[<<s, n>>] = <<>>,
           \A x, y \in Servers : Live(x, y)' /\ <<x, y>> # <<s, n>> => Live(x, y)
    PROVE  CopiesInv'
<1>1. DeletionsTold
  BY DEF CopiesInv
<1> QED BY <1>1, NewUserCopies DEF DeletionsTold

LEMMA ConnectCopies ==
    ASSUME CertInv, LinksInv, CopiesInv, NEW s \in Servers, NEW n \in Servers, Connect(s, n)
    PROVE  CopiesInv'
<1>1. /\ NewUser(s, n, links, wire) /\ <<s, n>> \in Topology
      /\ links' = links \cup {<<s, n>>}
      /\ knocks' = knocks \cup {<<n, s>>}
      /\ <<s, n>> \notin links /\ <<n, s>> \notin links \cup knocks
  BY DEF Connect, NewUser
<1>2. s # n /\ <<n, s>> \notin Topology
  BY <1>1, CertificatesAssumption
<1>3. s \in Peers /\ n \in Peers
  BY PeersChannels
<1>4. wire[<<s, n>>] = <<>>
  BY <1>1, <1>3 DEF LinksInv, HasReader
<1>5. \A x, y \in Servers : Live(x, y)' /\ <<x, y>> # <<s, n>> => Live(x, y)
  BY <1>1 DEF Live
<1> QED BY <1>1, <1>2, <1>3, <1>4, <1>5, NewUserNowCopies

LEMMA AcceptCopies ==
    ASSUME CertInv, LinksInv, CopiesInv, NEW s \in Servers, NEW n \in Peers, Accept(s, n)
    PROVE  CopiesInv'
<1>1. /\ NewUser(s, n, links, wire)
      /\ <<s, n>> \in knocks
      /\ links' = links \cup {<<s, n>>}
      /\ knocks' = knocks \ {<<s, n>>}
  BY DEF Accept, NewUser
<1>2. s # n
  BY <1>1, CertificatesAssumption DEF LinksInv, Ends
<1>3. n \in Servers => wire[<<s, n>>] = <<>>
  BY <1>1 DEF LinksInv, Unasked
<1>4. \A x, y \in Servers : Live(x, y)' /\ <<x, y>> # <<s, n>> => Live(x, y)
  BY <1>1 DEF Live
<1> QED BY <1>1, <1>2, <1>3, <1>4, NewUserNowCopies

\* The other side reads what was under way to it over the end it had before.
LEMMA ReconnectCopies ==
    ASSUME CertInv, LinksInv, CopiesInv, NEW s \in Servers, NEW n \in Servers,
           NEW g \in Stubs, Reconnect(s, n, g)
    PROVE  CopiesInv'
<1>1. PICK before : before = RenamedIn(n, s, g, links)
  OBVIOUS
<1>2. PICK knocked : knocked = RenamedIn(n, s, g, knocks)
  OBVIOUS
<1>3. PICK wires : wires = Moved(s, n, g)
  OBVIOUS
<1>4. /\ NewUser(s, n, before, wires)
      /\ links' = before \cup {<<s, n>>}
      /\ knocks' = knocked \cup {<<n, s>>}
      /\ <<s, n>> \in Topology /\ <<s, n>> \notin links
  BY <1>1, <1>2, <1>3 DEF Reconnect, NewUser, RenamedIn, Moved
<1>5. <<n, s>> \notin Topology /\ s # n /\ g \notin Servers
  BY <1>4, CertificatesAssumption
<1>6. links \in SUBSET (Servers \X Peers) /\ knocks \in SUBSET (Servers \X Peers)
  BY DEF LinksInv, Ends
<1>7. \A x, y : <<x, y>> \in before => \/ <<x, y>> \in links /\ <<x, y>> # <<n, s>>
                                       \/ x = n /\ y = g
  BY <1>1, <1>6 DEF RenamedIn, Renamed
<1>8. \A x, y : <<x, y>> \in knocked => \/ <<x, y>> \in knocks /\ <<x, y>> # <<n, s>>
                                        \/ x = n /\ y = g
  BY <1>2, <1>6 DEF RenamedIn, Renamed
<1>9. /\ wires[<<g, n>>] = wire[<<s, n>>]
      /\ wires[<<s, n>>] = <<>>
      /\ \A l \in Channels : l # <<g, n>> /\ l # <<s, n>> => wires[l] = wire[l]
  <2>1. CertTypeOK
    BY DEF CertInv
  <2> QED BY <1>3, <2>1, MovedTypes, MovedElse
<1>10. \A x \in Peers, y \in Servers : <<x, y>> \in Channels
  BY PeersChannels
<1>11. s \in Peers /\ n \in Peers /\ Servers \subseteq Peers
  BY PeersChannels
<1>12. ASSUME NEW x \in Servers, NEW y \in Servers, Live(x, y)', <<x, y>> # <<s, n>>
       PROVE  Live(x, y) /\ wires[<<x, y>>] = wire[<<x, y>>]
  <2>1. x # g /\ y # g
    BY <1>5
  <2>2. <<x, y>> \in links /\ <<x, y>> # <<n, s>>
    BY <1>4, <1>7, <1>12, <2>1 DEF Live
  <2>3. <<y, x>> \in links' \/ <<y, x>> \in knocks'
    BY <1>12 DEF Live
  <2>4. <<y, x>> # <<n, s>> /\ <<y, x>> # <<s, n>>
    BY <1>12, <2>2
  <2>5. <<y, x>> \in links \cup knocks
    BY <1>4, <1>7, <1>8, <2>1, <2>3, <2>4
  <2>6. wires[<<x, y>>] = wire[<<x, y>>]
    BY <1>9, <1>10, <1>11, <1>12, <2>1
  <2> QED BY <2>2, <2>5, <2>6 DEF Live
<1>13. ASSUME NEW x \in Peers, NEW y \in Servers, NEW i \in DOMAIN wires[<<x, y>>],
              wires[<<x, y>>][i].mode = "delete"
       PROVE  wires[<<x, y>>][i].cid \in deleted
  <2>1. DOMAIN <<>> = {}
    OBVIOUS
  <2>2. <<x, y>> # <<s, n>>
    BY <1>9, <1>13, <2>1
  <2>3. PICK u \in Peers, v \in Servers : wires[<<x, y>>] = wire[<<u, v>>]
    BY <1>9, <1>10, <1>11, <2>2
  <2> QED BY <1>13, <2>3 DEF CopiesInv, DeletionsTold
<1> QED BY <1>4, <1>5, <1>9, <1>11, <1>12, <1>13, NewUserCopies

\* What is closed on one side is not live in either direction.
LEMMA RemoveUserCopies ==
    ASSUME CertInv, LinksInv, CopiesInv, NEW s \in Servers, NEW n \in Peers,
           <<s, n>> \in links, RemoveUser(s, n)
    PROVE  CopiesInv'
<1>1. /\ links' = links \ {<<s, n>>}
      /\ wire' = [wire EXCEPT ![<<n, s>>] = <<>>]
      /\ UNCHANGED <<knocks, certs, issued, deleted, backdated, dropped>>
  BY DEF RemoveUser
<1>2. /\ \A x \in Peers, y \in Servers :
            <<x, y>> # <<n, s>> => wire'[<<x, y>>] = wire[<<x, y>>]
      /\ wire'[<<n, s>>] = <<>>
  BY <1>1, PeersChannels DEF CertInv, CertTypeOK
<1>3. DeletionsTold'
  <2>1. DOMAIN <<>> = {}
    OBVIOUS
  <2> QED BY <1>1, <1>2, <2>1 DEF CopiesInv, DeletionsTold
<1>4. ASSUME NEW c \in Plain', NEW x \in Listing(OriginsOf(c))',
             NEW y \in Listing(OriginsOf(c))', Live(x, y)'
      PROVE  Copied(x, y, c)'
  <2>1. x \in Servers /\ y \in Servers /\ x \in Listing(OriginsOf(c))
        /\ y \in Listing(OriginsOf(c)) /\ c \in Plain /\ x \in Peers
    BY <1>1, <1>4, PeersChannels, ListingShrinks DEF Listing, Plain
  <2>2. <<x, y>> # <<n, s>>
    <3>1. <<s, n>> \notin links' \cup knocks'
      BY <1>1 DEF LinksInv, Ends
    <3> QED BY <1>4, <3>1 DEF Live
  <2>3. Copied(x, y, c)
    BY <1>1, <1>4, <2>1 DEF CopiesInv, Live
  <2>4. wire'[<<x, y>>] = wire[<<x, y>>]
    BY <1>2, <2>1, <2>2
  <2> QED BY <1>1, <2>3, <2>4 DEF Copied
<1> QED BY <1>3, <1>4 DEF CopiesInv

LEMMA CrashCopies ==
    ASSUME CertInv, LinksInv, CopiesInv, NEW s \in Servers, Crash(s)
    PROVE  CopiesInv'
<1>1. /\ issued \subseteq issued'
      /\ links' = {l \in links : l[1] # s}
      /\ knocks' = {l \in knocks : l[1] # s}
      /\ wire' = [l \in Channels |->
                     IF l[2] = s \/ (l[1] = s /\ <<l[2], s>> \notin links \cup knocks)
                     THEN <<>> ELSE wire[l]]
      /\ UNCHANGED <<deleted, backdated, dropped>>
  BY DEF Crash
<1>2. \A t \in Servers : t # s => certs'[t] = certs[t]
  BY DEF Crash, CertInv, CertTypeOK
<1>3. \A x \in Peers, y \in Servers :
         /\ wire'[<<x, y>>] = <<>> \/ wire'[<<x, y>>] = wire[<<x, y>>]
         /\ x # s /\ y # s => wire'[<<x, y>>] = wire[<<x, y>>]
  BY <1>1, PeersChannels
<1>4. DeletionsTold'
  <2>1. DOMAIN <<>> = {}
    OBVIOUS
  <2> QED BY <1>1, <1>3, <2>1 DEF CopiesInv, DeletionsTold
<1>5. ASSUME NEW c \in Plain', NEW x \in Listing(OriginsOf(c))',
             NEW y \in Listing(OriginsOf(c))', Live(x, y)'
      PROVE  Copied(x, y, c)'
  <2>1. x \in Servers /\ y \in Servers /\ x \in Listing(OriginsOf(c))
        /\ y \in Listing(OriginsOf(c)) /\ c \in Plain /\ x \in Peers
    BY <1>1, <1>5, PeersChannels, ListingShrinks DEF Listing, Plain
  <2>2. x # s /\ y # s /\ Live(x, y)
    BY <1>1, <1>5 DEF Live
  <2>3. Copied(x, y, c)
    BY <2>1, <2>2 DEF CopiesInv
  <2>4. wire'[<<x, y>>] = wire[<<x, y>>]
    BY <1>3, <2>1, <2>2
  <2> QED BY <1>2, <2>1, <2>2, <2>3, <2>4 DEF Copied
<1> QED BY <1>4, <1>5 DEF CopiesInv

LEMMA NextCopies ==
    ASSUME CertInv, LinksInv, CopiesInv, [Next]_vars
    PROVE  CopiesInv'
<1>1. CASE Tick
  BY <1>1 DEF Tick, net, history, CopiesInv, DeletionsTold, Live, Copied, Listing, OriginsOf,
              Plain
<1>2. ASSUME NEW s \in Servers, Changed(s)
      PROVE  CopiesInv'
  BY <1>2, ChangedTells, IssueCopies
<1>3. ASSUME NEW s \in Servers, Crash(s)
      PROVE  CopiesInv'
  BY <1>3, CrashCopies
<1>4. ASSUME NEW s \in Servers, NEW n \in Servers,
             Connect(s, n) \/ \E g \in Stubs : Reconnect(s, n, g)
      PROVE  CopiesInv'
  BY <1>4, ConnectCopies, ReconnectCopies
<1>5. ASSUME NEW s \in Servers, NEW n \in Peers, Fail(s, n) \/ Close(s, n)
      PROVE  CopiesInv'
  BY <1>5, RemoveUserCopies DEF Fail, Close
<1>6. ASSUME NEW s \in Servers, NEW n \in Peers,
             Accept(s, n) \/ Receive(s, n) \/ Ignore(s, n)
      PROVE  CopiesInv'
  BY <1>6, AcceptCopies, ReceiveCopies, IgnoreCopies
<1>7. CASE UNCHANGED vars
  BY <1>7 DEF vars, net, history, CopiesInv, DeletionsTold, Live, Copied, Listing, OriginsOf,
              Plain
<1> QED BY <1>1, <1>2, <1>3, <1>4, <1>5, <1>6, <1>7, NextCases

LEMMA CopiesAlways == Spec => []CopiesInv
<1>1. Init => CopiesInv
  BY PeersChannels DEF Init, CopiesInv, DeletionsTold, Live
<1>2. CertInv /\ LinksInv /\ CopiesInv /\ [Next]_vars => CopiesInv'
  BY NextCopies
<1> QED BY <1>1, <1>2, CertInvariant, LinksAlways, PTL DEF Spec

\* When nothing is under way, neighbours have the same level.
LEMMA NeighboursAgree ==
    ASSUME CertInv, CopiesInv, NEW c \in Plain, TimesTell(c), Quiet,
           NEW x \in Listing(OriginsOf(c)), NEW y \in Listing(OriginsOf(c)),
           <<x, y>> \in links, <<y, x>> \in links
    PROVE  Level(x, c) = Level(y, c)
<1>1. x \in Servers /\ y \in Servers
  BY DEF Listing
<1>2. wire[<<x, y>>] = <<>> /\ wire[<<y, x>>] = <<>>
  BY <1>1, PeersChannels DEF Quiet
<1>3. PICK a \in Int, b \in Int : a = Second(certs[x], c) /\ b = Second(certs[y], c)
  BY <1>1, SecondKept
<1>4. Covered(a, b, <<>>, c) /\ Covered(b, a, <<>>, c)
  BY <1>2, <1>3 DEF CopiesInv, Live, Copied
<1>5. a = b
  BY <1>4 DEF Covered
<1>6. CASE a = -1
  <2>1. c \notin DOMAIN certs[x] /\ c \notin DOMAIN certs[y]
    <3>1. a >= 0 <=> c \in DOMAIN certs[x]
      BY <1>1, <1>3, SecondKept
    <3>2. b >= 0 <=> c \in DOMAIN certs[y]
      BY <1>1, <1>3, SecondKept
    <3> QED BY <1>5, <1>6, <3>1, <3>2
  <2> QED BY <2>1 DEF Level
<1>7. CASE a # -1
  <2>1. c \in DOMAIN certs[x] /\ c \in DOMAIN certs[y]
        /\ certs[x][c].creation = certs[y][c].creation
    BY <1>3, <1>5, <1>7 DEF Second
  <2>2. PICK v \in issued : /\ v.cid = c
                            /\ v.cert.level = certs[x][c].level
                            /\ v.cert.creation = certs[x][c].creation
                            /\ v.cert.origin = certs[x][c].origin
    BY <1>1, <2>1 DEF CertInv, Authentic, Given
  <2>3. PICK w \in issued : /\ w.cid = c
                            /\ w.cert.level = certs[y][c].level
                            /\ w.cert.creation = certs[y][c].creation
                            /\ w.cert.origin = certs[y][c].origin
    BY <1>1, <2>1 DEF CertInv, Authentic, Given
  <2>4. v = w
    BY <2>1, <2>2, <2>3 DEF TimesTell
  <2> QED BY <2>1, <2>2, <2>3, <2>4 DEF Level
<1> QED BY <1>6, <1>7

(***************************************************************************)
(* Wherever servers that list all who changed a certificate are connected  *)
(* through such servers, they end with the same level of it, after lost    *)
(* connections and restarts as well: an addition that is newer overrules,  *)
(* what is relayed goes to all others, and a feed leaves nothing out.  The *)
(* times of the hosts may differ by any zones and offsets, as long as no   *)
(* change of the certificate got an earlier time than what it replaced,    *)
(* and none of its packets was taken for an old one.                       *)
(***************************************************************************)
THEOREM LevelsAgreeCorrect == Spec => []LevelsAgree
<1>1. ASSUME CertInv, CopiesInv PROVE LevelsAgree
  <2> SUFFICES ASSUME Quiet, NEW c \in Plain, NEW s \in Servers, NEW o \in Servers,
                      TimesTell(c), Connected(s, o, Listing(OriginsOf(c))),
                      Level(s, c) # Level(o, c)
               PROVE  FALSE
    BY DEF LevelsAgree
  <2> DEFINE T == Listing(OriginsOf(c))
             side == {x \in T : Level(x, c) = Level(s, c)}
  <2>1. side \in SUBSET T /\ s \in side /\ o \notin side
    BY DEF Connected
  <2>2. PICK x \in side, y \in T \ side : {<<x, y>>, <<y, x>>} \subseteq links
    BY <2>1 DEF Connected
  <2>3. Level(x, c) = Level(y, c)
    BY <1>1, <2>2, NeighboursAgree
  <2> QED BY <2>2, <2>3
<1> QED BY <1>1, CertInvariant, CopiesAlways, PTL
-----------------------------------------------------------------------------
(***************************************************************************)
(* Followed.  While one server gives all commands and nothing fails, what  *)
(* is under way moves away from that server, and brings who reads it to    *)
(* where the sender is.                                                    *)
(***************************************************************************)
\* What db has of c: one certificate or none.
Entry(db, c) == {db[d] : d \in DOMAIN db \cap {c}}

\* What a server that had v of a certificate has after it carried out p.
Done(v, p) ==
    CASE p.mode = "delete" -> {}
      [] p.mode = "add" /\ v = {} -> {p.cert}
      [] p.mode = "add" /\ v # {} ->
            {IF p.cert.creation > x.creation
             THEN [p.cert EXCEPT !.password = x.password] ELSE x : x \in v}
      [] p.mode = "modify" -> {IF p.cert.creation > x.creation THEN p.cert ELSE x : x \in v}

\* The packets w bring one who has from of c, step by step, to have to of it.
Carries(from, to, w, c) ==
    \E h \in [0..Len(w) -> SUBSET Certificates] :
        /\ h[0] = from
        /\ h[Len(w)] = to
        /\ \A i \in 1..Len(w) :
              h[i] = IF w[i].cid = c THEN Done(h[i - 1], w[i]) ELSE h[i - 1]

\* Everything there is was made by a.
OnlyOf(a) ==
    /\ \A s \in Servers : \A c \in DOMAIN certs[s] : certs[s][c].origin = a
    /\ \A x, y \in Servers : \A i \in DOMAIN wire[<<x, y>>] :
          wire[<<x, y>>][i].cert.origin = a

\* Packets move away from a.
Downwards(a, up) ==
    \A x, y \in Servers :
        wire[<<x, y>>] # <<>> => up[y] = x /\ y # a /\ <<x, y>> \in links

\* Who has anything is connected with the server it has it from.
Reached(a, up) ==
    \A y \in Servers \ {a} :
        DOMAIN certs[y] # {} => <<y, up[y]>> \in links /\ <<up[y], y>> \in links

Carried(a, up) ==
    \A c \in Cids : TimesTell(c) =>
        \A x, y \in Trusting({a}) :
            up[y] = x /\ Live(x, y)
                => Carries(Entry(certs[y], c), Entry(certs[x], c), wire[<<x, y>>], c)

Descends(a, up) ==
    /\ OnlyOf(a)
    /\ Listed(certs[a]) \subseteq issued
    /\ Downwards(a, up)
    /\ Reached(a, up)
    /\ Carried(a, up)

FollowInv ==
    ~lost => \A a \in Servers : authors \subseteq {a} =>
                 \A up \in [Servers -> Servers] : Rooted(a, up) => Descends(a, up)
-----------------------------------------------------------------------------
LEMMA EntryIs ==
    ASSUME NEW db, NEW c
    PROVE  /\ c \in DOMAIN db => Entry(db, c) = {db[c]}
           /\ c \notin DOMAIN db => Entry(db, c) = {}
  BY DEF Entry

LEMMA EntryType ==
    ASSUME NEW db \in Databases, NEW c
    PROVE  Entry(db, c) \in SUBSET Certificates
  BY DatabaseDef DEF Entry

LEMMA DoneType ==
    ASSUME NEW v \in SUBSET Certificates, NEW p \in Packets
    PROVE  Done(v, p) \in SUBSET Certificates
<1>1. p.cert \in Certificates /\ p.mode \in {"add", "delete", "modify"}
  BY DEF Packets
<1>2. \A x \in v : [p.cert EXCEPT !.password = x.password] \in Certificates
  BY <1>1 DEF Certificates
<1>3. CASE p.mode = "delete"
  BY <1>3 DEF Done
<1>4. CASE p.mode = "add" /\ v = {}
  BY <1>1, <1>4 DEF Done
<1>5. CASE p.mode = "add" /\ v # {}
  BY <1>2, <1>5 DEF Done
<1>6. CASE p.mode = "modify"
  BY <1>1, <1>6 DEF Done
<1> QED BY <1>1, <1>3, <1>4, <1>5, <1>6

\* Receiving, seen from one certificate.
LEMMA ReadEntry ==
    ASSUME NEW old \in Databases, NEW p \in Packets, NEW db,
           db = IF Heeded(old, p) THEN Executed(old, p) ELSE old, NEW c
    PROVE  Entry(db, c) = IF p.cid = c THEN Done(Entry(old, c), p) ELSE Entry(old, c)
<1>1. p.cert \in Certificates /\ p.mode \in {"add", "delete", "modify"} /\ p.cid \in Cids
  BY DEF Packets
<1>2. CASE p.cid # c
  <2>1. \/ db = old
        \/ db = Without(old, p.cid)
        \/ \E x : db = With(old, p.cid, x)
    BY DEF Executed
  <2>2. c \in DOMAIN db <=> c \in DOMAIN old
    BY <1>2, <2>1 DEF With, Without
  <2>3. c \in DOMAIN old => db[c] = old[c]
    BY <1>2, <2>1 DEF With, Without
  <2> QED BY <1>2, <2>2, <2>3, EntryIs
<1>3. CASE p.cid = c /\ c \notin DOMAIN old
  <2>1. Entry(old, c) = {}
    BY <1>3, EntryIs
  <2>2. CASE p.mode = "add"
    <3>1. db = With(old, c, p.cert)
      BY <1>3, <2>2 DEF Heeded, Executed
    <3>2. Entry(db, c) = {p.cert}
      BY <3>1, EntryIs DEF With
    <3> QED BY <1>3, <2>1, <2>2, <3>2 DEF Done
  <2>3. CASE p.mode # "add"
    <3>1. db = old
      BY <1>1, <1>3, <2>3 DEF Heeded
    <3>2. Done({}, p) = {}
      BY <1>1, <2>3 DEF Done
    <3> QED BY <1>3, <2>1, <3>1, <3>2
  <2> QED BY <2>2, <2>3
<1>4. CASE p.cid = c /\ c \in DOMAIN old
  <2>1. PICK x \in Certificates : x = old[c] /\ Entry(old, c) = {x}
    BY <1>4, EntryIs, DatabaseDef
  <2>2. CASE p.mode = "delete"
    <3>1. db = Without(old, c)
      BY <1>4, <2>2 DEF Heeded, Executed
    <3>2. Entry(db, c) = {}
      BY <3>1, EntryIs DEF Without
    <3> QED BY <1>4, <2>2, <3>2 DEF Done
  <2>3. CASE p.mode \in {"add", "modify"} /\ ~(p.cert.creation > x.creation)
    <3>1. db = old
      BY <1>4, <2>1, <2>3 DEF Heeded, Newer
    <3>2. Done({x}, p) = {x}
      BY <2>3 DEF Done
    <3> QED BY <1>4, <2>1, <3>1, <3>2
  <2>4. CASE p.mode = "add" /\ p.cert.creation > x.creation
    <3>1. db = With(old, c, [p.cert EXCEPT !.password = x.password])
      BY <1>4, <2>1, <2>4 DEF Heeded, Newer, Executed
    <3>2. Entry(db, c) = {[p.cert EXCEPT !.password = x.password]}
      BY <3>1, EntryIs DEF With
    <3>3. Done({x}, p) = {[p.cert EXCEPT !.password = x.password]}
      BY <2>4 DEF Done
    <3> QED BY <1>4, <2>1, <3>2, <3>3
  <2>5. CASE p.mode = "modify" /\ p.cert.creation > x.creation
    <3>1. db = With(old, c, p.cert)
      BY <1>4, <2>1, <2>5 DEF Heeded, Newer, Executed
    <3>2. Entry(db, c) = {p.cert}
      BY <3>1, EntryIs DEF With
    <3>3. Done({x}, p) = {p.cert}
      BY <2>5 DEF Done
    <3> QED BY <1>4, <2>1, <3>2, <3>3
  <2> QED BY <1>1, <2>2, <2>3, <2>4, <2>5
<1> QED BY <1>2, <1>3, <1>4

LEMMA CarriesNothing ==
    ASSUME NEW from, NEW to, NEW c, Carries(from, to, <<>>, c)
    PROVE  from = to
  BY DEF Carries

\* One packet after another.
LEMMA CarriesConcat ==
    ASSUME NEW from, NEW mid, NEW to, NEW w \in Seq(Packets), NEW q \in Seq(Packets), NEW c,
           Carries(from, mid, w, c), Carries(mid, to, q, c)
    PROVE  Carries(from, to, w \o q, c)
<1>1. PICK m \in Nat, n \in Nat : m = Len(w) /\ n = Len(q)
  OBVIOUS
<1>2. PICK h \in [0..m -> SUBSET Certificates] :
         /\ h[0] = from /\ h[m] = mid
         /\ \A i \in 1..m : h[i] = IF w[i].cid = c THEN Done(h[i - 1], w[i]) ELSE h[i - 1]
  BY <1>1 DEF Carries
<1>3. PICK g \in [0..n -> SUBSET Certificates] :
         /\ g[0] = mid /\ g[n] = to
         /\ \A i \in 1..n : g[i] = IF q[i].cid = c THEN Done(g[i - 1], q[i]) ELSE g[i - 1]
  BY <1>1 DEF Carries
<1>4. PICK all \in Seq(Packets) : all = w \o q /\ Len(all) = m + n
  BY <1>1, ConcatElements
<1> DEFINE f == [i \in 0..(m + n) |-> IF i <= m THEN h[i] ELSE g[i - m]]
<1>5. f \in [0..(m + n) -> SUBSET Certificates]
  <2>1. ASSUME NEW i \in 0..(m + n) PROVE f[i] \in SUBSET Certificates
    <3>1. CASE i <= m
      <4>1. i \in 0..m
        BY <3>1
      <4> QED BY <3>1, <4>1
    <3>2. CASE ~(i <= m)
      <4>1. i - m \in 0..n
        BY <3>2
      <4> QED BY <3>2, <4>1
    <3> QED BY <3>1, <3>2
  <2> QED BY <2>1
<1>6. f[0] = from
  BY <1>2
<1>7. f[m + n] = to
  <2>1. CASE n = 0
    BY <1>2, <1>3, <2>1
  <2>2. CASE n # 0
    <3>1. ~(m + n <= m) /\ (m + n) - m = n /\ m + n \in 0..(m + n)
      BY <2>2
    <3> QED BY <1>3, <3>1
  <2> QED BY <2>1, <2>2
<1>8. ASSUME NEW i \in 1..(m + n)
      PROVE  f[i] = IF all[i].cid = c THEN Done(f[i - 1], all[i]) ELSE f[i - 1]
  <2>1. CASE i <= m
    <3>1. i \in 1..m /\ i - 1 \in 0..(m + n) /\ i - 1 <= m /\ i \in DOMAIN w
      BY <1>1, <2>1
    <3>2. all[i] = w[i]
      BY <1>4, <3>1, ConcatElements
    <3>3. f[i] = h[i] /\ f[i - 1] = h[i - 1]
      BY <2>1, <3>1
    <3> QED BY <1>2, <3>1, <3>2, <3>3
  <2>2. CASE ~(i <= m)
    <3>1. PICK k \in 1..n : i = m + k
      <4>1. i - m \in 1..n /\ i = m + (i - m)
        BY <2>2
      <4> QED BY <4>1
    <3>2. all[i] = q[k]
      BY <1>1, <1>4, <3>1, ConcatElements
    <3>3. f[i] = g[k]
      BY <2>2, <3>1
    <3>4. f[i - 1] = g[k - 1]
      <4>1. CASE k = 1
        <5>1. i - 1 = m /\ k - 1 = 0 /\ m \in 0..(m + n)
          BY <3>1, <4>1
        <5>2. f[m] = h[m]
          BY <5>1
        <5> QED BY <1>2, <1>3, <5>1, <5>2
      <4>2. CASE k # 1
        <5>1. ~(i - 1 <= m) /\ (i - 1) - m = k - 1 /\ i - 1 \in 0..(m + n)
          BY <3>1, <4>2
        <5> QED BY <5>1
      <4> QED BY <4>1, <4>2
    <3> QED BY <1>3, <3>1, <3>2, <3>3, <3>4
  <2> QED BY <2>1, <2>2
<1> HIDE DEF f
<1>9. Carries(from, to, all, c)
  <2>1. PICK k \in [0..(m + n) -> SUBSET Certificates] : k = f
    BY <1>5
  <2>2. Len(all) = m + n
    BY <1>4
  <2>3. \A i \in 1..(m + n) :
           k[i] = IF all[i].cid = c THEN Done(k[i - 1], all[i]) ELSE k[i - 1]
    BY <1>8, <2>1
  <2>4. k[0] = from /\ k[m + n] = to
    BY <1>6, <1>7, <2>1
  <2> QED BY <2>2, <2>3, <2>4 DEF Carries
<1> QED BY <1>4, <1>9

\* Packets of which at most one is about c.
LEMMA CarriesOnce ==
    ASSUME NEW v \in SUBSET Certificates, NEW to, NEW q \in Seq(Packets), NEW c,
           \/ to = v /\ \A i \in DOMAIN q : q[i].cid # c
           \/ \E k \in DOMAIN q : /\ q[k].cid = c /\ to = Done(v, q[k])
                                  /\ \A i \in DOMAIN q : q[i].cid = c => i = k
    PROVE  Carries(v, to, q, c)
<1>1. PICK n \in Nat : n = Len(q) /\ DOMAIN q = 1..n
  OBVIOUS
<1>2. CASE to = v /\ \A i \in DOMAIN q : q[i].cid # c
  <2> DEFINE h == [i \in 0..n |-> v]
  <2>1. h \in [0..n -> SUBSET Certificates] /\ h[0] = v /\ h[n] = v
        /\ \A i \in 1..n : h[i] = h[i - 1]
    OBVIOUS
  <2> HIDE DEF h
  <2> QED BY <1>1, <1>2, <2>1 DEF Carries
<1>3. ASSUME NEW k \in DOMAIN q, q[k].cid = c, to = Done(v, q[k]),
             \A i \in DOMAIN q : q[i].cid = c => i = k
      PROVE  Carries(v, to, q, c)
  <2> DEFINE h == [i \in 0..n |-> IF i < k THEN v ELSE to]
  <2>1. to \in SUBSET Certificates
    BY <1>3, DoneType
  <2>2. h \in [0..n -> SUBSET Certificates] /\ h[0] = v /\ h[n] = to
    BY <1>1, <2>1
  <2>3. ASSUME NEW i \in 1..n
        PROVE  h[i] = IF q[i].cid = c THEN Done(h[i - 1], q[i]) ELSE h[i - 1]
    <3>1. CASE i = k
      <4>1. h[i] = to /\ h[i - 1] = v
        BY <1>1, <3>1
      <4> QED BY <1>3, <3>1, <4>1
    <3>2. CASE i # k
      <4>1. h[i] = h[i - 1]
        BY <1>1, <3>2
      <4>2. q[i].cid # c
        BY <1>1, <1>3, <3>2
      <4> QED BY <4>1, <4>2
    <3> QED BY <3>1, <3>2
  <2> HIDE DEF h
  <2> QED BY <1>1, <2>2, <2>3 DEF Carries
<1> QED BY <1>2, <1>3

\* After the first packet.
LEMMA CarriesTail ==
    ASSUME NEW from, NEW to, NEW w \in Seq(Packets), w # <<>>, NEW c,
           Carries(from, to, w, c), NEW next,
           next = IF Head(w).cid = c THEN Done(from, Head(w)) ELSE from
    PROVE  Carries(next, to, Tail(w), c)
<1>1. PICK m \in Nat : Len(w) = m /\ m >= 1
  OBVIOUS
<1>2. PICK h \in [0..m -> SUBSET Certificates] :
         /\ h[0] = from /\ h[m] = to
         /\ \A i \in 1..m : h[i] = IF w[i].cid = c THEN Done(h[i - 1], w[i]) ELSE h[i - 1]
  BY <1>1 DEF Carries
<1>3. PICK rest \in Seq(Packets) : /\ rest = Tail(w) /\ Len(rest) = m - 1
                                   /\ \A i \in 1..(m - 1) : rest[i] = w[i + 1]
  <2>1. DOMAIN Tail(w) = 1..(m - 1)
    BY <1>1
  <2> QED BY <1>1, <2>1, TailElements
<1> DEFINE g == [i \in 0..(m - 1) |-> h[i + 1]]
<1>4. g \in [0..(m - 1) -> SUBSET Certificates]
  <2>1. \A i \in 0..(m - 1) : i + 1 \in 0..m
    BY <1>1
  <2> QED BY <2>1
<1>5. g[0] = next
  <2>1. g[0] = h[1] /\ 1 \in 1..m
    BY <1>1
  <2>2. h[1] = IF w[1].cid = c THEN Done(h[0], w[1]) ELSE h[0]
    BY <1>2, <2>1
  <2> QED BY <1>2, <2>1, <2>2, TailElements
<1>6. g[m - 1] = to
  BY <1>1, <1>2
<1>7. ASSUME NEW i \in 1..(m - 1)
      PROVE  g[i] = IF rest[i].cid = c THEN Done(g[i - 1], rest[i]) ELSE g[i - 1]
  <2>1. g[i] = h[i + 1] /\ g[i - 1] = h[i] /\ i + 1 \in 1..m /\ (i + 1) - 1 = i
    BY <1>1
  <2>2. rest[i] = w[i + 1]
    BY <1>3
  <2> QED BY <1>2, <2>1, <2>2
<1> HIDE DEF g
<1>8. Carries(next, to, rest, c)
  <2>1. PICK k : k = m - 1
    OBVIOUS
  <2>2. g \in [0..k -> SUBSET Certificates] /\ g[0] = next /\ g[k] = to
    BY <1>4, <1>5, <1>6, <2>1
  <2>3. \A i \in 1..k : g[i] = IF rest[i].cid = c THEN Done(g[i - 1], rest[i]) ELSE g[i - 1]
    BY <1>7, <2>1
  <2>4. Len(rest) = k
    BY <1>3, <2>1
  <2> QED BY <2>2, <2>3, <2>4 DEF Carries
<1> QED BY <1>3, <1>8

-----------------------------------------------------------------------------
\* Seen from a, each connection has an upper and a lower end.
LEMMA LinkSides ==
    ASSUME NEW a \in Servers, NEW up \in [Servers -> Servers], Rooted(a, up),
           NEW x \in Servers, NEW y \in Servers, x # y,
           <<x, y>> \in Topology \/ <<y, x>> \in Topology
    PROVE  /\ up[x] = y <=> up[y] # x
           /\ x = a => up[y] = x
           /\ y = a => up[x] = y
<1>1. (up[x] = y) # (up[y] = x)
  <2>1. CASE <<x, y>> \in Topology
    BY <2>1 DEF Rooted
  <2>2. CASE <<y, x>> \in Topology
    BY <2>2 DEF Rooted
  <2> QED BY <2>1, <2>2
<1> QED BY <1>1 DEF Rooted

LEMMA LinkEnds ==
    ASSUME LinksInv, NEW x \in Servers, NEW y \in Servers, <<x, y>> \in links
    PROVE  x # y /\ (<<x, y>> \in Topology \/ <<y, x>> \in Topology)
  BY DEF LinksInv, Ends

\* Times that tell all changes apart told the earlier ones apart.
LEMMA TimesToldBefore ==
    ASSUME issued \subseteq issued'
    PROVE  \A c : TimesTell(c)' => TimesTell(c)
  BY DEF TimesTell

\* What a server tells of its own changes brings others to where it is.
LEMMA TellsCarries ==
    ASSUME CertInv, NEW s \in Servers, NEW db \in Databases, NEW packets \in Seq(Packets),
           Issue(s, db, packets), Tells(s, db, packets), Listed(certs[s]) \subseteq issued,
           \A d \in DOMAIN certs[s] : certs[s][d].origin = s,
           NEW c \in Cids, TimesTell(c)'
    PROVE  Carries(Entry(certs[s], c), Entry(db, c), packets, c)
<1>1. PICK v \in SUBSET Certificates : v = Entry(certs[s], c)
  BY KeptCertificates, EntryType
<1>2. CASE \A i \in DOMAIN packets : packets[i].cid # c
  <2>1. \/ c \notin DOMAIN db \cup DOMAIN certs[s]
        \/ c \in DOMAIN db \cap DOMAIN certs[s] /\ db[c] = certs[s][c]
    BY <1>2 DEF Tells
  <2>2. Entry(db, c) = v
    BY <1>1, <2>1, EntryIs
  <2> QED BY <1>1, <1>2, <2>2, CarriesOnce
<1>3. ASSUME NEW k \in DOMAIN packets, packets[k].cid = c
      PROVE  Carries(Entry(certs[s], c), Entry(db, c), packets, c)
  <2>1. PICK p \in Packets : p = packets[k]
    OBVIOUS
  <2>2. \A i \in DOMAIN packets : packets[i].cid = c => i = k
    BY <1>3 DEF Tells
  <2>3. p.mode \in {"add", "delete", "modify"}
    BY DEF Packets
  <2>4. CASE p.mode = "delete"
    <3>1. c \notin DOMAIN db
      BY <1>3, <2>1, <2>4 DEF Tells
    <3>2. Entry(db, c) = Done(v, p)
      BY <2>4, <3>1, EntryIs DEF Done
    <3> QED BY <1>1, <1>3, <2>1, <2>2, <3>2, CarriesOnce
  <2>5. CASE p.mode = "add"
    <3>1. c \in DOMAIN db /\ p.cert = db[c] /\ c \notin DOMAIN certs[s]
      BY <1>3, <2>1, <2>5 DEF Tells
    <3>2. v = {} /\ Entry(db, c) = {p.cert}
      BY <1>1, <3>1, EntryIs
    <3>3. Entry(db, c) = Done(v, p)
      BY <2>5, <3>2 DEF Done
    <3> QED BY <1>1, <1>3, <2>1, <2>2, <3>3, CarriesOnce
  <2>6. CASE p.mode = "modify"
    <3>1. c \in DOMAIN db /\ p.cert = db[c] /\ c \in DOMAIN certs[s] /\ p.cert.creation = mgmtime(s)
      BY <1>3, <2>1, <2>6 DEF Tells
    <3>2. PICK x \in Certificates : x = certs[s][c] /\ x.creation <= mgmtime(s)
      BY <3>1, KeptCertificates
    <3>3. v = {x} /\ Entry(db, c) = {p.cert}
      BY <1>1, <3>1, <3>2, EntryIs
    <3>4. x.creation \in Nat /\ mgmtime(s) \in Nat
      <4>1. x.creation \in Nat
        BY DEF Certificates
      <4> QED BY <4>1, TimeType DEF CertInv
    <3>5. p.cert.creation > x.creation \/ p.cert.creation = x.creation
      BY <3>1, <3>2, <3>4
    <3>6. ASSUME p.cert.creation = x.creation PROVE p.cert = x
      <4>1. [cid |-> c, cert |-> x] \in issued'
        BY <3>1, <3>2 DEF Issue, Listed
      <4>2. [cid |-> c, cert |-> p.cert] \in issued'
        BY <3>1 DEF Issue, Listed
      <4>3. [cid |-> c, cert |-> x] = [cid |-> c, cert |-> p.cert]
        BY <3>6, <4>1, <4>2 DEF TimesTell
      <4> QED BY <4>3
    <3>7. Done(v, p) = {p.cert}
      BY <2>6, <3>3, <3>5, <3>6 DEF Done
    <3> QED BY <1>1, <1>3, <2>1, <2>2, <3>3, <3>7, CarriesOnce
  <2> QED BY <2>3, <2>4, <2>5, <2>6
<1> QED BY <1>2, <1>3

\* A feed brings who has nothing to where the server is that feeds.
LEMMA FeedCarries ==
    ASSUME CertInv, NEW s \in Servers, NEW c \in Cids
    PROVE  Carries({}, Entry(certs[s], c), Feed(s), c)
<1>1. PICK packets \in Seq(Packets) : packets = Feed(s)
  BY FeedPackets
<1>2. CASE c \in DOMAIN certs[s]
  <2>1. PICK k \in DOMAIN packets : packets[k].cid = c
    BY <1>1, <1>2, FeedPackets
  <2>2. packets[k].mode = "add" /\ packets[k].cert = certs[s][c]
    BY <1>1, <2>1, FeedPackets
  <2>3. Entry(certs[s], c) = Done({}, packets[k])
    BY <1>2, <2>2, EntryIs DEF Done
  <2>4. \A i \in DOMAIN packets : packets[i].cid = c => i = k
    BY <1>1, <2>1, FeedPackets
  <2> QED BY <1>1, <2>1, <2>3, <2>4, CarriesOnce
<1>3. CASE c \notin DOMAIN certs[s]
  <2>1. \A i \in DOMAIN packets : packets[i].cid # c
    BY <1>1, <1>3, FeedPackets
  <2>2. Entry(certs[s], c) = {}
    BY <1>3, EntryIs
  <2> QED BY <1>1, <2>1, <2>2, CarriesOnce
<1> QED BY <1>2, <1>3

(***************************************************************************)
(* The steps, one by one: a changes something; a server receives; a server *)
(* feeds a new neighbour.                                                  *)
(***************************************************************************)
LEMMA NothingIssued ==
    ASSUME CertInv, NEW s \in Servers, NEW db \in Databases, NEW packets,
           packets = <<>>, Issue(s, db, packets), Tells(s, db, packets)
    PROVE  UNCHANGED <<certs, wire, links, knocks>>
<1>1. wire \in [Channels -> Seq(Packets)] /\ certs \in [Servers -> Databases]
  BY DEF CertInv, CertTypeOK
<1>2. PICK old \in Databases : old = certs[s]
  BY <1>1
<1>3. DOMAIN db = DOMAIN old /\ \A c \in DOMAIN db : db[c] = old[c]
  <2>1. DOMAIN packets = {}
    OBVIOUS
  <2>2. \A c \in DOMAIN db \cup DOMAIN old :
           c \in DOMAIN db \cap DOMAIN old /\ db[c] = old[c]
    BY <1>2, <2>1 DEF Tells
  <2> QED BY <2>2
<1>4. db = [c \in DOMAIN db |-> db[c]] /\ old = [c \in DOMAIN old |-> old[c]]
  BY DatabaseDef
<1>5. db = old
  BY <1>3, <1>4
<1>6. certs' = certs
  BY <1>1, <1>2, <1>5 DEF Issue
<1>7. ASSUME NEW l \in Channels PROVE wire'[l] = wire[l]
  <2>1. PICK w \in Seq(Packets) : w = wire[l]
    BY <1>1
  <2>2. w \o <<>> = w
    OBVIOUS
  <2> QED BY <2>1, <2>2 DEF Issue, Transmit
<1>8. wire' = [l \in Channels |-> wire'[l]]
  BY DEF Issue, Transmit
<1>9. wire = [l \in Channels |-> wire[l]]
  BY <1>1
<1>10. wire' = wire
  BY <1>7, <1>8, <1>9
<1> QED BY <1>6, <1>10 DEF Issue

LEMMA IssueDescends ==
    ASSUME CertInv, LinksInv, NEW s \in Servers, NEW db \in Databases,
           NEW packets \in Seq(Packets), Issue(s, db, packets), Tells(s, db, packets),
           NEW a \in Servers, NEW up \in [Servers -> Servers], Rooted(a, up),
           Descends(a, up), authors' \subseteq {a}
    PROVE  Descends(a, up)'
<1>1. /\ certs' = [certs EXCEPT ![s] = db]
      /\ issued' = issued \cup Listed(db)
      /\ UNCHANGED <<links, knocks, clock>>
      /\ Transmit(s, packets, Neighbours(s), wire)
  BY DEF Issue
<1>2. \A c : TimesTell(c)' => TimesTell(c)
  BY <1>1, TimesToldBefore
<1>3. CASE packets = <<>>
  <2>1. UNCHANGED <<certs, wire, links, knocks>>
    BY <1>3, NothingIssued
  <2>2. Carried(a, up)'
    BY <1>2, <2>1 DEF Descends, Carried, Live
  <2> QED BY <1>1, <2>1, <2>2 DEF Descends, OnlyOf, Downwards, Reached
<1>4. CASE packets # <<>>
  <2>1. s = a
    BY <1>4 DEF Issue
  <2>2. /\ certs'[a] = db
        /\ \A t \in Servers : t # a => certs'[t] = certs[t]
        /\ \A x, y \in Servers : wire[<<x, y>>] \in Seq(Packets)
    <3>1. CertTypeOK /\ certs \in [Servers -> Databases]
      BY DEF CertInv, CertTypeOK
    <3> QED BY <1>1, <2>1, <3>1, WireTypes, PeersChannels
  <2>3. \A x, y \in Servers :
           /\ x = a /\ y \in Neighbours(a) /\ <<y, a>> \in links \cup knocks
                 => wire'[<<x, y>>] = wire[<<x, y>>] \o packets
           /\ ~(x = a /\ y \in Neighbours(a) /\ <<y, a>> \in links \cup knocks)
                 => wire'[<<x, y>>] = wire[<<x, y>>]
    <3>1. \A x \in Peers, y \in Servers :
             wire'[<<x, y>>] =
                 IF x = s /\ y \in Neighbours(s) /\ <<y, s>> \in links' \cup knocks'
                 THEN wire[<<x, y>>] \o packets ELSE wire[<<x, y>>]
      BY <1>1, PeersChannels DEF Transmit
    <3>2. links' \cup knocks' = links \cup knocks
      BY <1>1
    <3> QED BY <2>1, <3>1, <3>2, PeersChannels
  <2>4. \A c \in DOMAIN db : db[c].origin = a
    <3>1. ASSUME NEW c \in DOMAIN db PROVE db[c].origin = a
      <4>1. CASE c \in DOMAIN certs[a] /\ db[c] = certs[a][c]
        BY <4>1 DEF Descends, OnlyOf
      <4>2. CASE \E i \in DOMAIN packets : packets[i].cid = c
        <5>1. PICK i \in DOMAIN packets : packets[i].cid = c
          BY <4>2
        <5>2. packets[i].mode # "delete"
          BY <5>1 DEF Tells
        <5> QED BY <2>1, <5>1, <5>2 DEF Tells
      <4> QED BY <2>1, <4>1, <4>2 DEF Tells
    <3> QED BY <3>1
  <2>5. \A i \in DOMAIN packets : packets[i].cert.origin = a
    <3>1. ASSUME NEW i \in DOMAIN packets PROVE packets[i].cert.origin = a
      <4>1. CASE packets[i].mode = "delete"
        BY <2>1, <4>1 DEF Tells, Descends, OnlyOf
      <4>2. CASE packets[i].mode # "delete"
        BY <2>1, <4>2 DEF Tells
      <4> QED BY <4>1, <4>2
    <3> QED BY <3>1
  <2>6. OnlyOf(a)'
    <3>1. ASSUME NEW t \in Servers, NEW c \in DOMAIN certs'[t]
          PROVE  certs'[t][c].origin = a
      BY <2>2, <2>4 DEF Descends, OnlyOf
    <3>2. ASSUME NEW x \in Servers, NEW y \in Servers, NEW i \in DOMAIN wire'[<<x, y>>]
          PROVE  wire'[<<x, y>>][i].cert.origin = a
      <4>1. PICK w \in Seq(Packets) : w = wire[<<x, y>>]
        BY <2>2
      <4>2. \A j \in DOMAIN w : w[j].cert.origin = a
        BY <4>1 DEF Descends, OnlyOf
      <4>3. CASE wire'[<<x, y>>] = w
        BY <4>2, <4>3
      <4>4. CASE wire'[<<x, y>>] = w \o packets
        BY <2>5, <4>2, <4>4, ConcatElements
      <4> QED BY <2>3, <4>1, <4>3, <4>4
    <3> QED BY <3>1, <3>2 DEF OnlyOf
  <2>7. Listed(certs[a])' \subseteq issued'
    BY <1>1, <2>2
  <2>8. Downwards(a, up)'
    <3> SUFFICES ASSUME NEW x \in Servers, NEW y \in Servers, wire'[<<x, y>>] # <<>>
                 PROVE  up[y] = x /\ y # a /\ <<x, y>> \in links
      BY <1>1 DEF Downwards
    <3>1. CASE x = a /\ y \in Neighbours(a)
      <4>1. <<x, y>> \in links
        BY <3>1 DEF Neighbours
      <4>2. x # y /\ (<<x, y>> \in Topology \/ <<y, x>> \in Topology)
        BY <4>1, LinkEnds
      <4>3. up[y] = x
        BY <3>1, <4>2, LinkSides
      <4> QED BY <3>1, <4>1, <4>2, <4>3
    <3>2. CASE ~(x = a /\ y \in Neighbours(a))
      <4>1. wire[<<x, y>>] # <<>>
        BY <2>3, <3>2
      <4> QED BY <4>1 DEF Descends, Downwards
    <3> QED BY <3>1, <3>2
  <2>9. Reached(a, up)'
    BY <1>1, <2>2 DEF Descends, Reached
  <2>10. Carried(a, up)'
    <3> SUFFICES ASSUME NEW c \in Cids, TimesTell(c)',
                        NEW x \in Trusting({a}), NEW y \in Trusting({a}),
                        up[y] = x, Live(x, y)'
                 PROVE  Carries(Entry(certs'[y], c), Entry(certs'[x], c), wire'[<<x, y>>], c)
      BY DEF Carried, Trusting
    <3>1. x \in Servers /\ y \in Servers /\ Live(x, y)
      BY <1>1 DEF Trusting, Live
    <3>2. PICK w \in Seq(Packets) : w = wire[<<x, y>>]
      BY <2>2, <3>1
    <3>3. Carries(Entry(certs[y], c), Entry(certs[x], c), w, c)
      BY <1>2, <3>1, <3>2 DEF Descends, Carried
    <3>4. x # y /\ <<x, y>> \in links /\ <<y, x>> \in links \cup knocks
      BY <3>1, LinkEnds DEF Live
    <3>5. y # a
      BY <3>4 DEF Rooted
    <3>6. CASE x = a
      <4>1. wire'[<<x, y>>] = w \o packets
        <5>1. y \in Neighbours(a)
          BY <3>1, <3>4, <3>6, PeersChannels DEF Neighbours
        <5> QED BY <2>3, <3>1, <3>2, <3>4, <3>6, <5>1
      <4>2. Carries(Entry(certs[a], c), Entry(db, c), packets, c)
        <5>1. /\ Listed(certs[s]) \subseteq issued
              /\ \A d \in DOMAIN certs[s] : certs[s][d].origin = s
          BY <2>1 DEF Descends, OnlyOf
        <5> QED BY <2>1, <5>1, TellsCarries
      <4>3. Carries(Entry(certs[y], c), Entry(db, c), w \o packets, c)
        BY <3>3, <3>6, <4>2, CarriesConcat
      <4> QED BY <2>2, <3>1, <3>5, <3>6, <4>1, <4>3
    <3>7. CASE x # a
      BY <2>2, <2>3, <3>1, <3>2, <3>3, <3>5, <3>7
    <3> QED BY <3>6, <3>7
  <2> QED BY <2>6, <2>7, <2>8, <2>9, <2>10 DEF Descends
<1> QED BY <1>3, <1>4

LEMMA ReceiveDescends ==
    ASSUME CertInv, LinksInv, ~lost, NEW s \in Servers, NEW n \in Peers, Receive(s, n),
           NEW a \in Servers, NEW up \in [Servers -> Servers], Rooted(a, up),
           Descends(a, up)
    PROVE  Descends(a, up)'
<1>0. CertTypeOK /\ Arrived(s, n) /\ n \in Servers
  <2>1. <<s, n>> \in links
    BY DEF Receive, Arrived
  <2> QED BY <2>1 DEF CertInv, Receive, LinksInv, Whole
<1>1. /\ \A x, y \in Servers : wire[<<x, y>>] \in Seq(Packets)
      /\ certs \in [Servers -> Databases]
      /\ Servers \subseteq Peers
  <2>1. certs \in [Servers -> Databases]
    BY <1>0 DEF CertTypeOK
  <2> QED BY <1>0, <2>1, WireTypes, PeersChannels
<1>2. PICK w0 \in Seq(Packets) : w0 = wire[<<n, s>>] /\ w0 # <<>>
  BY <1>0, <1>1 DEF Arrived
<1>3. PICK p \in Packets : p = Head(w0) /\ p = w0[1] /\ 1 \in DOMAIN w0
  BY <1>2, TailElements
<1>4. PICK taken \in [Channels -> Seq(Packets)] : taken = Taken(n, s)
  BY <1>0, TakenTypes
<1>5. /\ taken[<<n, s>>] = Tail(w0)
      /\ \A x, y \in Servers : <<x, y>> # <<n, s>> => taken[<<x, y>>] = wire[<<x, y>>]
  BY <1>0, <1>1, <1>2, <1>4, TakenTypes, TakenElse
<1>6. /\ <<s, n>> \in links /\ <<n, s>> \in links /\ s # n
      /\ up[s] = n /\ s # a /\ up[n] # s
  <2>1. <<s, n>> \in links
    BY <1>0 DEF Arrived
  <2>2. s # n /\ (<<s, n>> \in Topology \/ <<n, s>> \in Topology)
    BY <1>0, <2>1, LinkEnds
  <2>3. up[s] = n /\ s # a /\ <<n, s>> \in links
    BY <1>0, <1>2 DEF Descends, Downwards
  <2>4. up[s] = n <=> up[n] # s
    BY <1>0, <2>2, LinkSides
  <2> QED BY <2>1, <2>2, <2>3, <2>4
<1>7. UNCHANGED <<links, knocks, issued>>
  BY DEF Receive
<1>8. p.cert.origin = a
  BY <1>0, <1>2, <1>3 DEF Descends, OnlyOf
<1>9. PICK q \in Seq(Packets) : q = <<p>> /\ DOMAIN q = {1} /\ q[1] = p
  BY OnePacket
<1>10. \/ /\ Heeded(certs[s], p)
          /\ IF Authorized(s, p) THEN certs' = [certs EXCEPT ![s] = Executed(@, p)]
                                 ELSE UNCHANGED certs
          /\ Transmit(s, q, Neighbours(s) \ {n}, taken)
       \/ ~Heeded(certs[s], p) /\ UNCHANGED certs /\ wire' = taken
  BY <1>2, <1>3, <1>4, <1>9 DEF Receive
<1>11. \A t \in Servers : t # s => certs'[t] = certs[t]
  BY <1>1, <1>10
<1>12. PICK old \in Databases : old = certs[s]
  BY <1>1
<1>13. certs'[s] = old \/ (Heeded(old, p) /\ certs'[s] = Executed(old, p))
  BY <1>1, <1>10, <1>12
<1> DEFINE to == Neighbours(s) \ {n}
<1>14. ASSUME NEW x \in Servers, NEW y \in Servers
       PROVE  IF Heeded(old, p) /\ x = s /\ y \in to /\ <<y, s>> \in links \cup knocks
              THEN wire'[<<x, y>>] = wire[<<x, y>>] \o q
              ELSE wire'[<<x, y>>] = taken[<<x, y>>]
  <2>1. ASSUME y \in to, x = s PROVE taken[<<x, y>>] = wire[<<x, y>>]
    <3>1. y # s
      BY <2>1, LinkEnds DEF Neighbours
    <3> QED BY <1>5, <3>1
  <2> HIDE DEF to
  <2>2. CASE Transmit(s, q, to, taken) /\ Heeded(old, p)
    <3>1. wire'[<<x, y>>] = IF x = s /\ y \in to /\ <<y, s>> \in links \cup knocks
                           THEN taken[<<x, y>>] \o q ELSE taken[<<x, y>>]
      <4>1. links' \cup knocks' = links \cup knocks
        BY <1>7
      <4> QED BY <1>1, <2>2, <4>1, Written
    <3> QED BY <2>1, <2>2, <3>1
  <2>3. CASE wire' = taken /\ ~Heeded(old, p)
    BY <2>3
  <2> QED BY <1>10, <1>12, <2>2, <2>3 DEF to
<1> HIDE DEF to
<1>15. OnlyOf(a)'
  <2>1. ASSUME NEW t \in Servers, NEW c \in DOMAIN certs'[t]
        PROVE  certs'[t][c].origin = a
    <3>1. CASE certs'[t] = certs[t]
      BY <2>1, <3>1 DEF Descends, OnlyOf
    <3>2. CASE t = s /\ Heeded(old, p) /\ certs'[s] = Executed(old, p)
      <4>1. PICK db : db = certs'[s]
        OBVIOUS
      <4>2. \/ c \in DOMAIN old /\ db[c] = old[c]
            \/ db[c].origin = p.cert.origin
        BY <2>1, <3>2, <4>1, ExecutedDatabase
      <4> QED BY <1>8, <1>12, <3>2, <4>1, <4>2 DEF Descends, OnlyOf
    <3> QED BY <1>11, <1>12, <1>13, <3>1, <3>2
  <2>2. ASSUME NEW x \in Servers, NEW y \in Servers, NEW i \in DOMAIN wire'[<<x, y>>]
        PROVE  wire'[<<x, y>>][i].cert.origin = a
    <3>1. PICK w \in Seq(Packets) : w = wire[<<x, y>>]
      BY <1>1
    <3>2. \A j \in DOMAIN w : w[j].cert.origin = a
      BY <3>1 DEF Descends, OnlyOf
    <3>3. CASE wire'[<<x, y>>] = w
      BY <3>2, <3>3
    <3>4. CASE wire'[<<x, y>>] = w \o q
      <4>1. \A j \in DOMAIN (w \o q) : \/ j \in DOMAIN w /\ (w \o q)[j] = w[j]
                                       \/ \E k \in DOMAIN q : (w \o q)[j] = q[k]
        BY ConcatElements
      <4> QED BY <1>8, <1>9, <3>2, <3>4, <4>1
    <3>5. CASE wire'[<<x, y>>] = Tail(w) /\ w # <<>>
      BY <3>2, <3>5, TailElements
    <3>6. wire'[<<x, y>>] = w \o q \/ wire'[<<x, y>>] = taken[<<x, y>>]
      BY <1>14, <3>1
    <3>7. taken[<<x, y>>] = w \/ (taken[<<x, y>>] = Tail(w) /\ w # <<>>)
      BY <1>2, <1>5, <3>1
    <3> QED BY <3>3, <3>4, <3>5, <3>6, <3>7
  <2> QED BY <2>1, <2>2 DEF OnlyOf
<1>16. Listed(certs[a])' \subseteq issued'
  BY <1>6, <1>7, <1>11 DEF Descends
<1>17. Downwards(a, up)'
  <2> SUFFICES ASSUME NEW x \in Servers, NEW y \in Servers, wire'[<<x, y>>] # <<>>
               PROVE  up[y] = x /\ y # a /\ <<x, y>> \in links
    BY <1>7 DEF Downwards
  <2>1. CASE wire[<<x, y>>] # <<>>
    BY <2>1 DEF Descends, Downwards
  <2>2. CASE x = s /\ y \in to
    <3>0. <<s, y>> \in links /\ y # n
      BY <2>2 DEF to, Neighbours
    <3>1. /\ <<s, y>> \in links /\ s # y /\ y # n
          /\ <<s, y>> \in Topology \/ <<y, s>> \in Topology
      BY <3>0, LinkEnds
    <3>2. up[s] = y <=> up[y] # s
      BY <3>1, LinkSides
    <3>3. up[y] = s
      BY <1>6, <3>1, <3>2
    <3>4. y # a
      BY <3>1, <3>3 DEF Rooted
    <3> QED BY <2>2, <3>1, <3>3, <3>4
  <2>3. CASE wire[<<x, y>>] = <<>> /\ ~(x = s /\ y \in to)
    <3>1. <<x, y>> # <<n, s>>
      BY <1>2, <2>3
    <3>2. wire'[<<x, y>>] = taken[<<x, y>>]
      BY <1>14, <2>3
    <3> QED BY <1>5, <2>3, <3>1, <3>2
  <2> QED BY <2>1, <2>2, <2>3
<1>18. Reached(a, up)'
  BY <1>6, <1>7, <1>11 DEF Descends, Reached
<1>19. Carried(a, up)'
  <2> SUFFICES ASSUME NEW c \in Cids, TimesTell(c),
                      NEW x \in Trusting({a}), NEW y \in Trusting({a}),
                      up[y] = x, Live(x, y)
               PROVE  Carries(Entry(certs'[y], c), Entry(certs'[x], c), wire'[<<x, y>>], c)
    BY <1>7 DEF Carried, Trusting, TimesTell, Live
  <2>1. x \in Servers /\ y \in Servers
    BY DEF Trusting
  <2>2. PICK w \in Seq(Packets) : w = wire[<<x, y>>]
    BY <1>1, <2>1
  <2>3. Carries(Entry(certs[y], c), Entry(certs[x], c), w, c)
    BY <2>2 DEF Descends, Carried
  <2>4. x # y /\ <<x, y>> \in links /\ <<y, x>> \in links \cup knocks
    BY <2>1, LinkEnds DEF Live
  <2>5. ASSUME s \in Trusting({a})
        PROVE  Entry(certs'[s], c) = IF p.cid = c THEN Done(Entry(old, c), p) ELSE Entry(old, c)
    <3>1. Authorized(s, p)
      BY <1>6, <1>8, <2>5 DEF Trusting, Authorized
    <3>2. PICK db : db = certs'[s]
      OBVIOUS
    <3>3. db = IF Heeded(old, p) THEN Executed(old, p) ELSE old
      BY <1>1, <1>10, <1>12, <3>1, <3>2
    <3> QED BY <3>2, <3>3, ReadEntry
  <2>6. CASE x # s /\ y # s
    <3>1. taken[<<x, y>>] = w
      BY <1>5, <2>1, <2>2, <2>6
    <3>2. wire'[<<x, y>>] = w
      BY <1>14, <2>1, <2>6, <3>1
    <3> QED BY <1>11, <2>1, <2>3, <2>6, <3>2
  <2>7. CASE y = s
    <3>1. x = n /\ w = w0
      BY <1>2, <1>6, <2>2, <2>7
    <3>2. wire'[<<x, y>>] = Tail(w)
      <4>1. taken[<<n, s>>] = Tail(w)
        BY <1>5, <3>1
      <4>2. wire'[<<n, s>>] = taken[<<n, s>>]
        BY <1>6, <1>14
      <4> QED BY <2>7, <3>1, <4>1, <4>2
    <3>3. Carries(Entry(certs'[s], c), Entry(certs[x], c), Tail(w), c)
      <4>1. p = Head(w) /\ w # <<>>
        BY <1>2, <1>3, <3>1
      <4>2. PICK from : from = Entry(old, c)
        OBVIOUS
      <4>3. PICK next : /\ next = Entry(certs'[s], c)
                        /\ next = IF p.cid = c THEN Done(from, p) ELSE from
        BY <2>5, <2>7, <4>2
      <4>4. Carries(from, Entry(certs[x], c), w, c)
        BY <1>12, <2>3, <2>7, <4>2
      <4> QED BY <4>1, <4>3, <4>4, CarriesTail
    <3> QED BY <1>11, <2>1, <2>4, <2>7, <3>2, <3>3
  <2>8. CASE x = s
    <3>1. y # n /\ y \in to /\ <<y, s>> \in links \cup knocks
      BY <1>1, <1>6, <2>1, <2>4, <2>8 DEF to, Neighbours
    <3>2. certs'[y] = certs[y]
      BY <1>11, <2>1, <2>4, <2>8
    <3>3. CASE Heeded(old, p)
      <4>1. wire'[<<x, y>>] = w \o q
        BY <1>14, <2>1, <2>2, <2>8, <3>1, <3>3
      <4>2. PICK v \in SUBSET Certificates : v = Entry(old, c)
        BY EntryType
      <4>3. PICK given : given = Entry(certs'[s], c)
                         /\ given = IF p.cid = c THEN Done(v, p) ELSE v
        BY <2>5, <2>8, <4>2
      <4>4. Carries(v, given, q, c)
        <5>1. CASE p.cid = c
          BY <1>9, <4>3, <5>1, CarriesOnce
        <5>2. CASE p.cid # c
          BY <1>9, <4>3, <5>2, CarriesOnce
        <5> QED BY <5>1, <5>2
      <4>5. Carries(Entry(certs[y], c), given, w \o q, c)
        BY <1>12, <2>3, <2>8, <4>2, <4>4, CarriesConcat
      <4> QED BY <2>8, <3>2, <4>1, <4>3, <4>5
    <3>4. CASE ~Heeded(old, p)
      <4>1. wire'[<<x, y>>] = w
        BY <1>5, <1>6, <1>14, <2>1, <2>2, <2>8, <3>4
      <4>2. certs'[s] = certs[s]
        BY <1>12, <1>13, <3>4
      <4> QED BY <2>3, <2>8, <3>2, <4>1, <4>2
    <3> QED BY <3>3, <3>4
  <2> QED BY <2>6, <2>7, <2>8
<1> QED BY <1>15, <1>16, <1>17, <1>18, <1>19 DEF Descends

LEMMA NewUserDescends ==
    ASSUME CertInv, LinksInv, NEW s \in Servers, NEW n \in Servers,
           NewUser(s, n, links, wire), s # n,
           <<s, n>> \in Topology \/ <<n, s>> \in Topology, <<s, n>> \notin links, wire[<<s, n>>] = <<>>,
           <<n, s>> \in links' \cup knocks',
           \A x, y \in Servers : <<x, y>> # <<s, n>> /\ Live(x, y)' => Live(x, y),
           NEW a \in Servers, NEW up \in [Servers -> Servers], Rooted(a, up),
           Descends(a, up)
    PROVE  Descends(a, up)'
<1>1. \A x, y \in Servers : wire[<<x, y>>] \in Seq(Packets)
  BY WireTypes, PeersChannels DEF CertInv
<1>2. UNCHANGED <<certs, issued>> /\ links' = links \cup {<<s, n>>}
  BY DEF NewUser
<1>3. PICK packets \in Seq(Packets) : packets = Feed(s)
  BY FeedPackets
<1>4. \A x, y \in Servers :
          wire'[<<x, y>>] = IF <<x, y>> = <<s, n>> THEN packets ELSE wire[<<x, y>>]
  <2>1. <<>> \o packets = packets
    OBVIOUS
  <2>2. Transmit(s, packets, {n}, wire)
    BY <1>3 DEF NewUser
  <2>3. \A x \in Peers, y \in Servers :
           wire'[<<x, y>>] =
               IF x = s /\ y \in {n} /\ <<y, s>> \in links' \cup knocks'
               THEN wire[<<x, y>>] \o packets ELSE wire[<<x, y>>]
    BY <2>2, PeersChannels DEF Transmit
  <2> QED BY <2>1, <2>3, PeersChannels
<1>5. \/ up[n] = s /\ n # a /\ DOMAIN certs[n] = {}
      \/ up[s] = n /\ s # a /\ packets = <<>> /\ up[n] # s
  <2>1. CASE up[n] = s
    <3>1. n # a
      BY <2>1 DEF Rooted
    <3> QED BY <2>1, <3>1 DEF Descends, Reached
  <2>2. CASE up[n] # s
    <3>1. up[s] = n
      BY <2>2, LinkSides
    <3>2. s # a
      BY <3>1 DEF Rooted
    <3>3. DOMAIN certs[s] = {}
      BY <3>1, <3>2 DEF Descends, Reached
    <3>4. packets = <<>>
      <4>1. \A i \in DOMAIN packets : packets[i].cid \in DOMAIN certs[s]
        BY <1>3, FeedPackets
      <4>2. DOMAIN packets = {}
        BY <3>3, <4>1
      <4> QED BY <4>2
    <3> QED BY <2>2, <3>1, <3>2, <3>4
  <2> QED BY <2>1, <2>2
<1>6. OnlyOf(a)'
  <2>1. ASSUME NEW x \in Servers, NEW y \in Servers, NEW i \in DOMAIN wire'[<<x, y>>]
        PROVE  wire'[<<x, y>>][i].cert.origin = a
    <3>1. CASE <<x, y>> = <<s, n>>
      <4>1. i \in DOMAIN packets /\ wire'[<<x, y>>] = packets
        BY <1>4, <2>1, <3>1
      <4>2. /\ packets[i].cid \in DOMAIN certs[s]
            /\ packets[i].cert = certs[s][packets[i].cid]
        BY <1>3, <4>1, FeedPackets
      <4> QED BY <4>1, <4>2 DEF Descends, OnlyOf
    <3>2. CASE <<x, y>> # <<s, n>>
      BY <1>4, <2>1, <3>2 DEF Descends, OnlyOf
    <3> QED BY <3>1, <3>2
  <2> QED BY <1>2, <2>1 DEF OnlyOf, Descends
<1>7. Downwards(a, up)'
  BY <1>2, <1>4, <1>5 DEF Descends, Downwards
<1>8. Reached(a, up)'
  BY <1>2 DEF Descends, Reached
<1>9. Carried(a, up)'
  <2> SUFFICES ASSUME NEW c \in Cids, TimesTell(c),
                      NEW x \in Trusting({a}), NEW y \in Trusting({a}),
                      up[y] = x, Live(x, y)'
               PROVE  Carries(Entry(certs[y], c), Entry(certs[x], c), wire'[<<x, y>>], c)
    BY <1>2 DEF Carried, Trusting, TimesTell
  <2>1. x \in Servers /\ y \in Servers
    BY DEF Trusting
  <2>2. CASE <<x, y>> = <<s, n>>
    <3>1. DOMAIN certs[n] = {}
      BY <1>5, <2>2
    <3>2. Entry(certs[n], c) = {}
      BY <3>1, EntryIs
    <3> QED BY <1>3, <1>4, <2>1, <2>2, <3>2, FeedCarries
  <2>3. CASE <<x, y>> # <<s, n>>
    <3>1. Live(x, y)
      BY <2>1, <2>3
    <3> QED BY <1>4, <2>1, <2>3, <3>1 DEF Descends, Carried
  <2> QED BY <2>2, <2>3
<1> QED BY <1>2, <1>6, <1>7, <1>8, <1>9 DEF Descends

LEMMA ConnectDescends ==
    ASSUME CertInv, LinksInv, NEW s \in Servers, NEW n \in Servers, Connect(s, n),
           NEW a \in Servers, NEW up \in [Servers -> Servers], Rooted(a, up),
           Descends(a, up)
    PROVE  Descends(a, up)'
<1>1. /\ NewUser(s, n, links, wire) /\ <<s, n>> \in Topology
      /\ <<s, n>> \notin links /\ <<n, s>> \notin links \cup knocks
      /\ links' = links \cup {<<s, n>>} /\ knocks' = knocks \cup {<<n, s>>}
  BY DEF Connect, NewUser
<1>2. wire[<<s, n>>] = <<>> /\ s # n
  <2>1. s \in Peers
    BY PeersChannels
  <2>2. wire[<<s, n>>] = <<>>
    BY <1>1, <2>1 DEF LinksInv, HasReader
  <2> QED BY <1>1, <2>2, CertificatesAssumption
<1>3. ASSUME NEW x \in Servers, NEW y \in Servers, <<x, y>> # <<s, n>>, Live(x, y)'
      PROVE  Live(x, y)
  <2>1. <<x, y>> \in links /\ <<y, x>> # <<s, n>> /\ <<y, x>> # <<n, s>>
    BY <1>1, <1>3 DEF Live
  <2> QED BY <1>1, <1>3, <2>1 DEF Live
<1> QED BY <1>1, <1>2, <1>3, NewUserDescends

LEMMA AcceptDescends ==
    ASSUME CertInv, LinksInv, ~lost, NEW s \in Servers, NEW n \in Peers, Accept(s, n),
           NEW a \in Servers, NEW up \in [Servers -> Servers], Rooted(a, up),
           Descends(a, up)
    PROVE  Descends(a, up)'
<1>1. /\ NewUser(s, n, links, wire) /\ <<s, n>> \in knocks
      /\ links' = links \cup {<<s, n>>} /\ knocks' = knocks \ {<<s, n>>}
  BY DEF Accept, NewUser
<1>2. n \in Servers /\ <<n, s>> \in links
  BY <1>1 DEF LinksInv, Whole
<1>3. <<s, n>> \notin links /\ wire[<<s, n>>] = <<>>
  BY <1>1, <1>2 DEF LinksInv, Ends, Unasked
<1>4. s # n /\ (<<s, n>> \in Topology \/ <<n, s>> \in Topology)
  BY <1>1, <1>2 DEF LinksInv, Ends
<1>5. ASSUME NEW x \in Servers, NEW y \in Servers, <<x, y>> # <<s, n>>, Live(x, y)'
      PROVE  Live(x, y)
  BY <1>1, <1>2, <1>5 DEF Live
<1>6. <<n, s>> \in links' \cup knocks'
  BY <1>1, <1>2
<1> QED BY <1>1, <1>2, <1>3, <1>4, <1>5, <1>6, NewUserDescends

LEMMA NextFollow ==
    ASSUME CertInv, LinksInv, FollowInv, [Next]_vars
    PROVE  FollowInv'
<1> SUFFICES ASSUME ~lost', NEW a \in Servers, authors' \subseteq {a},
                    NEW up \in [Servers -> Servers], Rooted(a, up)
             PROVE  Descends(a, up)'
  BY DEF FollowInv
<1>1. ASSUME ~lost, authors \subseteq {a}
      PROVE  Descends(a, up)
  BY <1>1 DEF FollowInv
<1>2. ASSUME NEW s \in Servers, Changed(s)
      PROVE  Descends(a, up)'
  <2>1. PICK db \in Databases, packets \in Seq(Packets) :
            Issue(s, db, packets) /\ Tells(s, db, packets)
    BY <1>2, ChangedTells
  <2>2. ~lost /\ authors \subseteq {a}
    BY <2>1 DEF Issue
  <2> QED BY <1>1, <2>1, <2>2, IssueDescends
<1>3. ASSUME NEW s \in Servers, NEW n \in Peers, Receive(s, n)
      PROVE  Descends(a, up)'
  <2>1. ~lost /\ authors \subseteq {a}
    BY <1>3 DEF Receive
  <2> QED BY <1>1, <1>3, <2>1, ReceiveDescends
<1>4. ASSUME NEW s \in Servers, NEW n \in Servers, Connect(s, n)
      PROVE  Descends(a, up)'
  <2>1. ~lost /\ authors \subseteq {a}
    BY <1>4 DEF Connect, NewUser
  <2> QED BY <1>1, <1>4, <2>1, ConnectDescends
<1>5. ASSUME NEW s \in Servers, NEW n \in Peers, Accept(s, n)
      PROVE  Descends(a, up)'
  <2>1. ~lost /\ authors \subseteq {a}
    BY <1>5 DEF Accept, NewUser
  <2> QED BY <1>1, <1>5, <2>1, AcceptDescends
<1>6. /\ \A s \in Servers : ~Crash(s)
      /\ \A s, n \in Servers : \A g \in Stubs : ~Reconnect(s, n, g)
      /\ \A s \in Servers, n \in Peers : ~(Fail(s, n) \/ Close(s, n) \/ Ignore(s, n))
  BY DEF Fail, Close, RemoveUser, Crash, Reconnect, Ignore
<1>7. CASE Tick \/ UNCHANGED vars
  <2>1. UNCHANGED <<certs, links, knocks, wire, issued, authors, lost>>
    BY <1>7 DEF Tick, vars, net, history
  <2>2. Descends(a, up)
    BY <1>1, <2>1
  <2>3. OnlyOf(a)' /\ Downwards(a, up)' /\ Reached(a, up)' /\ Listed(certs[a])' \subseteq issued'
    BY <2>1, <2>2 DEF Descends, OnlyOf, Downwards, Reached
  <2>4. Carried(a, up)'
    BY <2>1, <2>2 DEF Descends, Carried, TimesTell, Live
  <2> QED BY <2>3, <2>4 DEF Descends
<1> QED BY <1>2, <1>3, <1>4, <1>5, <1>6, <1>7, NextCases

LEMMA FollowAlways == Spec => []FollowInv
<1>1. ASSUME Init PROVE FollowInv
  <2>1. /\ \A s \in Servers : certs[s] = Empty /\ DOMAIN certs[s] = {}
        /\ links = {} /\ \A x, y \in Servers : wire[<<x, y>>] = <<>>
    BY <1>1, PeersChannels DEF Init, Empty
  <2>2. \A a \in Servers : \A up \in [Servers -> Servers] : Descends(a, up)
    BY <2>1 DEF Descends, OnlyOf, Downwards, Reached, Carried, Live, Listed
  <2> QED BY <2>2 DEF FollowInv
<1>2. CertInv /\ LinksInv /\ FollowInv /\ [Next]_vars => FollowInv'
  BY NextFollow
<1> QED BY <1>1, <1>2, CertInvariant, LinksAlways, PTL DEF Spec

\* When nothing is under way, who has it from a neighbour has the same.
LEMMA NeighboursFollow ==
    ASSUME CertInv, Quiet, NEW a \in Servers, NEW up \in [Servers -> Servers],
           Descends(a, up), \A c \in Cids : TimesTell(c),
           NEW x \in Trusting({a}), NEW y \in Trusting({a}), up[y] = x,
           <<x, y>> \in links, <<y, x>> \in links
    PROVE  certs[x] = certs[y]
<1>1. x \in Servers /\ y \in Servers /\ wire[<<x, y>>] = <<>>
  BY PeersChannels DEF Trusting, Quiet
<1>2. PICK v \in Databases, w \in Databases : v = certs[x] /\ w = certs[y]
  BY <1>1, KeptCertificates
<1>3. ASSUME NEW c \in Cids PROVE Entry(w, c) = Entry(v, c)
  <2>1. Carries(Entry(w, c), Entry(v, c), wire[<<x, y>>], c)
    BY <1>2 DEF Descends, Carried, Live
  <2> QED BY <1>1, <2>1, CarriesNothing
<1>4. /\ DOMAIN v \subseteq Cids /\ v = [c \in DOMAIN v |-> v[c]]
      /\ DOMAIN w \subseteq Cids /\ w = [c \in DOMAIN w |-> w[c]]
  BY DatabaseDef
<1>5. DOMAIN v = DOMAIN w
  BY <1>3, <1>4, EntryIs
<1>6. \A c \in DOMAIN v : v[c] = w[c]
  <2>1. ASSUME NEW c \in DOMAIN v PROVE v[c] = w[c]
    <3>1. {v[c]} = {w[c]}
      BY <1>3, <1>4, <1>5, EntryIs
    <3> QED BY <3>1
  <2> QED BY <2>1
<1> QED BY <1>2, <1>4, <1>5, <1>6

(***************************************************************************)
(* While one server gives all commands, its changes have different times   *)
(* and no connection is lost, everyone who is connected with it through    *)
(* servers that trust it ends with its certificates, passwords and all:    *)
(* each connection carries the changes in the order in which they were     *)
(* made, away from that server, and the feed of a connection that opens    *)
(* while changes are under way neither repeats one nor leaves one out.     *)
(***************************************************************************)
THEOREM FollowedCorrect == Spec => []Followed
<1>1. ASSUME CertInv, LinksInv, FollowInv PROVE Followed
  <2> SUFFICES ASSUME Quiet, ~lost, NEW a \in Servers, NEW s \in Servers, authors = {a},
                      \A c \in Cids : TimesTell(c), Connected(a, s, Trusting({a})),
                      certs[s] # certs[a]
               PROVE  FALSE
    BY DEF Followed
  <2>1. PICK up \in [Servers -> Servers] : Rooted(a, up)
    BY NoCycles
  <2>2. Descends(a, up)
    BY <1>1, <2>1 DEF FollowInv
  <2> DEFINE T == Trusting({a})
             side == {x \in T : certs[x] = certs[a]}
  <2>3. side \in SUBSET T /\ a \in side /\ s \notin side
    BY DEF Connected
  <2>4. PICK x \in side, y \in T \ side : {<<x, y>>, <<y, x>>} \subseteq links
    BY <2>3 DEF Connected
  <2>5. /\ x \in Servers /\ y \in Servers /\ x # y
        /\ <<x, y>> \in Topology \/ <<y, x>> \in Topology
    BY <1>1, <2>4, LinkEnds DEF Trusting
  <2>6. up[x] = y \/ up[y] = x
    BY <2>1, <2>5, LinkSides
  <2>7. certs[x] = certs[y]
    <3>1. CASE up[y] = x
      BY <1>1, <2>2, <2>4, <3>1, NeighboursFollow
    <3>2. CASE up[x] = y
      BY <1>1, <2>2, <2>4, <3>2, NeighboursFollow
    <3> QED BY <2>6, <3>1, <3>2
  <2> QED BY <2>4, <2>7
<1> QED BY <1>1, CertInvariant, LinksAlways, FollowAlways, PTL
=============================================================================
