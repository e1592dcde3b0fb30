-------------------------- MODULE BufferParseProofs --------------------------
(***************************************************************************)
(* What BufferParse guarantees for every size of the buffer, the header    *)
(* and the chunks: that the buffer is never overrun whatever is sent, and  *)
(* that one legal client is never disconnected when its packets leave room *)
(* for a chunk.                                                            *)
(***************************************************************************)
EXTENDS BufferParse, SequenceTheorems, FiniteSetTheorems, TLAPS

Cells == Client \X Nat

-----------------------------------------------------------------------------
(* Ranges of a stream.                                                     *)

LEMMA BytesType ==
    ASSUME NEW c \in Client, NEW p \in Nat, NEW n \in Nat
    PROVE  /\ Bytes(c, p, n) \in Seq(Cells)
           /\ Len(Bytes(c, p, n)) = n
           /\ \A i \in 1 .. n : Bytes(c, p, n)[i] = <<c, p + i - 1>>
<1>1. \A i \in 1 .. n : <<c, p + i - 1>> \in Cells
  BY DEF Cells
<1> QED
  BY <1>1 DEF Bytes

\* A range followed by the next one is a range.
LEMMA BytesConcat ==
    ASSUME NEW c \in Client, NEW p \in Nat, NEW m \in Nat, NEW n \in Nat
    PROVE  Bytes(c, p, m) \o Bytes(c, p + m, n) = Bytes(c, p, m + n)
<1> DEFINE s == Bytes(c, p, m)
           t == Bytes(c, p + m, n)
           u == Bytes(c, p, m + n)
<1>1. /\ s \in Seq(Cells) /\ Len(s) = m /\ \A i \in 1 .. m : s[i] = <<c, p + i - 1>>
      /\ t \in Seq(Cells) /\ Len(t) = n /\ \A i \in 1 .. n : t[i] = <<c, (p + m) + i - 1>>
      /\ u \in Seq(Cells) /\ Len(u) = m + n /\ \A i \in 1 .. m + n : u[i] = <<c, p + i - 1>>
  <2>1. p + m \in Nat /\ m + n \in Nat
    OBVIOUS
  <2> QED
    BY <2>1, BytesType, Zenon
<1> HIDE DEF s, t, u
<1>2. /\ s \o t \in Seq(Cells)
      /\ Len(s \o t) = m + n
      /\ \A i \in 1 .. m + n : (s \o t)[i] = IF i <= m THEN s[i] ELSE t[i - m]
  BY <1>1, ConcatProperties
<1>3. ASSUME NEW i \in 1 .. m + n PROVE (s \o t)[i] = u[i]
  <2>1. CASE i <= m
    <3>1. i \in 1 .. m
      BY <2>1
    <3> QED
      BY <1>1, <1>2, <2>1, <3>1, Zenon
  <2>2. CASE ~(i <= m)
    <3>1. i - m \in 1 .. n /\ (p + m) + (i - m) - 1 = p + i - 1
      BY <2>2
    <3>2. t[i - m] = <<c, p + i - 1>>
      BY <1>1, <3>1
    <3>3. (s \o t)[i] = t[i - m] /\ u[i] = <<c, p + i - 1>>
      BY <1>1, <1>2, <2>2, Zenon
    <3> QED
      BY <3>2, <3>3, Zenon
  <2> QED
    BY <2>1, <2>2
<1>4. s \o t = u
  BY <1>1, <1>2, <1>3, SeqEqual
<1> QED
  BY <1>4 DEF s, t, u

\* The beginning of a range and the rest of it are ranges.
LEMMA BytesParts ==
    ASSUME NEW c \in Client, NEW p \in Nat, NEW n \in Nat, NEW k \in 0 .. n
    PROVE  /\ SubSeq(Bytes(c, p, n), 1, k) = Bytes(c, p, k)
           /\ SubSeq(Bytes(c, p, n), k + 1, n) = Bytes(c, p + k, n - k)
<1> DEFINE s == Bytes(c, p, n)
           t == Bytes(c, p, k)
           u == Bytes(c, p + k, n - k)
<1>1. /\ s \in Seq(Cells) /\ Len(s) = n /\ \A i \in 1 .. n : s[i] = <<c, p + i - 1>>
      /\ t \in Seq(Cells) /\ Len(t) = k /\ \A i \in 1 .. k : t[i] = <<c, p + i - 1>>
      /\ u \in Seq(Cells) /\ Len(u) = n - k
      /\ \A i \in 1 .. n - k : u[i] = <<c, (p + k) + i - 1>>
  <2>1. k \in Nat /\ p + k \in Nat /\ n - k \in Nat
    OBVIOUS
  <2> QED
    BY <2>1, BytesType, Zenon
<1> HIDE DEF s, t, u
<1>2. SubSeq(s, 1, k) = t
  <2> DEFINE r == SubSeq(s, 1, k)
  <2>1. \A i \in 1 .. k : s[i] \in Cells
    BY <1>1, ElementOfSeq
  <2>2. 1 \in Int /\ k \in Int /\ k - 1 + 1 = k
    OBVIOUS
  <2>3. r \in Seq(Cells) /\ Len(r) = k /\ \A i \in 1 .. k : r[i] = s[1 + i - 1]
    BY <2>1, <2>2, SubSeqProperties
  <2> HIDE DEF r
  <2>4. ASSUME NEW i \in 1 .. k PROVE r[i] = t[i]
    <3>1. 1 + i - 1 \in 1 .. n /\ 1 + i - 1 = i
      OBVIOUS
    <3> QED
      BY <1>1, <2>3, <3>1
  <2>5. r = t
    BY <1>1, <2>3, <2>4, SeqEqual
  <2> QED
    BY <2>5 DEF r
<1>3. SubSeq(s, k + 1, n) = u
  <2> DEFINE r == SubSeq(s, k + 1, n)
  <2>1. \A i \in k + 1 .. n : s[i] \in Cells
    BY <1>1, ElementOfSeq
  <2>2. k + 1 \in Int /\ n \in Int /\ n - (k + 1) + 1 = n - k
    OBVIOUS
  <2>3. r \in Seq(Cells) /\ Len(r) = n - k /\ \A i \in 1 .. n - k : r[i] = s[(k + 1) + i - 1]
    BY <2>1, <2>2, SubSeqProperties
  <2> HIDE DEF r
  <2>4. ASSUME NEW i \in 1 .. n - k PROVE r[i] = u[i]
    <3>1. (k + 1) + i - 1 \in 1 .. n /\ p + ((k + 1) + i - 1) - 1 = (p + k) + i - 1
      OBVIOUS
    <3> QED
      BY <1>1, <2>3, <3>1
  <2>5. r = u
    BY <1>1, <2>3, <2>4, SeqEqual
  <2> QED
    BY <2>5 DEF r
<1> QED
  BY <1>2, <1>3 DEF s, t, u
-----------------------------------------------------------------------------
(* Whatever is sent.                                                       *)

\* The part of the type invariant that bounds the buffer.
BufferInv ==
    /\ sent \in [Client -> Nat]
    /\ buf \in Seq(Cells)
    /\ Len(buf) <= Cap

LEMMA BufferInit == Init => BufferInv
BY SizeAssumption DEF Init, BufferInv

LEMMA BufferStep == BufferInv /\ [Next]_vars => BufferInv'
<1> SUFFICES ASSUME BufferInv, [Next]_vars PROVE BufferInv'
  OBVIOUS
<1> USE SizeAssumption
<1>1. ASSUME NEW c \in Client, NEW n \in 1 .. Chunk, Commit(c, n) PROVE BufferInv'
  <2>1. n \in Nat /\ sent[c] \in Nat /\ c \in Client
    BY <1>1 DEF BufferInv
  <2>2. sent' \in [Client -> Nat]
    <3>1. sent' = [sent EXCEPT ![c] = @ + n]
      BY <1>1 DEF Commit
    <3>2. sent[c] + n \in Nat
      BY <2>1
    <3> QED
      BY <3>1, <3>2 DEF BufferInv
  <2>3. CASE n > Cap - Len(buf)
    BY <1>1, <2>2, <2>3 DEF Commit, Throw, BufferInv
  <2>4. CASE ~(n > Cap - Len(buf))
    <3>1. buf' = buf \o Bytes(c, sent[c], n)
      BY <1>1, <2>4 DEF Commit
    <3>2. buf' \in Seq(Cells) /\ Len(buf') = Len(buf) + n
      <4> DEFINE t == Bytes(c, sent[c], n)
      <4>1. t \in Seq(Cells) /\ Len(t) = n
        BY <2>1, BytesType
      <4> HIDE DEF t
      <4>2. buf \o t \in Seq(Cells) /\ Len(buf \o t) = Len(buf) + Len(t)
        BY <4>1, ConcatProperties DEF BufferInv
      <4> QED
        BY <3>1, <4>1, <4>2 DEF t
    <3>3. Len(buf) \in Nat
      BY LenProperties DEF BufferInv
    <3> QED
      BY <2>1, <2>2, <2>4, <3>2, <3>3 DEF BufferInv
  <2> QED
    BY <2>3, <2>4
<1>2. CASE TooSmall \/ TooLarge \/ Finish \/ UNCHANGED vars
  <2>1. UNCHANGED <<sent, buf>>
    BY <1>2 DEF TooSmall, TooLarge, Finish, Throw, vars
  <2> QED
    BY <2>1 DEF BufferInv
<1>3. CASE Deliver
  <2>1. PICK n \in HeadSize .. Cap : n <= Len(buf) /\ buf' = SubSeq(buf, n + 1, Len(buf))
    BY <1>3 DEF Deliver
  <2>2. n \in Nat /\ Len(buf) \in Nat /\ n <= Len(buf)
    BY <2>1, LenProperties DEF BufferInv
  <2>3. \A i \in n + 1 .. Len(buf) : buf[i] \in Cells
    BY <2>2, ElementOfSeq DEF BufferInv
  <2>4. buf' \in Seq(Cells) /\ Len(buf') <= Len(buf)
    BY <2>1, <2>2, <2>3, SubSeqProperties
  <2>5. sent' = sent /\ Len(buf') \in Nat
    BY <1>3, <2>4, LenProperties DEF Deliver
  <2> QED
    BY <2>2, <2>4, <2>5 DEF BufferInv
<1> QED
  BY <1>1, <1>2, <1>3 DEF Next

\* Whatever the clients send, in whatever chunks, nothing is written past the
\* end of recv_buffer_.
THEOREM FitsCorrect == Spec => []BufferFits
<1>1. BufferInv => BufferFits
  BY DEF BufferInv, BufferFits
<1> QED
  BY <1>1, BufferInit, BufferStep, PTL DEF Spec

-----------------------------------------------------------------------------
(* One client that sends legal packets.                                    *)

\* The buffer is what the client sent and no callback got, which starts with a
\* packet; between two chunks that packet is incomplete.
LegalInv(a) ==
    /\ BufferInv
    /\ layout \in [Client -> Layouts] /\ upto \in [Client -> Nat]
    /\ from = a /\ lastFrom = a /\ thrown = "none"
    /\ sent[a] = upto[a] + Len(buf) /\ sent[a] <= MaxPos
    /\ buf = Bytes(a, upto[a], Len(buf))
    /\ upto[a] <= MaxPos => upto[a] \in DOMAIN layout[a]
    /\ pc = "idle" => Len(buf) < MaxPacket
    /\ PacketsIntact

LEMMA LegalInit ==
    ASSUME NEW a, Client = {a}, LegalClients
    PROVE  Init => LegalInv(a)
<1> SUFFICES ASSUME Init PROVE LegalInv(a)
  OBVIOUS
<1> USE SizeAssumption
<1>1. a \in Client /\ layout[a] \in Layouts /\ from = a /\ lastFrom = a
  BY DEF Init
<1>2. 0 \in DOMAIN layout[a] /\ MaxPacket > 0
  BY <1>1, LayoutAssumption DEF LegalClients, LegalLayout
<1>3. buf = Bytes(a, upto[a], Len(buf))
  BY <1>1 DEF Init, Bytes
<1> QED
  BY <1>1, <1>2, <1>3, BufferInit DEF Init, LegalInv, PacketsIntact

\* With a whole header in the buffer, its data_size is the one that was sent.
LEMMA LegalHeader ==
    ASSUME NEW a, Client = {a}, LegalClients, LegalInv(a), Len(buf) >= HeadSize
    PROVE  /\ PackageSize = {layout[a][upto[a]]}
           /\ upto[a] \in DOMAIN layout[a] /\ upto[a] \in Nat
           /\ layout[a][upto[a]] \in HeadSize .. MaxPacket
<1> USE SizeAssumption
<1> DEFINE p == upto[a]
<1>1. a \in Client /\ p \in Nat /\ Len(buf) \in Nat /\ layout[a] \in Layouts
  BY LenProperties DEF LegalInv, BufferInv
<1>2. p \in DOMAIN layout[a]
  BY <1>1 DEF LegalInv
<1>3. layout[a][p] \in HeadSize .. MaxPacket
  BY <1>1, <1>2 DEF LegalClients, LegalLayout
<1>4. buf = Bytes(a, p, Len(buf))
  BY DEF LegalInv
<1>5. buf[1] = <<a, p>>
  <2>1. 1 \in 1 .. Len(buf) /\ p + 1 - 1 = p
    BY <1>1
  <2>2. \A i \in 1 .. Len(buf) : Bytes(a, p, Len(buf))[i] = <<a, p + i - 1>>
    BY <1>1, BytesType, Zenon
  <2>3. buf[1] = <<a, p + 1 - 1>>
    BY <1>4, <2>1, <2>2, Zenon
  <2> QED
    BY <2>1, <2>3
<1>6. SubSeq(buf, 1, HeadSize) = Bytes(a, p, HeadSize)
  <2>1. HeadSize \in 0 .. Len(buf)
    BY <1>1
  <2>2. SubSeq(Bytes(a, p, Len(buf)), 1, HeadSize) = Bytes(a, p, HeadSize)
    BY ONLY <1>1, <2>1, BytesParts, Zenon
  <2> QED
    BY ONLY <1>4, <2>2, Zenon
<1> HIDE DEF p
<1>7. HeaderAt(a, p)
  BY <1>2, <1>6 DEF HeaderAt
<1>8. PackageSize = {layout[a][p]}
  BY <1>5, <1>7 DEF PackageSize
<1> QED
  BY <1>1, <1>2, <1>3, <1>8 DEF p

LEMMA LegalStep ==
    ASSUME NEW a, Client = {a}, LegalClients, MaxPacket + Chunk <= Cap + 1
    PROVE  LegalInv(a) /\ [Next]_vars => LegalInv(a)'
<1> SUFFICES ASSUME LegalInv(a), [Next]_vars PROVE LegalInv(a)'
  OBVIOUS
<1> USE SizeAssumption
<1>b. BufferInv /\ BufferInv'
  BY BufferStep DEF LegalInv
<1>a. /\ a \in Client /\ upto[a] \in Nat /\ sent[a] \in Nat /\ Len(buf) \in Nat
      /\ layout[a] \in Layouts
  BY <1>b, LenProperties DEF LegalInv, BufferInv
<1>1. ASSUME NEW c \in Client, NEW n \in 1 .. Chunk, Commit(c, n) PROVE LegalInv(a)'
  <2>1. c = a /\ n \in Nat /\ n <= Chunk /\ pc = "idle"
    <3>1. c \in Client /\ n \in 1 .. Chunk /\ pc = "idle"
      BY <1>1 DEF Commit
    <3> QED
      BY <3>1
  <2>2. ~(n > Cap - Len(buf))
    BY <1>a, <2>1 DEF LegalInv
  <2>3. /\ buf' = buf \o Bytes(a, sent[a], n) /\ sent' = [sent EXCEPT ![a] = @ + n]
        /\ pc' = "loop" /\ from' = a /\ n <= MaxPos - sent[a]
        /\ UNCHANGED <<layout, thrown, last, lastFrom, upto>>
    BY <1>1, <2>1, <2>2 DEF Commit
  <2>4. buf' = Bytes(a, upto[a], Len(buf) + n)
    <3>1. buf = Bytes(a, upto[a], Len(buf)) /\ sent[a] = upto[a] + Len(buf)
      BY DEF LegalInv
    <3>2. Bytes(a, upto[a], Len(buf)) \o Bytes(a, upto[a] + Len(buf), n)
            = Bytes(a, upto[a], Len(buf) + n)
      BY ONLY <1>a, <2>1, BytesConcat, Zenon
    <3> QED
      BY <2>3, <3>1, <3>2, Zenon
  <2>5. Len(buf') = Len(buf) + n
    <3>1. Len(buf) + n \in Nat
      BY <1>a, <2>1
    <3> QED
      BY <1>a, <2>4, <3>1, BytesType, Zenon
  <2>6. sent'[a] = sent[a] + n
    BY <1>a, <1>b, <2>3 DEF BufferInv
  <2>7. /\ sent'[a] = upto'[a] + Len(buf') /\ sent'[a] <= MaxPos
        /\ buf' = Bytes(a, upto'[a], Len(buf'))
    <3>1. sent[a] = upto[a] + Len(buf) /\ MaxPos \in Nat
      BY DEF LegalInv
    <3>2. (upto[a] + Len(buf)) + n = upto[a] + (Len(buf) + n)
      BY ONLY <1>a, <2>1
    <3>3. sent[a] + n <= MaxPos
      BY ONLY <1>a, <2>1, <2>3, <3>1
    <3> QED
      BY <2>3, <2>4, <2>5, <2>6, <3>1, <3>2, <3>3, Zenon
  <2> QED
    BY <1>b, <2>3, <2>7 DEF LegalInv, PacketsIntact
<1>2. CASE TooSmall \/ TooLarge
  <2>1. Len(buf) >= HeadSize /\ \E n \in PackageSize : n < HeadSize \/ n > Cap
    BY <1>2 DEF TooSmall, TooLarge
  <2>2. PackageSize = {layout[a][upto[a]]} /\ layout[a][upto[a]] \in HeadSize .. MaxPacket
    BY <2>1, LegalHeader
  <2>3. MaxPacket <= Cap
    <3>1. Chunk >= 1
      OBVIOUS
    <3> QED
      BY <3>1
  <2> QED
    BY <2>1, <2>2, <2>3
<1>3. CASE Deliver
  <2>1. Len(buf) >= HeadSize /\ from = a
    BY <1>3 DEF Deliver, LegalInv
  <2> DEFINE p == upto[a]
             n == layout[a][p]
  <2>2. /\ PackageSize = {n} /\ p \in DOMAIN layout[a] /\ p \in Nat /\ n \in HeadSize .. MaxPacket
    BY <2>1, LegalHeader
  <2> HIDE DEF n
  <2>3. /\ n <= Len(buf) /\ n \in Nat /\ n > 0
        /\ last' = SubSeq(buf, 1, n)
        /\ buf' = SubSeq(buf, n + 1, Len(buf))
        /\ upto' = IF last' = Bytes(a, p, n) THEN [upto EXCEPT ![a] = @ + n] ELSE upto
        /\ lastFrom' = a
        /\ UNCHANGED <<layout, sent, pc, from, thrown>>
    BY <1>3, <2>1, <2>2 DEF Deliver
  <2>4. buf = Bytes(a, p, Len(buf))
    BY DEF LegalInv
  <2>5. n \in 0 .. Len(buf)
    BY <1>a, <2>3
  <2>6. last' = Bytes(a, p, n) /\ buf' = Bytes(a, p + n, Len(buf) - n)
    <3>1. /\ SubSeq(Bytes(a, p, Len(buf)), 1, n) = Bytes(a, p, n)
          /\ SubSeq(Bytes(a, p, Len(buf)), n + 1, Len(buf)) = Bytes(a, p + n, Len(buf) - n)
      BY ONLY <1>a, <2>2, <2>5, BytesParts, Zenon
    <3> QED
      BY ONLY <2>3, <2>4, <3>1, Zenon
  <2>7. upto' = [upto EXCEPT ![a] = @ + n]
    BY <2>3, <2>6
  <2>8. upto'[a] = p + n /\ upto' \in [Client -> Nat]
    BY <1>a, <2>2, <2>3, <2>7 DEF LegalInv
  <2>9. Len(buf') = Len(buf) - n
    <3>1. Len(buf) - n \in Nat /\ p + n \in Nat
      BY <1>a, <2>2, <2>3
    <3> QED
      BY <1>a, <2>6, <3>1, BytesType, Zenon
  <2>10. upto'[a] <= MaxPos => upto'[a] \in DOMAIN layout[a]
    BY <1>a, <2>2, <2>3, <2>8 DEF LegalClients, LegalLayout, n
  <2>11. /\ sent'[a] = upto'[a] + Len(buf') /\ sent'[a] <= MaxPos
         /\ buf' = Bytes(a, upto'[a], Len(buf'))
    <3>1. sent[a] = p + Len(buf) /\ sent[a] <= MaxPos
      BY DEF LegalInv
    <3>2. p + Len(buf) = (p + n) + (Len(buf) - n)
      BY <1>a, <2>2, <2>3
    <3> QED
      BY <2>3, <2>6, <2>8, <2>9, <3>1, <3>2, Zenon
  <2>12. PacketsIntact'
    BY <2>2, <2>3, <2>6 DEF PacketsIntact, n
  <2>13. pc' # "idle"
    BY <1>3, <2>3 DEF Deliver
  <2> QED
    BY <1>b, <2>3, <2>8, <2>10, <2>11, <2>12, <2>13 DEF LegalInv
<1>4. CASE Finish
  <2>1. UNCHANGED <<layout, sent, buf, from, thrown, last, lastFrom, upto>>
    BY <1>4 DEF Finish
  <2>2. CASE Len(buf) < HeadSize
    <3>0. 0 \in DOMAIN layout[a] /\ layout[a][0] \in HeadSize .. MaxPacket
      BY <1>a, Zenon DEF LegalClients, LegalLayout
    <3>1. HeadSize <= MaxPacket
      BY <3>0
    <3>2. Len(buf) < MaxPacket
      BY <1>a, <2>2, <3>1
    <3> QED
      BY <1>b, <2>1, <3>2 DEF LegalInv, PacketsIntact
  <2>3. CASE Len(buf) >= HeadSize
    <3>1. PackageSize = {layout[a][upto[a]]} /\ layout[a][upto[a]] \in HeadSize .. MaxPacket
      BY <2>3, LegalHeader
    <3>2. Len(buf) < layout[a][upto[a]]
      BY <1>4, <1>a, <2>3, <3>1 DEF Finish
    <3>3. Len(buf) < MaxPacket
      BY <1>a, <3>1, <3>2
    <3> QED
      BY <1>b, <2>1, <3>3 DEF LegalInv, PacketsIntact
  <2> QED
    BY <1>a, <2>2, <2>3
<1>5. CASE UNCHANGED vars
  BY <1>5, <1>b DEF vars, LegalInv, PacketsIntact
<1> QED
  BY <1>1, <1>2, <1>3, <1>4, <1>5 DEF Next

LEMMA LegalNothingLost ==
    ASSUME NEW a, Client = {a}
    PROVE  LegalInv(a) => NothingLost
<1> SUFFICES ASSUME LegalInv(a) PROVE NothingLost
  OBVIOUS
<1>1. a \in Client /\ upto[a] \in Nat /\ Len(buf) \in Nat /\ buf \in Seq(Cells)
  BY LenProperties DEF LegalInv, BufferInv
<1>2. DOMAIN buf = 1 .. Len(buf) /\ \A i \in DOMAIN buf : buf[i][1] = a
  BY <1>1 DEF Cells
<1>3. {i \in DOMAIN buf : buf[i][1] = a} = 1 .. Len(buf)
  BY <1>2
<1>4. Cardinality(1 .. Len(buf)) = Len(buf)
  <2>1. 1 \in Int /\ Len(buf) \in Int /\ (1 > Len(buf) => Len(buf) = 0) /\ Len(buf) - 1 + 1 = Len(buf)
    BY <1>1
  <2> QED
    BY <2>1, FS_Interval
<1> QED
  BY <1>1, <1>3, <1>4 DEF NothingLost, LegalInv

LEMMA LegalInvCorrect ==
    ASSUME NEW a, Client = {a}, LegalClients, MaxPacket + Chunk <= Cap + 1
    PROVE  Spec => []LegalInv(a)
<1>1. /\ Init => LegalInv(a)
      /\ LegalInv(a) /\ [Next]_vars => LegalInv(a)'
  BY LegalInit, LegalStep
<1> QED
  BY <1>1, PTL DEF Spec

\* One client whose packets are legal and leave room for a chunk (MaxPacket +
\* Chunk <= Cap + 1) is never disconnected by an exception of the parser.
THEOREM NoThrowCorrect ==
    ASSUME NEW a, Client = {a}, LegalClients, MaxPacket + Chunk <= Cap + 1
    PROVE  Spec => []NoThrow
<1>1. LegalInv(a) => NoThrow
  BY DEF LegalInv, NoThrow
<1> QED
  BY <1>1, LegalInvCorrect, PTL

\* What a callback is given is one whole packet of such a client, however the
\* bytes are cut into chunks.
THEOREM PacketsCorrect ==
    ASSUME NEW a, Client = {a}, LegalClients, MaxPacket + Chunk <= Cap + 1
    PROVE  Spec => []PacketsIntact
<1>1. LegalInv(a) => PacketsIntact
  BY DEF LegalInv
<1> QED
  BY <1>1, LegalInvCorrect, PTL

\* Every byte of such a client is in a packet delivered or in the buffer: the
\* moves to the front lose, repeat and reorder none.
THEOREM NothingLostCorrect ==
    ASSUME NEW a, Client = {a}, LegalClients, MaxPacket + Chunk <= Cap + 1
    PROVE  Spec => []NothingLost
<1>1. LegalInv(a) => NothingLost
  BY LegalNothingLost
<1> QED
  BY <1>1, LegalInvCorrect, PTL
=============================================================================
