--------------------------- MODULE TcpSocketProofs ---------------------------
(***************************************************************************)
(* What tlhh::tcp::socket guarantees for every size of packets and         *)
(* buffers, every timeout and every number of writes.                      *)
(***************************************************************************)
EXTENDS TcpSocket, SequenceTheorems, TLAPS

Busy == {"pending", "ready", "failed"}
States == {"new", "pending", "ready", "failed", "ok", "error", "off"}

\* A socket is not opened again, and a remote end that is gone stays gone.
GoesOn == (isOpen' => isOpen) /\ (peer = "gone" => peer' = "gone")

LEMMA NextGoesOn == [Next]_vars => GoesOn
BY DEF GoesOn, Next, IoNext, vars, FirstRead, ReadAgain, BeginRead, Arm, ReadSome, ReadFail, HandlerRead,
    HandlerReadFailed, AsyncWrite, WriteSome, WriteFail, HandlerWrite, HandlerWriteFailed, Free, FreeByHandler,
    FreeByOther, Tick, Fire, HandlerTimeout, PeerSends, PeerGone

-----------------------------------------------------------------------------
(* Reads.                                                                  *)

LEMMA NumbersType ==
    ASSUME NEW a \in Nat \ {0}, NEW b \in Nat, a <= b + 1
    PROVE  /\ Numbers(a, b) \in Seq(1 .. b)
           /\ Len(Numbers(a, b)) = b - a + 1
           /\ \A i \in 1 .. b - a + 1 : Numbers(a, b)[i] = a + i - 1
<1>1. b - a + 1 \in Nat /\ \A i \in 1 .. b - a + 1 : a + i - 1 \in 1 .. b
  OBVIOUS
<1> QED
  BY <1>1 DEF Numbers

\* The numbers up to m and those that follow.
LEMMA NumbersConcat ==
    ASSUME NEW b \in Nat, NEW m \in 0 .. b
    PROVE  Numbers(1, m) \o Numbers(m + 1, b) = Numbers(1, b)
<1> DEFINE s == Numbers(1, m)
           t == Numbers(m + 1, b)
           u == Numbers(1, b)
<1>1. /\ s \in Seq(1 .. m) /\ Len(s) = m /\ \A i \in 1 .. m : s[i] = i
      /\ t \in Seq(1 .. b) /\ Len(t) = b - m /\ \A i \in 1 .. b - m : t[i] = m + i
      /\ u \in Seq(1 .. b) /\ Len(u) = b /\ \A i \in 1 .. b : u[i] = i
  <2>1. /\ m \in Nat /\ m + 1 \in Nat \ {0} /\ 1 \in Nat \ {0}
        /\ 1 <= m + 1 /\ m + 1 <= b + 1 /\ 1 <= b + 1
    OBVIOUS
  <2>2. /\ s \in Seq(1 .. m) /\ Len(s) = m - 1 + 1 /\ \A i \in 1 .. m - 1 + 1 : s[i] = 1 + i - 1
        /\ t \in Seq(1 .. b) /\ Len(t) = b - (m + 1) + 1
        /\ \A i \in 1 .. b - (m + 1) + 1 : t[i] = (m + 1) + i - 1
        /\ u \in Seq(1 .. b) /\ Len(u) = b - 1 + 1 /\ \A i \in 1 .. b - 1 + 1 : u[i] = 1 + i - 1
    BY <2>1, NumbersType, Zenon
  <2> HIDE DEF s, t, u
  <2> QED
    BY <2>2
<1> HIDE DEF s, t, u
<1>2. s \in Seq(1 .. b)
  BY <1>1, SeqMonotonic
<1>3. /\ m \in Nat /\ b - m \in Nat /\ m + (b - m) = b
  OBVIOUS
<1>4. /\ s \o t \in Seq(1 .. b) /\ Len(s \o t) = b
      /\ \A i \in 1 .. b : (s \o t)[i] = IF i <= m THEN s[i] ELSE t[i - m]
  <2>1. /\ s \o t \in Seq(1 .. b) /\ Len(s \o t) = Len(s) + Len(t)
        /\ \A i \in 1 .. Len(s) + Len(t) : (s \o t)[i] = IF i <= Len(s) THEN s[i] ELSE t[i - Len(s)]
    <3>1. s \in Seq(1 .. b) /\ t \in Seq(1 .. b)
      BY <1>1, <1>2
    <3> QED
      BY ONLY <3>1, ConcatProperties, SMTT(30)
  <2>2. Len(s) = m /\ Len(s) + Len(t) = b
    BY <1>1, <1>3
  <2> QED
    BY <2>1, <2>2, Zenon
<1>6. ASSUME NEW i \in 1 .. b PROVE (s \o t)[i] = u[i]
  <2>1. CASE i <= m
    <3>1. i \in 1 .. m
      BY <2>1
    <3> QED
      BY <1>1, <1>4, <2>1, <3>1, Zenon
  <2>2. CASE ~(i <= m)
    <3>1. i - m \in 1 .. b - m /\ m + (i - m) = i
      BY <2>2
    <3>2. t[i - m] = i
      BY <1>1, <3>1, Zenon
    <3> QED
      BY <1>1, <1>4, <2>2, <3>2, Zenon
  <2> QED
    BY <2>1, <2>2
<1>5. s \o t = u
  <2>1. \A i \in 1 .. Len(s \o t) : (s \o t)[i] = u[i]
    BY <1>4, <1>6, Zenon
  <2>2. Len(s \o t) = Len(u)
    BY <1>1, <1>4, Zenon
  <2> QED
    BY <1>1, <1>4, <2>1, <2>2, SeqEqual, Zenon
<1> QED
  BY <1>5 DEF s, t, u

\* What relates the bytes taken to those in the buffer and those given to
\* handlers: nothing is in the buffer before a read is started.
ReadInv ==
    /\ sent \in 0 .. MaxSent /\ taken \in 0 .. sent /\ rd \in States
    /\ buf \in Seq(1 .. taken) /\ given \in Seq(1 .. taken)
    /\ moved \in 0 .. taken /\ Len(buf) + moved <= Expect
    /\ rd # "ready" => moved = 0
    /\ rd \in {"new", "ok"} => buf = <<>>
    /\ io = "again" => rd = "ok"
    /\ ReadsInOrder

LEMMA ReadInit == Init => ReadInv
<1> SUFFICES ASSUME Init PROVE ReadInv
  OBVIOUS
<1>1. <<>> \in Seq(1 .. 0) /\ Len(<<>>) = 0 /\ <<>> \o <<>> = <<>>
  BY EmptySeq, ConcatEmptySeq
<1>2. Numbers(1, 0) = <<>>
  BY NumbersType, EmptySeq
<1> QED
  BY <1>1, <1>2, SizeAssumption DEF Init, ReadInv, ReadsInOrder, States

\* What a completion commits continues what the handlers have been given.
LEMMA CommittedType ==
    ASSUME ReadInv
    PROVE  /\ Committed \in Seq(1 .. taken) /\ Len(Committed) = Len(buf) + moved
           /\ given \o Committed \in Seq(1 .. taken)
           /\ given \o Committed = Numbers(1, taken)
<1>1. /\ taken \in Nat /\ moved \in 0 .. taken /\ taken - moved \in 0 .. taken
      /\ buf \in Seq(1 .. taken) /\ given \in Seq(1 .. taken)
      /\ given \o buf = Numbers(1, taken - moved)
  BY SizeAssumption DEF ReadInv, ReadsInOrder
<1> DEFINE t == Numbers(taken - moved + 1, taken)
<1>2. t \in Seq(1 .. taken) /\ Len(t) = moved
  <2>1. /\ taken - moved + 1 \in Nat \ {0} /\ taken - moved + 1 <= taken + 1
        /\ taken - (taken - moved + 1) + 1 = moved
    BY <1>1
  <2> QED
    BY <1>1, <2>1, NumbersType
<1>3. (given \o buf) \o t = Numbers(1, taken)
  BY <1>1, NumbersConcat
<1> HIDE DEF t
<1>4. given \o (buf \o t) = (given \o buf) \o t
  <2>1. given \in Seq(1 .. taken) /\ buf \in Seq(1 .. taken) /\ t \in Seq(1 .. taken)
    BY <1>1, <1>2
  <2> QED
    BY ONLY <2>1, ConcatAssociative, SMTT(30)
<1>5. buf \o t \in Seq(1 .. taken) /\ Len(buf \o t) = Len(buf) + moved
  BY <1>1, <1>2, ConcatProperties
<1>6. given \o (buf \o t) \in Seq(1 .. taken)
  BY <1>1, <1>5, ConcatProperties
<1> QED
  BY <1>3, <1>4, <1>5, <1>6 DEF Committed, t

LEMMA ReadStep == ReadInv /\ [Next]_vars => ReadInv'
<1> SUFFICES ASSUME ReadInv, [Next]_vars PROVE ReadInv'
  OBVIOUS
<1>a. taken \in Nat /\ sent \in Nat /\ moved \in Nat /\ Len(buf) \in Nat
  BY SizeAssumption, LenProperties DEF ReadInv
\* Steps that do not touch the read.
<1>b. ASSUME UNCHANGED <<sent, readVars>>, io' = "again" => io = "again" PROVE ReadInv'
  BY <1>b DEF readVars, ReadInv, ReadsInOrder
\* Steps that start a read, with a buffer that is empty already.
<1>c. ASSUME NEW thread, rd \in {"new", "ok"}, BeginRead(thread), io' = "again" => io = "again" /\ FALSE
      PROVE ReadInv'
  <2>1. /\ UNCHANGED <<sent, taken, given, moved>> /\ buf' = buf /\ rd' \in {"pending", "off"} /\ moved = 0
    BY <1>c DEF BeginRead, ReadInv
  <2> QED
    BY <1>c, <2>1 DEF ReadInv, ReadsInOrder, States
<1>1. CASE FirstRead
  BY <1>1, <1>c DEF FirstRead, ReadInv
<1>2. CASE ReadAgain
  BY <1>2, <1>c DEF ReadAgain, ReadInv
<1>3. CASE ReadSome
  <2>1. PICK n \in 1 .. Expect - Len(buf) : taken + n <= sent /\ moved' = n /\ taken' = taken + n
    BY <1>3 DEF ReadSome
  <2>2. /\ moved = 0 /\ rd = "pending" /\ rd' = "ready" /\ UNCHANGED <<sent, buf, given, io>>
    BY <1>3 DEF ReadSome, ReadInv
  <2>3. n \in Nat /\ taken' - moved' = taken - moved /\ Len(buf) + n <= Expect
    BY <1>a, <2>1, <2>2, SizeAssumption
  <2>4. 1 .. taken \subseteq 1 .. taken'
    BY <1>a, <2>1, <2>3
  <2>5. buf' \in Seq(1 .. taken') /\ given' \in Seq(1 .. taken')
    BY <2>2, <2>4, SeqMonotonic DEF ReadInv
  <2>6. ReadsInOrder'
    BY <2>2, <2>3 DEF ReadInv, ReadsInOrder
  <2>7. taken' \in 0 .. sent /\ moved' \in 0 .. taken'
    BY <1>a, <2>1, <2>3
  <2> QED
    BY <2>1, <2>2, <2>3, <2>5, <2>6, <2>7 DEF ReadInv, States
<1>4. CASE ReadFail
  BY <1>4 DEF ReadFail, ReadInv, ReadsInOrder, States
<1>5. CASE HandlerRead
  <2>1. UNCHANGED <<sent, taken>> /\ moved' = 0 /\ io = "idle" /\ taken' - moved' = taken
    BY <1>5, <1>a DEF HandlerRead, IoIdle
  <2>2. CASE GiveRead
    <3>1. given' = given \o Committed /\ buf' = <<>> /\ rd' = "ok" /\ io' = "again"
      BY <2>2 DEF GiveRead
    <3>2. given' \in Seq(1 .. taken) /\ given' = Numbers(1, taken)
      BY <3>1, CommittedType
    <3>3. given' \o buf' = Numbers(1, taken' - moved')
      BY <2>1, <3>1, <3>2, ConcatEmptySeq
    <3>4. buf' \in Seq(1 .. taken) /\ Len(buf') = 0
      BY <3>1, EmptySeq
    <3> QED
      BY <1>a, <2>1, <3>1, <3>2, <3>3, <3>4, SizeAssumption DEF ReadInv, ReadsInOrder, States
  <2>3. CASE Len(Committed) < Expect /\ buf' = Committed /\ rd' = "pending" /\ UNCHANGED <<given, io>>
    <3>1. /\ buf' \in Seq(1 .. taken) /\ Len(buf') < Expect /\ given \o buf' = Numbers(1, taken)
      BY <2>3, CommittedType
    <3>2. Len(buf') + 0 <= Expect
      BY <3>1, LenProperties, SizeAssumption
    <3>3. ReadsInOrder'
      BY <2>1, <2>3, <3>1 DEF ReadsInOrder
    <3>4. 0 \in 0 .. taken
      BY <1>a
    <3> QED
      BY <2>1, <2>3, <3>1, <3>2, <3>3, <3>4 DEF ReadInv, States
  <2> QED
    BY <1>5, <2>2, <2>3 DEF HandlerRead
<1>6. CASE HandlerReadFailed
  BY <1>6 DEF HandlerReadFailed, ReadInv, ReadsInOrder, States
<1>7. CASE PeerSends
  BY <1>7, SizeAssumption DEF PeerSends, readVars, ReadInv, ReadsInOrder
<1>8. CASE Arm \/ WriteSome \/ WriteFail \/ FreeByHandler \/ FreeByOther \/ Tick \/ Fire \/ HandlerTimeout
           \/ PeerGone \/ UNCHANGED vars
  BY <1>8, <1>b DEF Arm, WriteSome, WriteFail, FreeByHandler, FreeByOther, Tick, Fire, HandlerTimeout,
      PeerGone, vars, readVars
<1>9. ASSUME NEW w \in Write, AsyncWrite(w) \/ HandlerWrite(w) \/ HandlerWriteFailed(w) PROVE ReadInv'
  BY <1>9, <1>b DEF AsyncWrite, HandlerWrite, HandlerWriteFailed
<1> QED
  BY <1>1, <1>2, <1>3, <1>4, <1>5, <1>6, <1>7, <1>8, <1>9 DEF Next, IoNext

-----------------------------------------------------------------------------
(* The timer.                                                              *)

\* The timer never expires before the read that it is set for is late, and none
\* is set, nor has one fired, until a read with a timeout has been started. What
\* the io thread has still to do tells which state the read is in.
TimerInv ==
    /\ isOpen \in BOOLEAN /\ peer \in {"up", "gone"} /\ timeout \in Timeouts /\ rd \in States
    /\ io \in {"idle", "again", "free"} /\ arming \in {"nobody", "io", "other"}
    /\ left \in Int /\ due \in Int /\ waits \in Nat /\ fired \in Nat
    /\ due <= timeout
    /\ timeout = 0 \/ rd = "new" => arming = "nobody" /\ waits = 0 /\ fired = 0
    /\ arming = "other" => waits = 0 /\ fired = 0
    /\ rd \in Busy /\ arming = "nobody" /\ timeout > 0 => due < 0 \/ due <= left
    /\ rd = "ok" <=> io = "again"
    /\ rd = "off" => ~isOpen
    /\ rd = "error" => io = "free" \/ ~isOpen
    /\ rd = "failed" => ~isOpen \/ peer = "gone"

LEMMA TimerInit == Init => TimerInv
BY SizeAssumption DEF Init, TimerInv, States, Busy

LEMMA TimerStep == TimerInv /\ [Next]_vars => TimerInv'
<1> SUFFICES ASSUME TimerInv, [Next]_vars PROVE TimerInv'
  OBVIOUS
<1> USE SizeAssumption DEF TimerInv, States, Busy, vars, timerVars, readVars, writeVars
<1>1. CASE FirstRead
  BY <1>1 DEF BeginRead, Unlocked, FirstRead
<1>2. CASE ReadAgain
  BY <1>2 DEF BeginRead, Unlocked, ReadAgain
<1>3. CASE Arm
  BY <1>3 DEF Unlocked, Arm
<1>4. CASE ReadSome
  BY <1>4 DEF ReadSome
<1>5. CASE ReadFail
  BY <1>5 DEF ReadFail
<1>6. CASE HandlerRead
  BY <1>6 DEF GiveRead, IoIdle, HandlerRead
<1>7. CASE HandlerReadFailed
  BY <1>7 DEF IoIdle, HandlerReadFailed
<1>8. CASE FreeByHandler
  BY <1>8 DEF Free, Unlocked, FreeByHandler
<1>9. CASE FreeByOther
  BY <1>9 DEF Free, Unlocked, FreeByOther
<1>10. CASE Tick
  BY <1>10 DEF Tick
<1>11. CASE Fire
  BY <1>11 DEF Fire
<1>12. CASE HandlerTimeout
  <2>1. /\ fired > 0 /\ fired' = fired - 1 /\ fired' \in Nat /\ waits' \in Nat /\ isOpen' \in BOOLEAN
        /\ isOpen' => isOpen
    <3>1. fired > 0 /\ fired' = fired - 1 /\ fired' \in Nat
      BY <1>12 DEF HandlerTimeout
    <3>2. CASE left < 0
      <4>1. waits' = 0
        BY <1>12, <3>2 DEF HandlerTimeout
      <4>2. isOpen' = FALSE
        BY <1>12, <3>2, Zenon DEF HandlerTimeout
      <4> QED
        BY <3>1, <4>1, <4>2
    <3>3. CASE ~(left < 0)
      BY <1>12, <3>1, <3>3 DEF HandlerTimeout
    <3> QED
      BY <3>2, <3>3
  <2>2. UNCHANGED <<peer, timeout, rd, io, arming, left, due>>
    BY <1>12 DEF HandlerTimeout
  <2>3. timeout # 0 /\ rd # "new" /\ arming # "other"
    BY <2>1
  <2> QED
    BY <2>1, <2>2, <2>3
<1>13. CASE PeerSends
  BY <1>13 DEF PeerSends
<1>14. CASE PeerGone
  BY <1>14 DEF PeerGone
<1>15. CASE WriteSome
  BY <1>15 DEF WriteSome
<1>16. CASE WriteFail
  BY <1>16 DEF WriteFail
<1>17. ASSUME NEW w \in Write, AsyncWrite(w) PROVE TimerInv'
  BY <1>17 DEF AsyncWrite
<1>18. ASSUME NEW w \in Write, HandlerWrite(w) PROVE TimerInv'
  BY <1>18 DEF IoIdle, HandlerWrite
<1>19. ASSUME NEW w \in Write, HandlerWriteFailed(w) PROVE TimerInv'
  BY <1>19 DEF IoIdle, HandlerWriteFailed
<1>20. CASE UNCHANGED vars
  BY <1>20
<1> QED
  BY <1>1, <1>2, <1>3, <1>4, <1>5, <1>6, <1>7, <1>8, <1>9, <1>10, <1>11, <1>12, <1>13, <1>14, <1>15, <1>16, <1>17, <1>18, <1>19, <1>20 DEF Next, IoNext

-----------------------------------------------------------------------------
(* Writes.                                                                 *)

\* A write that is outstanding has sent nothing: it is in the queue once, and
\* whatever is on the wire belongs to writes that have had their transfer.
WriteInv ==
    /\ wr \in [Write -> States] /\ off \in [Write -> 0 .. PacketSize] /\ wq \in Seq(Write)
    /\ out \in Seq(Write \X (1 .. PacketSize))
    /\ \A i \in 1 .. Len(wq) : wr[wq[i]] = "pending"
    /\ \A i, j \in 1 .. Len(wq) : wq[i] = wq[j] => i = j
    /\ \A i \in 1 .. Len(out) : wr[out[i][1]] \notin {"new", "pending", "off"}
    /\ \A w \in Write : wr[w] = "failed" => ~isOpen \/ peer = "gone"
    /\ PacketsDoNotMix

Wire == Seq(Write \X (1 .. PacketSize))

LEMMA WriteInit == Init => WriteInv
<1> SUFFICES ASSUME Init PROVE WriteInv
  OBVIOUS
<1>1. <<>> \in Seq(Write) /\ <<>> \in Wire /\ Len(<<>>) = 0
  BY EmptySeq DEF Wire
<1>2. off \in [Write -> 0 .. PacketSize]
  BY SizeAssumption DEF Init
<1> QED
  BY <1>1, <1>2 DEF Init, WriteInv, PacketsDoNotMix, States, Wire

\* n bytes of one packet, after its first k.
BytesOf(w, k, n) == [i \in 1 .. n |-> <<w, k + i>>]

\* They are put on the wire.
LEMMA MoreOnWire ==
    ASSUME NEW s \in Wire, NEW w \in Write, NEW k \in Nat, NEW n \in Nat, k + n <= PacketSize
    PROVE  /\ s \o BytesOf(w, k, n) \in Wire
           /\ Len(s \o BytesOf(w, k, n)) = Len(s) + n
           /\ \A i \in 1 .. Len(s) + n :
                  /\ i <= Len(s) => (s \o BytesOf(w, k, n))[i][1] = s[i][1]
                  /\ ~(i <= Len(s)) => (s \o BytesOf(w, k, n))[i][1] = w
<1> DEFINE t == BytesOf(w, k, n)
<1>1. \A i \in 1 .. n : <<w, k + i>> \in Write \X (1 .. PacketSize)
  BY SizeAssumption
<1>2. t \in Wire /\ Len(t) = n /\ \A i \in 1 .. n : t[i][1] = w
  <2>1. t \in Seq(Write \X (1 .. PacketSize)) /\ Len(t) = n
    <3>1. n \in Nat
      OBVIOUS
    <3> QED
      BY ONLY <1>1, <3>1 DEF BytesOf
  <2>2. \A i \in 1 .. n : t[i][1] = w
    BY DEF BytesOf
  <2> QED
    BY <2>1, <2>2, Zenon DEF Wire
<1> HIDE DEF t
<1>3. Len(s) \in Nat
  BY LenProperties DEF Wire
<1>4. /\ s \o t \in Wire /\ Len(s \o t) = Len(s) + Len(t)
      /\ \A i \in 1 .. Len(s) + Len(t) : (s \o t)[i] = IF i <= Len(s) THEN s[i] ELSE t[i - Len(s)]
  <2>1. s \in Seq(Write \X (1 .. PacketSize)) /\ t \in Seq(Write \X (1 .. PacketSize))
    BY <1>2 DEF Wire
  <2> QED
    BY ONLY <2>1, ConcatProperties, SMTT(30) DEF Wire
<1>5. ASSUME NEW i \in 1 .. Len(s) + n
      PROVE  /\ i <= Len(s) => (s \o t)[i][1] = s[i][1]
             /\ ~(i <= Len(s)) => (s \o t)[i][1] = w
  <2>1. CASE i <= Len(s)
    BY <1>2, <1>4, <2>1, Zenon
  <2>2. CASE ~(i <= Len(s))
    <3>1. i - Len(s) \in 1 .. n
      BY <1>3, <2>2
    <3> QED
      BY <1>2, <1>4, <2>2, <3>1, Zenon
  <2> QED
    BY <2>1, <2>2
<1> QED
  BY <1>2, <1>4, <1>5, Zenon DEF t

\* The oldest write outstanding leaves the queue.
LEMMA HeadOfQueue ==
    ASSUME WriteInv, wq # <<>>
    PROVE  /\ Head(wq) \in Write /\ wr[Head(wq)] = "pending"
           /\ Tail(wq) \in Seq(Write)
           /\ \A i \in 1 .. Len(Tail(wq)) : wr[Tail(wq)[i]] = "pending" /\ Tail(wq)[i] # Head(wq)
           /\ \A i, j \in 1 .. Len(Tail(wq)) : Tail(wq)[i] = Tail(wq)[j] => i = j
<1>1. wq \in Seq(Write) /\ Len(wq) \in Nat \ {0}
  BY EmptySeq, LenProperties DEF WriteInv
<1>2. /\ Head(wq) = wq[1] /\ Head(wq) \in Write /\ Tail(wq) \in Seq(Write) /\ Len(Tail(wq)) = Len(wq) - 1
      /\ \A i \in 1 .. Len(Tail(wq)) : Tail(wq)[i] = wq[i + 1]
  BY <1>1, HeadTailProperties
<1>3. /\ 1 \in 1 .. Len(wq)
      /\ \A i \in 1 .. Len(Tail(wq)) : i + 1 \in 1 .. Len(wq) /\ i + 1 # 1
      /\ \A i, j \in 1 .. Len(Tail(wq)) : i + 1 = j + 1 => i = j
  BY <1>1, <1>2
<1>4. /\ \A i \in 1 .. Len(wq) : wr[wq[i]] = "pending"
      /\ \A i, j \in 1 .. Len(wq) : wq[i] = wq[j] => i = j
  BY DEF WriteInv
<1> QED
  <2>1. wr[Head(wq)] = "pending"
    BY <1>2, <1>3, <1>4, Zenon
  <2>2. ASSUME NEW i \in 1 .. Len(Tail(wq)) PROVE wr[Tail(wq)[i]] = "pending" /\ Tail(wq)[i] # Head(wq)
    <3>1. Tail(wq)[i] = wq[i + 1] /\ i + 1 \in 1 .. Len(wq) /\ i + 1 # 1
      BY <1>2, <1>3
    <3>2. wr[wq[i + 1]] = "pending" /\ wq[i + 1] # wq[1]
      BY <1>3, <1>4, <3>1, Zenon
    <3> QED
      BY <1>2, <3>1, <3>2
  <2>3. ASSUME NEW i \in 1 .. Len(Tail(wq)), NEW j \in 1 .. Len(Tail(wq)), Tail(wq)[i] = Tail(wq)[j]
        PROVE  i = j
    <3>1. wq[i + 1] = wq[j + 1]
      BY <1>2, <2>3, Zenon
    <3> QED
      BY <1>3, <1>4, <3>1, Zenon
  <2> QED
    BY <1>2, <2>1, <2>2, <2>3

LEMMA WriteSteps ==
    ASSUME WriteInv, GoesOn,
           \/ WriteSome \/ WriteFail
           \/ \E w \in Write : AsyncWrite(w) \/ HandlerWrite(w) \/ HandlerWriteFailed(w)
    PROVE  WriteInv'
<1>0. Len(wq) \in Nat /\ Len(out) \in Nat /\ out \in Wire
  BY LenProperties DEF WriteInv, Wire
<1>1. CASE WriteSome
  <2> DEFINE w == Head(wq)
  <2>1. PICK n \in 1 .. PacketSize - off[w] :
            /\ out' = out \o [i \in 1 .. n |-> <<w, off[w] + i>>]
            /\ off' = [off EXCEPT ![w] = @ + n]
            /\ wr' = [wr EXCEPT ![w] = "ready"]
    BY <1>1 DEF WriteSome
  <2>2. /\ wq # <<>> /\ wq' = Tail(wq) /\ UNCHANGED <<isOpen, peer>>
    BY <1>1 DEF WriteSome
  <2>3. /\ w \in Write /\ wr[w] = "pending" /\ wq' \in Seq(Write)
        /\ \A i \in 1 .. Len(wq') : wr[wq'[i]] = "pending" /\ wq'[i] # w
        /\ \A i, j \in 1 .. Len(wq') : wq'[i] = wq'[j] => i = j
    BY <2>2, HeadOfQueue
  <2> HIDE DEF w
  <2>4. /\ off \in [Write -> 0 .. PacketSize] /\ wr \in [Write -> States]
        /\ \A i \in 1 .. Len(out) : wr[out[i][1]] \notin {"new", "pending", "off"}
        /\ \A v \in Write : wr[v] = "failed" => ~isOpen \/ peer = "gone"
    BY DEF WriteInv
  <2>5. off[w] \in Nat /\ n \in Nat /\ off[w] + n \in 0 .. PacketSize
    BY <2>3, <2>4, SizeAssumption
  <2>6. off' \in [Write -> 0 .. PacketSize] /\ wr' \in [Write -> States]
    BY <2>1, <2>4, <2>5 DEF States
  <2>7. \A v \in Write : wr'[v] = IF v = w THEN "ready" ELSE wr[v]
    BY <2>1, <2>4
  <2>8. /\ out' \in Wire /\ Len(out') = Len(out) + n
        /\ \A i \in 1 .. Len(out) + n :
               /\ i <= Len(out) => out'[i][1] = out[i][1]
               /\ ~(i <= Len(out)) => out'[i][1] = w
    <3>1. off[w] + n <= PacketSize
      BY <2>5, SizeAssumption
    <3>2. out' = out \o BytesOf(w, off[w], n)
      BY <2>1 DEF BytesOf
    <3>3. w \in Write /\ off[w] \in Nat /\ n \in Nat
      BY <2>3, <2>5
    <3> QED
      <4> DEFINE k == off[w]
                 r == out \o BytesOf(w, k, n)
      <4>1. out \in Wire /\ k \in Nat /\ n \in Nat /\ k + n <= PacketSize /\ w \in Write
        BY <1>0, <3>1, <3>3
      <4>2. r \in Wire
        <5> HIDE DEF k
        <5> QED
          BY <4>1, MoreOnWire
      <4>3. Len(r) = Len(out) + n
        <5> HIDE DEF k
        <5> QED
          BY <4>1, MoreOnWire
      <4>4. ASSUME NEW i \in 1 .. Len(out) + n
            PROVE  /\ i <= Len(out) => r[i][1] = out[i][1]
                   /\ ~(i <= Len(out)) => r[i][1] = w
        <5> HIDE DEF k
        <5> QED
          BY <4>1, MoreOnWire
      <4> QED
        BY <3>2, <4>2, <4>3, <4>4, Zenon
  <2>9. \A i \in 1 .. Len(out) : out[i][1] \in Write /\ out[i][1] # w
    <3>1. \A i \in 1 .. Len(out) : out[i] \in Write \X (1 .. PacketSize)
      BY <1>0, ElementOfSeq DEF Wire
    <3>2. \A i \in 1 .. Len(out) : out[i][1] \in Write
      BY <3>1
    <3> QED
      BY <2>3, <2>4, <3>2
  <2>10. ASSUME NEW i \in 1 .. Len(wq') PROVE wr'[wq'[i]] = "pending"
    <3>1. wq'[i] \in Write
      BY <2>3, ElementOfSeq
    <3> QED
      BY <2>3, <2>7, <3>1
  <2>11. ASSUME NEW i \in 1 .. Len(out') PROVE wr'[out'[i][1]] \notin {"new", "pending", "off"}
    <3>1. CASE i <= Len(out)
      <4>1. i \in 1 .. Len(out) /\ i \in 1 .. Len(out) + n
        BY <1>0, <2>5, <2>8, <3>1
      <4>2. out'[i][1] = out[i][1]
        BY <2>8, <3>1, <4>1, Zenon
      <4> QED
        BY <2>4, <2>7, <2>9, <4>1, <4>2
    <3>2. CASE ~(i <= Len(out))
      <4>1. i \in 1 .. Len(out) + n
        BY <2>8
      <4>2. out'[i][1] = w
        BY <2>8, <3>2, <4>1, Zenon
      <4> QED
        BY <2>3, <2>7, <4>2
    <3> QED
      BY <3>1, <3>2
  <2>12. \A v \in Write : wr'[v] = "failed" => ~isOpen' \/ peer' = "gone"
    BY <2>2, <2>4, <2>7
  \* Of two bytes of one packet both are old, or both of this transfer.
  <2>13. PacketsDoNotMix'
    <3> SUFFICES ASSUME NEW i \in 1 .. Len(out'), NEW j \in 1 .. Len(out'), i < j, out'[i][1] = out'[j][1],
                        NEW k \in i .. j
                 PROVE  out'[k][1] = out'[i][1]
      <4>1. DOMAIN out' = 1 .. Len(out')
        BY <2>8, LenProperties DEF Wire
      <4> QED
        BY <4>1 DEF PacketsDoNotMix
    <3>1. /\ i \in 1 .. Len(out) + n /\ j \in 1 .. Len(out) + n /\ k \in 1 .. Len(out) + n
          /\ i <= k /\ k <= j
      BY <1>0, <2>5, <2>8
    <3>2. CASE j <= Len(out)
      <4>1. /\ i \in 1 .. Len(out) /\ j \in 1 .. Len(out) /\ k \in 1 .. Len(out)
            /\ i <= Len(out) /\ k <= Len(out)
        BY <1>0, <3>1, <3>2
      <4>2. out'[i][1] = out[i][1] /\ out'[j][1] = out[j][1] /\ out'[k][1] = out[k][1]
        BY <2>8, <3>1, <3>2, <4>1, Zenon
      <4>3. DOMAIN out = 1 .. Len(out)
        BY <1>0, LenProperties DEF Wire
      <4> QED
        BY <4>1, <4>2, <4>3 DEF WriteInv, PacketsDoNotMix
    <3>3. CASE ~(j <= Len(out))
      <4>1. out'[j][1] = w
        BY <2>8, <3>1, <3>3, Zenon
      <4>2. ~(i <= Len(out))
        <5>1. SUFFICES ASSUME i <= Len(out) PROVE FALSE
          OBVIOUS
        <5>2. i \in 1 .. Len(out) /\ out'[i][1] = out[i][1]
          BY <1>0, <2>8, <3>1, <5>1
        <5> QED
          BY <2>9, <4>1, <5>2
      <4>3. ~(k <= Len(out))
        BY <1>0, <3>1, <4>2
      <4> QED
        BY <2>8, <3>1, <4>2, <4>3, Zenon
    <3> QED
      BY <3>2, <3>3
  <2>14. \A i, j \in 1 .. Len(wq') : wq'[i] = wq'[j] => i = j
    BY <2>3
  <2> QED
    BY <2>3, <2>6, <2>8, <2>10, <2>11, <2>12, <2>13, <2>14, Zenon DEF WriteInv, Wire
\* Steps that leave the wire alone, and the bytes transferred.
<1>2. ASSUME NEW w \in Write, NEW to \in States, wr' = [wr EXCEPT ![w] = to], UNCHANGED <<off, out>>,
             to = "pending" => wr[w] = "new",
             to \in {"new", "off"} => wr[w] = "new",
             to = "failed" => ~isOpen \/ peer = "gone",
             wq' \in Seq(Write),
             \A i \in 1 .. Len(wq') : (wq'[i] = w /\ to = "pending")
                                     \/ (wq'[i] # w /\ wr[wq'[i]] = "pending"),
             \A i, j \in 1 .. Len(wq') : wq'[i] = wq'[j] => i = j
      PROVE  WriteInv'
  <2>1. /\ wr \in [Write -> States] /\ wr' \in [Write -> States]
        /\ \A v \in Write : wr'[v] = IF v = w THEN to ELSE wr[v]
    BY <1>2 DEF WriteInv
  <2>2. ASSUME NEW i \in 1 .. Len(wq') PROVE wr'[wq'[i]] = "pending"
    <3>1. wq'[i] \in Write
      BY <1>2, ElementOfSeq
    <3> QED
      BY <1>2, <2>1, <3>1
  <2>3. ASSUME NEW i \in 1 .. Len(out') PROVE wr'[out'[i][1]] \notin {"new", "pending", "off"}
    <3>1. i \in 1 .. Len(out) /\ out' = out
      BY <1>2
    <3>2. out[i] \in Write \X (1 .. PacketSize)
      BY <1>0, <3>1, ElementOfSeq DEF Wire
    <3>3. out[i][1] \in Write /\ wr[out[i][1]] \notin {"new", "pending", "off"}
      BY <3>1, <3>2 DEF WriteInv
    <3> QED
      BY <1>2, <2>1, <3>1, <3>3
  <2>4. \A v \in Write : wr'[v] = "failed" => ~isOpen' \/ peer' = "gone"
    BY <1>2, <2>1 DEF GoesOn, WriteInv
  <2>5. PacketsDoNotMix'
    <3>1. out' = out /\ PacketsDoNotMix
      BY <1>2 DEF WriteInv
    <3> QED
      BY ONLY <3>1 DEF PacketsDoNotMix
  <2>6. off' \in [Write -> 0 .. PacketSize] /\ out' \in Seq(Write \X (1 .. PacketSize))
    BY <1>2 DEF WriteInv
  <2>7. \A i, j \in 1 .. Len(wq') : wq'[i] = wq'[j] => i = j
    BY <1>2
  <2> QED
    BY <1>2, <2>1, <2>2, <2>3, <2>4, <2>5, <2>6, <2>7, Zenon DEF WriteInv
\* A write that is not in the queue changes its state, and the queue does not.
<1>3. ASSUME NEW w \in Write, NEW to \in States, wr' = [wr EXCEPT ![w] = to], UNCHANGED <<off, out, wq>>,
             wr[w] # "pending", to # "pending", to # "failed",
             to \in {"new", "off"} => wr[w] = "new"
      PROVE  WriteInv'
  <2>1. /\ wq' \in Seq(Write)
        /\ \A i \in 1 .. Len(wq') : wq'[i] # w /\ wr[wq'[i]] = "pending"
        /\ \A i, j \in 1 .. Len(wq') : wq'[i] = wq'[j] => i = j
    BY <1>3 DEF WriteInv
  <2> QED
    BY <1>2, <1>3, <2>1
<1>4. CASE WriteFail
  <2>1. /\ wq # <<>> /\ wq' = Tail(wq) /\ wr' = [wr EXCEPT ![Head(wq)] = "failed"]
        /\ UNCHANGED <<off, out>> /\ (~isOpen \/ peer = "gone")
    BY <1>4 DEF WriteFail
  <2>2. "failed" \in States
    BY DEF States
  <2> QED
    BY <1>2, <2>1, <2>2, HeadOfQueue
<1>5. ASSUME NEW w \in Write, AsyncWrite(w) PROVE WriteInv'
  <2>1. CASE isOpen
    <3>1. /\ wr[w] = "new" /\ wr' = [wr EXCEPT ![w] = "pending"] /\ wq' = Append(wq, w)
          /\ UNCHANGED <<off, out>>
      BY <1>5, <2>1 DEF AsyncWrite
    <3>2. /\ wq' \in Seq(Write) /\ Len(wq') = Len(wq) + 1
          /\ \A i \in 1 .. Len(wq) + 1 : wq'[i] = IF i <= Len(wq) THEN wq[i] ELSE w
      <4>1. wq \in Seq(Write)
        BY DEF WriteInv
      <4> QED
        BY <3>1, <4>1, AppendProperties
    <3>3. \A i \in 1 .. Len(wq) : wq[i] # w /\ wr[wq[i]] = "pending"
      BY <3>1 DEF WriteInv
    <3>4. ASSUME NEW i \in 1 .. Len(wq'), NEW j \in 1 .. Len(wq'), wq'[i] = wq'[j] PROVE i = j
      <4>1. /\ i \in 1 .. Len(wq) + 1 /\ j \in 1 .. Len(wq) + 1
            /\ i <= Len(wq) => i \in 1 .. Len(wq)
            /\ j <= Len(wq) => j \in 1 .. Len(wq)
            /\ ~(i <= Len(wq)) /\ ~(j <= Len(wq)) => i = j
        BY <1>0, <3>2
      <4>2. /\ wq'[i] = IF i <= Len(wq) THEN wq[i] ELSE w
            /\ wq'[j] = IF j <= Len(wq) THEN wq[j] ELSE w
        BY <3>2, <4>1, Zenon
      <4>3. \A k, l \in 1 .. Len(wq) : wq[k] = wq[l] => k = l
        BY DEF WriteInv
      <4>4. CASE i <= Len(wq) /\ j <= Len(wq)
        BY <3>4, <4>1, <4>2, <4>3, <4>4, Zenon
      <4> QED
        BY <3>3, <3>4, <4>1, <4>2, <4>4, Zenon
    <3>5. "pending" \in States
      BY DEF States
    <3>6. \A i \in 1 .. Len(wq') : wq'[i] = w \/ (wq'[i] # w /\ wr[wq'[i]] = "pending")
      <4>1. ASSUME NEW i \in 1 .. Len(wq') PROVE wq'[i] = w \/ (wq'[i] # w /\ wr[wq'[i]] = "pending")
        <5>1. i \in 1 .. Len(wq) + 1 /\ (i <= Len(wq) => i \in 1 .. Len(wq))
          BY <1>0, <3>2
        <5>2. wq'[i] = IF i <= Len(wq) THEN wq[i] ELSE w
          BY <3>2, <5>1, Zenon
        <5> QED
          <6>1. CASE i <= Len(wq)
            BY <3>3, <5>1, <5>2, <6>1, Zenon
          <6>2. CASE ~(i <= Len(wq))
            BY <5>2, <6>2
          <6> QED
            BY <6>1, <6>2
      <4> QED
        BY <4>1
    <3> QED
      BY <1>2, <3>1, <3>2, <3>4, <3>5, <3>6
  <2>2. CASE ~isOpen
    BY <1>3, <1>5, <2>2 DEF AsyncWrite, States
  <2> QED
    BY <2>1, <2>2
<1>6. ASSUME NEW w \in Write, HandlerWrite(w) PROVE WriteInv'
  <2>1. Transferred(w) >= PacketSize
    BY SizeAssumption DEF Transferred
  <2>2. wr[w] = "ready" /\ wr' = [wr EXCEPT ![w] = "ok"] /\ UNCHANGED <<off, out, wq>>
    BY <1>6, <2>1 DEF HandlerWrite
  <2> QED
    BY <1>3, <2>2 DEF States
<1>7. ASSUME NEW w \in Write, HandlerWriteFailed(w) PROVE WriteInv'
  BY <1>3, <1>7 DEF HandlerWriteFailed, States
<1> QED
  BY <1>1, <1>4, <1>5, <1>6, <1>7

LEMMA WriteStep == WriteInv /\ [Next]_vars => WriteInv'
<1> SUFFICES ASSUME WriteInv, [Next]_vars PROVE WriteInv'
  OBVIOUS
<1>1. GoesOn
  BY NextGoesOn
<1>2. ASSUME UNCHANGED writeVars PROVE WriteInv'
  BY <1>1, <1>2 DEF GoesOn, writeVars, WriteInv, PacketsDoNotMix
<1>3. CASE \/ WriteSome \/ WriteFail
           \/ \E w \in Write : AsyncWrite(w) \/ HandlerWrite(w) \/ HandlerWriteFailed(w)
  BY <1>1, <1>3, WriteSteps
<1>4. CASE ReadFail \/ HandlerRead \/ HandlerReadFailed \/ ReadAgain \/ FreeByHandler \/ FirstRead \/ Arm
           \/ ReadSome \/ Tick \/ Fire \/ HandlerTimeout \/ FreeByOther \/ PeerSends \/ PeerGone
           \/ UNCHANGED vars
  BY <1>2, <1>4 DEF ReadFail, HandlerRead, HandlerReadFailed, ReadAgain, FreeByHandler, FirstRead, BeginRead,
      Arm, ReadSome, Tick, Fire, HandlerTimeout, FreeByOther, PeerSends, PeerGone, vars
<1> QED
  BY <1>3, <1>4 DEF Next, IoNext

-----------------------------------------------------------------------------
(* The theorems.                                                           *)

\* The parts of the inductive invariant: the bytes of reads, the timer, the wire.
SocketInv == ReadInv /\ TimerInv /\ WriteInv

LEMMA SocketCorrect == Spec => []SocketInv
<1>1. Init => SocketInv
  BY ReadInit, TimerInit, WriteInit DEF SocketInv
<1>2. SocketInv /\ [Next]_vars => SocketInv'
  BY ReadStep, TimerStep, WriteStep DEF SocketInv
<1> QED
  BY <1>1, <1>2, PTL DEF Spec

\* The state of a connection has the types that the model declares.
THEOREM TypeCorrect == Spec => []TypeOK
<1>1. SocketInv => TypeOK
  <2> SUFFICES ASSUME SocketInv PROVE TypeOK
    OBVIOUS
  <2>1. moved \in 0 .. Expect - Len(buf)
    <3>1. Len(buf) \in Nat /\ moved \in 0 .. taken /\ taken \in Nat /\ Len(buf) + moved <= Expect
      BY LenProperties, SizeAssumption DEF SocketInv, ReadInv
    <3> QED
      BY <3>1, SizeAssumption
  <2> QED
    BY <2>1 DEF SocketInv, ReadInv, TimerInv, WriteInv, TypeOK, States
<1> QED
  BY <1>1, SocketCorrect, PTL

\* Whatever way reads are cut into transfers, their handlers are given the bytes
\* that arrived, in order, none lost and none twice (handler_read, commit).
THEOREM ReadsCorrect == Spec => []ReadsInOrder
<1>1. SocketInv => ReadsInOrder
  BY DEF SocketInv, ReadInv
<1> QED
  BY <1>1, SocketCorrect, PTL

\* The bytes of two packets are never interleaved on the wire, although
\* async_write does not wait for the write before it.
THEOREM WireCorrect == Spec => []PacketsDoNotMix
<1>1. SocketInv => PacketsDoNotMix
  BY DEF SocketInv, WriteInv
<1> QED
  BY <1>1, SocketCorrect, PTL

\* handler_timeout closes the socket of a read that is late and of no other.
THEOREM TimeoutCorrect == Spec => NoEarlyTimeout
<1>1. SocketInv /\ [Next]_vars =>
          [isOpen /\ ~isOpen' /\ fired' < fired => rd \in {"pending", "ready", "failed"} /\ due < 0]_vars
  <2> SUFFICES ASSUME TimerInv, Next, isOpen, ~isOpen', fired' < fired
               PROVE  rd \in {"pending", "ready", "failed"} /\ due < 0
    BY DEF SocketInv
  <2>1. CASE HandlerTimeout
    <3>1. fired > 0 /\ io = "idle" /\ arming # "io" /\ left < 0
      BY <2>1 DEF HandlerTimeout, IoIdle
    <3>2. arming = "nobody" /\ timeout > 0 /\ rd \in Busy
      BY <3>1, SizeAssumption DEF TimerInv, States, Busy
    <3> QED
      BY <3>1, <3>2 DEF TimerInv, Busy
  <2>2. CASE ~HandlerTimeout
    <3>1. isOpen' \/ fired' = fired
      BY <2>2 DEF Next, IoNext, FirstRead, ReadAgain, BeginRead, Arm, ReadSome, ReadFail, HandlerRead,
          HandlerReadFailed, AsyncWrite, WriteSome, WriteFail, HandlerWrite, HandlerWriteFailed, FreeByHandler,
          FreeByOther, Tick, Fire, PeerSends, PeerGone, timerVars
    <3> QED
      BY <3>1 DEF TimerInv
  <2> QED
    BY <2>1, <2>2
<1> QED
  BY <1>1, SocketCorrect, PTL DEF Spec, NoEarlyTimeout
-----------------------------------------------------------------------------
(* The operations, each with one outcome.                                  *)

OpState == [x \in 0 .. Writes |-> Phase(IF x = 0 THEN rd ELSE wr[x])]

\* The read, or a write, changes its phase.
LEMMA ReadPhase ==
    ASSUME wr' = wr
    PROVE  /\ OpState' = [OpState EXCEPT ![0] = Phase(rd')]
           /\ OpState[0] = Phase(rd)
<1>1. 0 \in 0 .. Writes
  BY SizeAssumption
<1>2. OpState' = [x \in 0 .. Writes |-> Phase(IF x = 0 THEN rd' ELSE wr[x])]
  BY DEF OpState, Phase
<1> QED
  BY <1>1, <1>2 DEF OpState

LEMMA WritePhase ==
    ASSUME wr \in [Write -> States], rd' = rd, NEW w \in Write, NEW to, wr' = [wr EXCEPT ![w] = to]
    PROVE  /\ OpState' = [OpState EXCEPT ![w] = Phase(to)]
           /\ OpState[w] = Phase(wr[w]) /\ w \in 0 .. Writes
<1>1. w \in 0 .. Writes /\ w # 0
  BY SizeAssumption DEF Write
<1>2. \A x \in 0 .. Writes : x # 0 => x \in Write
  BY SizeAssumption DEF Write
<1> QED
  BY <1>1, <1>2 DEF OpState, Phase

LEMMA OpsInit == Init => Ops!Init
BY SizeAssumption DEF Init, Ops!Init, Phase, Write

\* What the lemmas above say of OpState is a step of the abstract specification.
LEMMA OpsStep ==
    ASSUME NEW x \in 0 .. Writes, UNCHANGED <<isOpen, peer>>,
           \/ /\ OpState[x] \in {"new", "ok"}
              /\ OpState' = [OpState EXCEPT ![x] = IF isOpen THEN "pending" ELSE "off"]
           \/ /\ OpState[x] = "pending"
              /\ OpState' = [OpState EXCEPT ![x] = "ok"]
           \/ /\ OpState[x] = "pending" /\ (~isOpen \/ peer = "gone")
              /\ OpState' = [OpState EXCEPT ![x] = "error"]
    PROVE  Ops!Next
<1>1. CASE /\ OpState[x] \in {"new", "ok"}
           /\ OpState' = [OpState EXCEPT ![x] = IF isOpen THEN "pending" ELSE "off"]
  <2>1. Ops!Start(x)
    BY <1>1 DEF Ops!Start, Ops!Step, OpState
  <2> QED
    BY <2>1 DEF Ops!Next
<1>2. CASE OpState[x] = "pending" /\ OpState' = [OpState EXCEPT ![x] = "ok"]
  <2>1. Ops!Succeed(x)
    BY <1>2 DEF Ops!Succeed, Ops!Step, OpState
  <2> QED
    BY <2>1 DEF Ops!Next
<1>3. CASE /\ OpState[x] = "pending" /\ (~isOpen \/ peer = "gone")
           /\ OpState' = [OpState EXCEPT ![x] = "error"]
  <2>1. Ops!Fail(x)
    BY <1>3 DEF Ops!Fail, Ops!Step, OpState
  <2> QED
    BY <2>1 DEF Ops!Next
<1> QED
  BY <1>1, <1>2, <1>3

LEMMA OpsSteps == SocketInv /\ [Next]_vars => [Ops!Next]_Ops!vars
<1> SUFFICES ASSUME SocketInv, [Next]_vars PROVE [Ops!Next]_Ops!vars
  OBVIOUS
<1>1. 0 \in 0 .. Writes
  BY SizeAssumption
<1>2. wr \in [Write -> States]
  BY DEF SocketInv, WriteInv
\* Steps that only cut an operation into pieces.
<1>3. ASSUME UNCHANGED <<isOpen, peer, wr>>, Phase(rd') = Phase(rd) PROVE UNCHANGED Ops!vars
  <2>1. OpState' = OpState
    BY <1>3 DEF OpState, Phase
  <2> QED
    BY <1>3, <2>1 DEF Ops!vars, OpState
\* Steps that close the socket, or do not.
<1>4. ASSUME UNCHANGED <<peer, wr, rd>>, isOpen \in BOOLEAN, isOpen' = isOpen \/ isOpen' = FALSE
      PROVE  [Ops!Next]_Ops!vars
  <2>1. OpState' = OpState
    BY <1>4 DEF OpState, Phase
  <2>2. CASE isOpen' = isOpen
    BY <1>3, <1>4, <2>2
  <2>3. CASE isOpen /\ isOpen' = FALSE
    <3>1. Ops!Close
      BY <1>4, <2>1, <2>3 DEF Ops!Close, OpState
    <3> QED
      BY <3>1 DEF Ops!Next
  <2> QED
    BY <1>4, <2>2, <2>3
\* The read.
<1>5. ASSUME NEW thread, BeginRead(thread), rd \in {"new", "ok"} PROVE Ops!Next
  <2>1. /\ UNCHANGED <<isOpen, peer>> /\ wr' = wr /\ rd' = IF isOpen THEN "pending" ELSE "off"
    BY <1>5 DEF BeginRead, writeVars
  <2>2. Phase(rd) \in {"new", "ok"} /\ Phase(rd') = IF isOpen THEN "pending" ELSE "off"
    BY <1>5, <2>1 DEF Phase
  <2> QED
    BY <1>1, <2>1, <2>2, ReadPhase, OpsStep
<1>6. CASE FirstRead
  BY <1>5, <1>6 DEF FirstRead
<1>7. CASE ReadAgain
  BY <1>5, <1>7 DEF ReadAgain, SocketInv, TimerInv
<1>8. CASE HandlerRead
  <2>1. UNCHANGED <<isOpen, peer>> /\ wr' = wr /\ rd = "ready" /\ rd' \in {"ok", "pending"}
    BY <1>8 DEF HandlerRead, GiveRead, writeVars
  <2>2. CASE rd' = "pending"
    BY <1>3, <2>1, <2>2 DEF Phase
  <2>3. CASE rd' = "ok"
    <3>1. Phase(rd) = "pending" /\ Phase(rd') = "ok"
      BY <2>1, <2>3 DEF Phase
    <3> QED
      BY <1>1, <2>1, <3>1, ReadPhase, OpsStep
  <2> QED
    BY <2>1, <2>2, <2>3
<1>9. CASE HandlerReadFailed
  <2>1. UNCHANGED <<isOpen, peer>> /\ wr' = wr /\ rd = "failed" /\ rd' = "error"
    BY <1>9 DEF HandlerReadFailed, writeVars
  <2>2. Phase(rd) = "pending" /\ Phase(rd') = "error" /\ (~isOpen \/ peer = "gone")
    BY <2>1 DEF Phase, SocketInv, TimerInv
  <2> QED
    BY <1>1, <2>1, <2>2, ReadPhase, OpsStep
\* Writes.
<1>10. ASSUME NEW w \in Write, AsyncWrite(w) PROVE Ops!Next
  <2>1. /\ UNCHANGED <<isOpen, peer>> /\ rd' = rd /\ wr[w] = "new"
        /\ wr' = [wr EXCEPT ![w] = IF isOpen THEN "pending" ELSE "off"]
    BY <1>10 DEF AsyncWrite, readVars
  <2> DEFINE to == IF isOpen THEN "pending" ELSE "off"
  <2>2. Phase(wr[w]) = "new" /\ Phase(to) = to
    BY <2>1 DEF Phase
  <2>3. wr' = [wr EXCEPT ![w] = to]
    BY <2>1
  <2> HIDE DEF to
  <2>4. OpState' = [OpState EXCEPT ![w] = to] /\ OpState[w] = "new" /\ w \in 0 .. Writes
    <3>1. OpState' = [OpState EXCEPT ![w] = Phase(to)] /\ OpState[w] = Phase(wr[w]) /\ w \in 0 .. Writes
      BY <1>2, <2>1, <2>3, WritePhase
    <3> QED
      BY <2>2, <3>1
  <2> QED
    BY <2>1, <2>4, OpsStep DEF to
<1>11. ASSUME NEW w \in Write, HandlerWrite(w) PROVE Ops!Next
  <2>1. Transferred(w) >= PacketSize
    BY SizeAssumption DEF Transferred
  <2>2. /\ UNCHANGED <<isOpen, peer>> /\ rd' = rd /\ wr[w] = "ready"
        /\ wr' = [wr EXCEPT ![w] = "ok"]
    BY <1>11, <2>1 DEF HandlerWrite, readVars
  <2>3. Phase(wr[w]) = "pending" /\ Phase("ok") = "ok"
    BY <2>2 DEF Phase
  <2> QED
    BY <1>2, <2>2, <2>3, WritePhase, OpsStep
<1>12. ASSUME NEW w \in Write, HandlerWriteFailed(w) PROVE Ops!Next
  <2>1. /\ UNCHANGED <<isOpen, peer>> /\ rd' = rd /\ wr[w] = "failed"
        /\ wr' = [wr EXCEPT ![w] = "error"]
    BY <1>12 DEF HandlerWriteFailed, readVars
  <2>2. Phase(wr[w]) = "pending" /\ Phase("error") = "error" /\ (~isOpen \/ peer = "gone")
    BY <2>1 DEF Phase, SocketInv, WriteInv
  <2>3. OpState' = [OpState EXCEPT ![w] = "error"] /\ OpState[w] = "pending" /\ w \in 0 .. Writes
    <3>1. /\ OpState' = [OpState EXCEPT ![w] = Phase("error")]
          /\ OpState[w] = Phase(wr[w]) /\ w \in 0 .. Writes
      BY <1>2, <2>1, WritePhase
    <3> QED
      BY <2>2, <3>1
  <2> QED
    BY <2>1, <2>2, <2>3, OpsStep
<1>13. ASSUME NEW w \in Write, NEW to \in {"ready", "failed"}, wr[w] = "pending", wr' = [wr EXCEPT ![w] = to],
              UNCHANGED <<isOpen, peer, rd>>
       PROVE  UNCHANGED Ops!vars
  <2>1. Phase(to) = "pending" /\ Phase(wr[w]) = "pending"
    BY <1>13 DEF Phase
  <2>2. OpState' = [OpState EXCEPT ![w] = "pending"] /\ OpState[w] = "pending" /\ w \in 0 .. Writes
    BY <1>2, <1>13, <2>1, WritePhase
  <2>3. OpState' = OpState
    BY <2>2 DEF OpState
  <2> QED
    BY <1>13, <2>3 DEF Ops!vars, OpState
<1>14. CASE WriteSome \/ WriteFail
  <2>1. Head(wq) \in Write /\ wr[Head(wq)] = "pending"
    BY <1>14, HeadOfQueue DEF WriteSome, WriteFail, SocketInv
  <2>2. CASE WriteSome
    BY <1>13, <2>1, <2>2 DEF WriteSome, readVars
  <2>3. CASE WriteFail
    BY <1>13, <2>1, <2>3 DEF WriteFail, readVars
  <2> QED
    BY <1>14, <2>2, <2>3
\* The rest.
<1>15. CASE ReadSome \/ ReadFail
  BY <1>3, <1>15 DEF ReadSome, ReadFail, writeVars, Phase
<1>16. CASE FreeByHandler \/ FreeByOther \/ HandlerTimeout
  <2>1. isOpen \in BOOLEAN
    BY DEF SocketInv, TimerInv
  <2>2. UNCHANGED <<peer, wr, rd>>
    BY <1>16 DEF FreeByHandler, FreeByOther, HandlerTimeout, readVars, writeVars
  <2>3. isOpen' = isOpen \/ isOpen' = FALSE
    BY <1>16, Zenon DEF FreeByHandler, FreeByOther, HandlerTimeout, Free
  <2> QED
    BY <1>4, <2>1, <2>2, <2>3
<1>17. CASE PeerGone
  <2>1. OpState' = OpState
    BY <1>17 DEF PeerGone, readVars, writeVars, OpState, Phase
  <2>2. Ops!Leave
    BY <1>17, <2>1 DEF PeerGone, Ops!Leave, OpState
  <2> QED
    BY <2>2 DEF Ops!Next
<1>18. CASE Arm \/ Tick \/ Fire \/ PeerSends \/ UNCHANGED vars
  BY <1>3, <1>18 DEF Arm, Tick, Fire, PeerSends, vars, readVars, writeVars
<1> QED
  BY <1>6, <1>7, <1>8, <1>9, <1>10, <1>11, <1>12, <1>14, <1>15, <1>16, <1>17, <1>18 DEF Next, IoNext

\* A read or a write, however it is cut into transfers and whatever the timer
\* does, is one operation of SocketOps: one outcome, and a failure only on a
\* socket that is closed or whose remote end is gone.
THEOREM OpsCorrect == Spec => OpsSpec
<1>1. Init => Ops!Init
  BY OpsInit
<1>2. SocketInv /\ [Next]_vars => [Ops!Next]_Ops!vars
  BY OpsSteps
<1> QED
  BY <1>1, <1>2, SocketCorrect, PTL DEF Spec, OpsSpec, Ops!Spec
=============================================================================
