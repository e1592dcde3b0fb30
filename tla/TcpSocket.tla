------------------------------ MODULE TcpSocket ------------------------------
(***************************************************************************)
(* One connection of tlhh::tcp::socket in detail: a read or a write is a   *)
(* series of transfers through a tlhh::buffer, a read may have a timeout,  *)
(* and free() may come from any thread at any time.                        *)
(*                                                                         *)
(* The io thread of the socket runs the handlers, one at a time; the first *)
(* read, the writes and free() may come from other threads. The owner of   *)
(* the socket reads on after every read and frees the socket after an      *)
(* error, as server and tcp_client do.                                     *)
(***************************************************************************)
EXTENDS Integers, Sequences

CONSTANTS
    Writes,      \* bound: calls of async_write, numbered in their order
    PacketSize,  \* bytes of a packet written
    Expect,      \* expect_size of a read, at most the size of its buffer
    Timeouts,    \* milliseconds_timeout of a read, in ticks; 0 is none
    MaxSent      \* bound: bytes that the peer sends

ASSUME SizeAssumption ==
    /\ PacketSize \in Nat \ {0} /\ Expect \in Nat \ {0}
    /\ MaxSent \in Nat /\ Writes \in Nat
    /\ Timeouts \subseteq Nat

VARIABLES
    isOpen, peer,       \* the socket, and the remote end
    sent, taken,        \* bytes the peer has sent, and bytes transferred to buffers
    timeout,            \* the milliseconds_timeout that this owner gives to its reads
    rd, buf, moved,     \* the read: its state, the bytes committed to its buffer, and
                        \* how many its completion has transferred
    given,              \* history: the bytes given to the handlers of reads
    io,                 \* what the io thread has still to do in a handler
    arming,             \* the thread that, in async_read and holding mutex_, has yet
                        \* to set the timer
    left, waits, fired, \* timer_: ticks until expires_at(), outstanding waits, and
                        \* handler_timeout calls that no cancel can stop any more
    due,                \* history: ticks until the outstanding read is late
    wr, off, wq,        \* writes: state, bytes transferred, and those outstanding,
                        \* in the order in which the system sends them
    out                 \* history: the bytes that went out

timerVars == <<left, waits, fired, due>>
readVars  == <<rd, buf, moved, taken, given>>
writeVars == <<wr, off, wq, out>>
vars == <<isOpen, peer, sent, timeout, readVars, io, arming, timerVars, writeVars>>

Write == 1 .. Writes

Numbers(a, b) == [i \in 1 .. b - a + 1 |-> a + i - 1]

TypeOK ==
    /\ isOpen \in BOOLEAN /\ peer \in {"up", "gone"}
    /\ sent \in 0 .. MaxSent /\ taken \in 0 .. sent /\ timeout \in Timeouts
    /\ rd \in {"new", "pending", "ready", "failed", "ok", "error", "off"}
    /\ buf \in Seq(1 .. taken) /\ given \in Seq(1 .. taken)
    /\ moved \in 0 .. Expect - Len(buf)
    /\ io \in {"idle", "again", "free"} /\ arming \in {"nobody", "io", "other"}
    /\ left \in Int /\ due \in Int /\ waits \in Nat /\ fired \in Nat
    /\ wr \in [Write -> {"new", "pending", "ready", "failed", "ok", "error", "off"}]
    /\ off \in [Write -> 0 .. PacketSize] /\ wq \in Seq(Write)
    /\ out \in Seq(Write \X (1 .. PacketSize))

\* A connection has just been accepted or established.
Init ==
    /\ isOpen = TRUE /\ peer = "up" /\ sent = 0 /\ taken = 0 /\ timeout \in Timeouts
    /\ rd = "new" /\ buf = <<>> /\ moved = 0 /\ given = <<>>
    /\ io = "idle" /\ arming = "nobody"
    /\ left = -1 /\ waits = 0 /\ fired = 0 /\ due = -1
    /\ wr = [w \in Write |-> "new"] /\ wq = <<>> /\ out = <<>>
    /\ off = [w \in Write |-> 0]

Unlocked == arming = "nobody"
IoIdle == io = "idle" /\ arming # "io"

-----------------------------------------------------------------------------
(* Reads.                                                                  *)

\* Mutant of BeginRead: async_read does not look whether the socket is open.
BeginReadAnyway(thread) ==
    /\ Unlocked
    /\ rd' = "pending" /\ buf' = <<>> /\ due' = timeout
    /\ arming' = IF timeout > 0 THEN thread ELSE "nobody"
    /\ UNCHANGED <<isOpen, peer, sent, timeout, moved, taken, given, left, waits, fired, writeVars>>

\* async_read under mutex_, into a cleared buffer: on a closed socket nothing
\* is started and nobody called. The timeout is set after the read is started.
BeginRead(thread) ==
    /\ Unlocked
    /\ rd' = IF isOpen THEN "pending" ELSE "off"
    /\ buf' = <<>>
    /\ due' = IF isOpen THEN timeout ELSE due
    /\ arming' = IF isOpen /\ timeout > 0 THEN thread ELSE "nobody"
    /\ UNCHANGED <<isOpen, peer, sent, timeout, moved, taken, given, left, waits, fired, writeVars>>

\* The thread that accepted the connection starts the first read ...
FirstRead == rd = "new" /\ BeginRead("other") /\ UNCHANGED io

\* ... and the handler of a read the next one.
ReadAgain == io = "again" /\ BeginRead("io") /\ io' = "idle"

\* Mutant of Arm: expires_from_now is called once, for the first read.
ArmOnce ==
    /\ ~Unlocked
    /\ left' = IF given = <<>> THEN timeout ELSE left
    /\ waits' = 1
    /\ arming' = "nobody"
    /\ UNCHANGED <<isOpen, peer, sent, timeout, readVars, io, fired, due, writeVars>>

\* expires_from_now, which cancels the waits there are, and async_wait.
Arm ==
    /\ ~Unlocked
    /\ left' = timeout /\ waits' = 1
    /\ arming' = "nobody"
    /\ UNCHANGED <<isOpen, peer, sent, timeout, readVars, io, fired, due, writeVars>>

\* Mutant of ReadSome: every transfer asks for expect_size bytes.
ReadFull ==
    /\ rd = "pending" /\ isOpen
    /\ \E n \in 1 .. Expect :
           /\ taken + n <= sent
           /\ moved' = n /\ taken' = taken + n
    /\ rd' = "ready"
    /\ UNCHANGED <<isOpen, peer, sent, timeout, buf, given, io, arming, timerVars, writeVars>>

\* async_read_some completes with some of the bytes that have arrived ...
ReadSome ==
    /\ rd = "pending" /\ isOpen
    /\ \E n \in 1 .. Expect - Len(buf) :
           /\ taken + n <= sent
           /\ moved' = n /\ taken' = taken + n
    /\ rd' = "ready"
    /\ UNCHANGED <<isOpen, peer, sent, timeout, buf, given, io, arming, timerVars, writeVars>>

\* ... or fails, as it does on a socket that is closed.
ReadFail ==
    /\ rd = "pending" /\ (~isOpen \/ peer = "gone")
    /\ rd' = "failed"
    /\ UNCHANGED <<isOpen, peer, sent, timeout, buf, moved, taken, given, io, arming, timerVars, writeVars>>

\* buffer::commit of a read: the bytes transferred follow those before.
Committed == buf \o Numbers(taken - moved + 1, taken)

\* cancel_timer, and the handler of the read, which reads on.
GiveRead ==
    /\ given' = given \o Committed /\ buf' = <<>>
    /\ waits' = 0 /\ due' = -1
    /\ rd' = "ok" /\ io' = "again"

\* Mutant of HandlerRead: the next transfer goes to raw(), the start of the buffer.
HandlerReadRaw ==
    /\ rd = "ready" /\ IoIdle
    /\ moved' = 0
    /\ \/ GiveRead
       \/ /\ Len(Committed) < Expect
          /\ buf' = <<>> /\ rd' = "pending"
          /\ UNCHANGED <<given, waits, due, io>>
    /\ UNCHANGED <<isOpen, peer, sent, timeout, taken, arming, left, fired, writeVars>>

\* Mutant of HandlerRead: every transfer cancels the timer.
HandlerReadCancels ==
    /\ rd = "ready" /\ IoIdle
    /\ moved' = 0
    /\ \/ GiveRead
       \/ /\ Len(Committed) < Expect
          /\ buf' = Committed /\ rd' = "pending" /\ waits' = 0
          /\ UNCHANGED <<given, due, io>>
    /\ UNCHANGED <<isOpen, peer, sent, timeout, taken, arming, left, fired, writeVars>>

\* handler_read: the read is complete when it has what it expects, or its
\* predicate says so; else it goes on, whether or not the socket is open.
HandlerRead ==
    /\ rd = "ready" /\ IoIdle
    /\ moved' = 0
    /\ \/ GiveRead
       \/ /\ Len(Committed) < Expect
          /\ buf' = Committed /\ rd' = "pending"
          /\ UNCHANGED <<given, waits, due, io>>
    /\ UNCHANGED <<isOpen, peer, sent, timeout, taken, arming, left, fired, writeVars>>

\* handler_read after an error: the handler is given no bytes, and frees.
HandlerReadFailed ==
    /\ rd = "failed" /\ IoIdle
    /\ waits' = 0 /\ due' = -1 /\ rd' = "error" /\ io' = "free"
    /\ UNCHANGED <<isOpen, peer, sent, timeout, buf, moved, taken, given, arming, left, fired, writeVars>>

-----------------------------------------------------------------------------
(* Writes.                                                                 *)

\* async_write under mutex_; its first transfer starts at raw().
AsyncWrite(w) ==
    /\ Unlocked /\ wr[w] = "new"
    /\ \A v \in 1 .. w - 1 : wr[v] # "new"
    /\ wr' = [wr EXCEPT ![w] = IF isOpen THEN "pending" ELSE "off"]
    /\ wq' = IF isOpen THEN Append(wq, w) ELSE wq
    /\ UNCHANGED <<isOpen, peer, sent, timeout, readVars, io, arming, timerVars, off, out>>

\* async_write_some sends some bytes of the oldest write outstanding ...
WriteSome ==
    /\ wq # <<>> /\ isOpen /\ peer = "up"
    /\ LET w == Head(wq) IN
           \E n \in 1 .. PacketSize - off[w] :
               /\ out' = out \o [i \in 1 .. n |-> <<w, off[w] + i>>]
               /\ off' = [off EXCEPT ![w] = @ + n]
               /\ wr' = [wr EXCEPT ![w] = "ready"]
    /\ wq' = Tail(wq)
    /\ UNCHANGED <<isOpen, peer, sent, timeout, readVars, io, arming, timerVars>>

\* ... or fails.
WriteFail ==
    /\ wq # <<>> /\ (~isOpen \/ peer = "gone")
    /\ wr' = [wr EXCEPT ![Head(wq)] = "failed"]
    /\ wq' = Tail(wq)
    /\ UNCHANGED <<isOpen, peer, sent, timeout, readVars, io, arming, timerVars, off, out>>

\* Mutant of Transferred: the buffer is made with its position at the start.
TransferredOnly(w) == off[w]

\* buffer::transferred(). A buffer made from data (buffer_pack, or a string) has
\* its position at the end already, and commit does not go beyond it.
Transferred(w) == PacketSize

\* handler_write: the handler, or a transfer of the bytes that are available.
HandlerWrite(w) ==
    /\ wr[w] = "ready" /\ IoIdle
    /\ IF Transferred(w) >= PacketSize
         THEN wr' = [wr EXCEPT ![w] = "ok"] /\ UNCHANGED wq
         ELSE wr' = [wr EXCEPT ![w] = "pending"] /\ wq' = Append(wq, w)
    /\ UNCHANGED <<isOpen, peer, sent, timeout, readVars, io, arming, timerVars, off, out>>

\* handler_write after an error: the handler frees the socket.
HandlerWriteFailed(w) ==
    /\ wr[w] = "failed" /\ IoIdle
    /\ wr' = [wr EXCEPT ![w] = "error"] /\ io' = "free"
    /\ UNCHANGED <<isOpen, peer, sent, timeout, readVars, arming, timerVars, off, wq, out>>

-----------------------------------------------------------------------------
(* Closing, and the timer.                                                 *)

\* free(): cancel_timer and close_.
Free == waits' = 0 /\ isOpen' = FALSE

FreeByHandler ==
    /\ io = "free" /\ Unlocked
    /\ Free /\ io' = "idle"
    /\ UNCHANGED <<peer, sent, timeout, readVars, arming, left, fired, due, writeVars>>

\* stop(), dis_connect() or a refused packet, in the thread that finds it.
FreeByOther ==
    /\ isOpen /\ Unlocked
    /\ Free
    /\ UNCHANGED <<peer, sent, timeout, readVars, io, arming, left, fired, due, writeVars>>

\* Time passes for the timer and for the read; -1 is later than the timeout.
Tick ==
    /\ left >= 0 \/ due >= 0
    /\ left' = IF left >= 0 THEN left - 1 ELSE left
    /\ due'  = IF due >= 0 THEN due - 1 ELSE due
    /\ UNCHANGED <<isOpen, peer, sent, timeout, readVars, io, arming, waits, fired, writeVars>>

\* The waits expire: their handlers are queued and no cancel reaches them.
Fire ==
    /\ waits > 0 /\ left <= 0
    /\ fired' = fired + waits /\ waits' = 0
    /\ UNCHANGED <<isOpen, peer, sent, timeout, readVars, io, arming, left, due, writeVars>>

\* Mutant of HandlerTimeout: the handler waits again after it has closed.
HandlerTimeoutAgain ==
    /\ fired > 0 /\ IoIdle
    /\ fired' = fired - 1 /\ waits' = waits + 1
    /\ isOpen' = (isOpen /\ left >= 0)
    /\ UNCHANGED <<peer, sent, timeout, readVars, io, arming, left, due, writeVars>>

\* handler_timeout, which takes neither mutex_ nor the strand: it closes the
\* socket, or waits on if a later read has moved expires_at().
HandlerTimeout ==
    /\ fired > 0 /\ IoIdle
    /\ fired' = fired - 1
    /\ IF left < 0
         THEN waits' = 0 /\ isOpen' = FALSE
         ELSE waits' = waits + 1 /\ UNCHANGED isOpen
    /\ UNCHANGED <<peer, sent, timeout, readVars, io, arming, left, due, writeVars>>

-----------------------------------------------------------------------------
\* The remote end sends a byte; what it sends to a closed socket is lost.
PeerSends ==
    /\ isOpen /\ peer = "up" /\ sent < MaxSent
    /\ sent' = sent + 1
    /\ UNCHANGED <<isOpen, peer, timeout, readVars, io, arming, timerVars, writeVars>>

PeerGone ==
    /\ peer = "up"
    /\ peer' = "gone"
    /\ UNCHANGED <<isOpen, sent, timeout, readVars, io, arming, timerVars, writeVars>>

\* What the io thread and the system do when they can.
IoNext ==
    \/ ReadFail \/ HandlerRead \/ HandlerReadFailed \/ ReadAgain
    \/ WriteFail \/ (\E w \in Write : HandlerWrite(w) \/ HandlerWriteFailed(w))
    \/ FreeByHandler

Next ==
    \/ IoNext
    \/ FirstRead \/ Arm \/ ReadSome
    \/ WriteSome \/ (\E w \in Write : AsyncWrite(w))
    \/ Tick \/ Fire \/ HandlerTimeout
    \/ FreeByOther \/ PeerSends \/ PeerGone

Spec == Init /\ [][Next]_vars

\* The io thread runs, a thread in async_read goes on, and time passes. The
\* timer's handler is queued with the others and has its turn. Not assumed: that
\* the peer sends or leaves, that data is transferred, that anyone writes or frees.
Fairness ==
    /\ WF_vars(IoNext) /\ WF_vars(Arm)
    /\ WF_vars(Tick) /\ WF_vars(Fire) /\ WF_vars(HandlerTimeout)

FairSpec == Spec /\ Fairness

-----------------------------------------------------------------------------
\* Whatever way reads are cut into transfers, the handlers are given the bytes
\* that arrived, in order, none lost and none twice, except those of a read that
\* failed halfway.
ReadsInOrder == given \o buf = Numbers(1, taken - moved)

\* The bytes of two packets are never interleaved on the wire, even though writes
\* are not queued: no byte of a packet follows one of a packet begun after it.
PacketsDoNotMix ==
    \A i, j \in DOMAIN out : i < j /\ out[i][1] = out[j][1] =>
        \A k \in i .. j : out[k][1] = out[i][1]

\* Only a read that is late makes the timer close a socket: not one that was
\* answered, whose handler_timeout is queued, nor a later one.
NoEarlyTimeout ==
    [][isOpen /\ ~isOpen' /\ fired' < fired =>
           /\ rd \in {"pending", "ready", "failed"}
           /\ due < 0]_vars

\* A read with a timeout ends, although the peer is silent or stops halfway.
SilentReadEnds == (timeout > 0 /\ rd = "pending") ~> (rd \in {"ok", "error"})

\* A socket that is closed becomes quiet: no operation, no wait and no handler is
\* left, each of which would keep the socket, and the io thread, alive.
Quiet ==
    /\ rd \notin {"pending", "ready", "failed"} /\ io = "idle"
    /\ \A w \in Write : wr[w] \notin {"pending", "ready", "failed"}
    /\ waits = 0 /\ fired = 0

ClosedIsQuiet == ~isOpen ~> Quiet

-----------------------------------------------------------------------------
\* The operations as TcpServer has them, each of which succeeds or fails in one
\* step; 0 is the read.
Phase(s) == IF s \in {"ready", "failed"} THEN "pending" ELSE s

Ops == INSTANCE SocketOps WITH
    Op <- 0 .. Writes,
    st <- [x \in 0 .. Writes |-> Phase(IF x = 0 THEN rd ELSE wr[x])],
    open <- isOpen, gone <- (peer = "gone")

\* A read or a write, however it is cut into transfers and whatever the timer
\* does, has one outcome, and fails only on a connection that is closed or gone.
OpsSpec == Ops!Spec
=============================================================================
