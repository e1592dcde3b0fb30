----------------------------- MODULE BufferParse -----------------------------
(***************************************************************************)
(* buffer_parse, the reassembly of packets from the chunks that the server *)
(* reads: one recv_buffer_ for all clients. A byte is a cell <<client,     *)
(* position in the stream of that client>>. Packets are laid out in a      *)
(* stream by a function from the position where a packet starts to its     *)
(* data_size field.                                                        *)
(***************************************************************************)
EXTENDS Integers, Sequences, FiniteSets

CONSTANTS
    Client,
    Cap,        \* SOCKET_TCP_BUFFER
    HeadSize,   \* sizeof(command_head), which is SIZE_COMMAND_HEAD
    Chunk,      \* the most bytes one read returns (1024)
    MaxPos,     \* bound: bytes a client sends
    MaxPacket,  \* the largest packet that clients send, if all are legal
    Layouts,    \* the layouts a client may choose
    Garbage     \* values of a data_size read where no header is

ASSUME SizeAssumption ==
    /\ Cap \in Nat /\ HeadSize \in Nat \ {0} /\ Chunk \in Nat \ {0}
    /\ MaxPos \in Nat /\ MaxPacket \in Nat
    /\ HeadSize <= Cap
    /\ Garbage \subseteq Nat

ASSUME LayoutAssumption ==
    \A f \in Layouts : \A p \in DOMAIN f : p \in Nat /\ f[p] \in Nat

VARIABLES
    layout,     \* the packets of each client
    sent,       \* bytes of each client that have been read
    buf,        \* recv_buffer_[0 .. recv_size - 1]
    pc, from,   \* where buffer_commit_unpack is, and whose chunk it was given
    thrown,     \* the last exception
    last,       \* the packet given to the last callback ...
    lastFrom,   \* ... and the client it was attributed to
    upto        \* history: how much of each stream was given to callbacks, in order

vars == <<layout, sent, buf, pc, from, thrown, last, lastFrom, upto>>

\* n bytes of a client's stream from position p on.
Bytes(c, p, n) == [i \in 1 .. n |-> <<c, p + i - 1>>]

TypeOK ==
    /\ layout \in [Client -> Layouts]
    /\ sent \in [Client -> Nat] /\ upto \in [Client -> Nat]
    /\ buf \in Seq(Client \X Nat) /\ last \in Seq(Client \X Nat)
    /\ pc \in {"idle", "loop"}
    /\ from \in Client /\ lastFrom \in Client
    /\ thrown \in {"none", "too long", "illegal"}

Init ==
    /\ layout \in [Client -> Layouts]
    /\ sent = [c \in Client |-> 0]
    /\ buf = <<>>
    /\ pc = "idle"
    /\ from \in Client /\ lastFrom = from
    /\ thrown = "none"
    /\ last = <<>>
    /\ upto = [c \in Client |-> 0]

-----------------------------------------------------------------------------
Throw(what) ==
    /\ thrown' = what
    /\ pc' = "idle"
    /\ UNCHANGED <<buf, last, lastFrom, upto>>

\* Mutant of Commit: the chunk is copied whatever room is left.
CommitUnchecked(c, n) ==
    /\ pc = "idle" /\ n <= MaxPos - sent[c]
    /\ sent' = [sent EXCEPT ![c] = @ + n]
    /\ from' = c
    /\ buf' = buf \o Bytes(c, sent[c], n)
    /\ pc' = "loop"
    /\ UNCHANGED <<layout, thrown, last, lastFrom, upto>>

\* Mutant of Commit: a chunk that fills the buffer exactly is refused.
CommitLess(c, n) ==
    /\ pc = "idle" /\ n <= MaxPos - sent[c]
    /\ sent' = [sent EXCEPT ![c] = @ + n]
    /\ from' = c
    /\ IF n >= Cap - Len(buf)
       THEN Throw("too long")
       ELSE /\ buf' = buf \o Bytes(c, sent[c], n)
            /\ pc' = "loop"
            /\ UNCHANGED <<thrown, last, lastFrom, upto>>
    /\ UNCHANGED layout

\* A chunk of n bytes of a client is committed, if there is room for it.
Commit(c, n) ==
    /\ pc = "idle" /\ n <= MaxPos - sent[c]
    /\ sent' = [sent EXCEPT ![c] = @ + n]
    /\ from' = c
    /\ IF n > Cap - Len(buf)
       THEN Throw("too long")
       ELSE /\ buf' = buf \o Bytes(c, sent[c], n)
            /\ pc' = "loop"
            /\ UNCHANGED <<thrown, last, lastFrom, upto>>
    /\ UNCHANGED layout

\* The values that data_size may have in the first bytes of the buffer: the
\* field of the header that starts there, or garbage (which may change when it
\* is read again: more than the code can do).
HeaderAt(c, p) == p \in DOMAIN layout[c] /\ SubSeq(buf, 1, HeadSize) = Bytes(c, p, HeadSize)
PackageSize ==
    LET c == buf[1][1]  p == buf[1][2]
    IN  IF HeaderAt(c, p) THEN {layout[c][p]} ELSE Garbage

\* Mutant of TooSmall: an illegal packet is skipped, as many bytes as it says.
TooSmallSkips ==
    /\ pc = "loop" /\ Len(buf) >= HeadSize
    /\ \E n \in PackageSize : n < HeadSize /\ buf' = SubSeq(buf, n + 1, Len(buf))
    /\ UNCHANGED <<layout, sent, pc, from, thrown, last, lastFrom, upto>>

\* One turn of the loop of buffer_commit_unpack, with a whole header received.
TooSmall ==
    /\ pc = "loop" /\ Len(buf) >= HeadSize
    /\ \E n \in PackageSize : n < HeadSize
    /\ Throw("illegal")
    /\ UNCHANGED <<layout, sent, from>>

TooLarge ==
    /\ pc = "loop" /\ Len(buf) >= HeadSize
    /\ \E n \in PackageSize : n >= HeadSize /\ n > Cap
    /\ Throw("too long")
    /\ UNCHANGED <<layout, sent, from>>

\* Mutant of Deliver: the bytes after the packet are dropped.
DeliverAlone ==
    /\ pc = "loop" /\ Len(buf) >= HeadSize
    /\ \E n \in PackageSize :
           /\ n \in HeadSize .. Cap /\ n <= Len(buf)
           /\ last' = SubSeq(buf, 1, n)
           /\ buf' = <<>>
           /\ upto' = IF last' = Bytes(from, upto[from], n)
                      THEN [upto EXCEPT ![from] = @ + n] ELSE upto
    /\ lastFrom' = from
    /\ UNCHANGED <<layout, sent, pc, from, thrown>>

\* Mutant of Deliver: the packet lacks its last byte.
DeliverShort ==
    /\ pc = "loop" /\ Len(buf) >= HeadSize
    /\ \E n \in PackageSize :
           /\ n \in HeadSize .. Cap /\ n <= Len(buf)
           /\ last' = SubSeq(buf, 1, n - 1)
           /\ buf' = SubSeq(buf, n + 1, Len(buf))
           /\ upto' = [upto EXCEPT ![from] = @ + n]
    /\ lastFrom' = from
    /\ UNCHANGED <<layout, sent, pc, from, thrown>>

\* A complete packet is given to the callback and leaves the buffer.
Deliver ==
    /\ pc = "loop" /\ Len(buf) >= HeadSize
    /\ \E n \in PackageSize :
           /\ n \in HeadSize .. Cap /\ n <= Len(buf)
           /\ last' = SubSeq(buf, 1, n)
           /\ buf' = SubSeq(buf, n + 1, Len(buf))
           /\ upto' = IF last' = Bytes(from, upto[from], n)
                      THEN [upto EXCEPT ![from] = @ + n] ELSE upto
    /\ lastFrom' = from
    /\ UNCHANGED <<layout, sent, pc, from, thrown>>

\* The loop ends: no header, or no complete packet, is left.
Finish ==
    /\ pc = "loop"
    /\ \/ Len(buf) < HeadSize
       \/ Len(buf) >= HeadSize /\ \E n \in PackageSize : n \in HeadSize .. Cap /\ n > Len(buf)
    /\ pc' = "idle"
    /\ UNCHANGED <<layout, sent, buf, from, thrown, last, lastFrom, upto>>

Next ==
    \/ \E c \in Client, n \in 1 .. Chunk : Commit(c, n)
    \/ TooSmall \/ TooLarge \/ Deliver \/ Finish

Spec == Init /\ [][Next]_vars

\* The work thread goes on with a chunk once it has begun.
FairSpec == Spec /\ WF_vars(TooSmall \/ TooLarge \/ Deliver \/ Finish)
-----------------------------------------------------------------------------
(* Whatever clients send.                                                  *)

\* The buffer is never written past its end (buffer_parseh.h:29-32).
BufferFits == Len(buf) <= Cap

\* buffer_commit_unpack returns or throws: a data_size too small to make
\* progress does not keep the work thread in the loop.
LoopEnds == (pc = "loop") ~> (pc = "idle")

-----------------------------------------------------------------------------
(* For legal clients.                                                      *)

\* Packets follow each other, each at least a header and at most MaxPacket long.
LegalLayout(f) ==
    /\ 0 \in DOMAIN f
    /\ \A p \in DOMAIN f :
           /\ f[p] \in HeadSize .. MaxPacket
           /\ p + f[p] \in DOMAIN f \/ p + f[p] > MaxPos
LegalClients == \A f \in Layouts : LegalLayout(f)

\* A packet given to a callback is a whole packet of the client it is
\* attributed to.
PacketsIntact ==
    last # <<>> =>
        \E p \in DOMAIN layout[lastFrom] : last = Bytes(lastFrom, p, layout[lastFrom][p])

\* Every byte read was given to a callback, in the order of its stream, or is
\* still in the buffer: nothing is lost, repeated or reordered.
NothingLost ==
    \A c \in Client :
        upto[c] + Cardinality({i \in DOMAIN buf : buf[i][1] = c}) = sent[c]

\* buffer_parseh.h:39: a packet is called illegal only when one was sent;
\* with legal clients there is no exception of that kind.
NoneIllegal == thrown # "illegal"

\* No exception at all, hence no legal client is disconnected by the parser.
NoThrow == thrown = "none"
=============================================================================
