---------------------------- MODULE MCBufferParse ----------------------------
(* Small instances of BufferParse for TLC.                                 *)
EXTENDS BufferParse, TLC

CONSTANTS a, b

One == {a}
Two == {a, b}

RECURSIVE LayoutsFrom(_, _)
LayoutsFrom(p, sizes) ==
    IF p > MaxPos THEN {<<>>}
    ELSE UNION {{(p :> n) @@ f : f \in LayoutsFrom(p + n, sizes)} : n \in sizes}

\* All layouts of legal packets.
Legal == LayoutsFrom(0, HeadSize .. MaxPacket)

\* Layouts with a data_size that is zero, too small or too large; the position
\* of the next packet is meant to be after one of MaxPacket bytes.
Illegal == {[f EXCEPT ![p] = n] : f \in LayoutsFrom(0, {MaxPacket}), p \in {0, MaxPacket},
                                  n \in (0 .. HeadSize - 1) \cup {Cap + 1}}
Mixed == LayoutsFrom(0, {HeadSize, MaxPacket}) \cup Illegal

NoGarbage  == {}
AnyGarbage == 0 .. Cap + 1
=============================================================================
