------------------------------ MODULE MCConsole ------------------------------
(* A small instance of Console for TLC.                                    *)
EXTENDS Console, TLC

CONSTANTS t1, t2, n1, n2

ThreadTwo == {t1, t2}
NameTwo   == {n1, n2}
SecondTwo == {1, 2}

\* Threads, and names, are interchangeable.
Symmetry == Permutations(Thread) \cup Permutations(Name)
=============================================================================
