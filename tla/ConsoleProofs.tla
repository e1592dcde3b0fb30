---------------------------- MODULE ConsoleProofs ----------------------------
(***************************************************************************)
(* What tlhh::console guarantees for every set of threads, names and       *)
(* times, and for every limit on files and messages.                       *)
(***************************************************************************)
EXTENDS Console, SequenceTheorems, FunctionTheorems, FiniteSetTheorems, TLAPS

ThreadsOK ==
    /\ pc \in [Thread -> {"out", "first", "locked", "in"}]
    /\ lock \in SUBSET Thread /\ made \in Nat
    /\ level \in {"info", "warn"} /\ clock \in Second

FilesOK ==
    /\ files \in [Name -> Path \cup {NoPath}] /\ failed \in SUBSET Name
    /\ IsFiniteSet(Known) /\ Cardinality(Known) <= MaxFiles

\* The messages that the file thread has taken from the queue.
Handled == 1 .. count - Len(queue)

\* The queue holds the last messages posted, without a gap.
QueueOK ==
    /\ count \in 0 .. MaxLog
    /\ queue \in Seq(Name \X Numbers) /\ Len(queue) <= count
    /\ \A i \in 1 .. Len(queue) : queue[i][2] = count - Len(queue) + i

\* A message that was taken is lost or in a file, not both, and in one file only.
DiskOK ==
    /\ disk \in [Path -> Seq(Handled)] /\ lost \in SUBSET Handled
    /\ \A m \in Handled : m \in lost \/ \E p \in Path : m \in InFile(p)
    /\ \A p \in Path : InFile(p) \cap lost = {}
    /\ \A p, q \in Path : p # q => InFile(p) \cap InFile(q) = {}
    /\ InOrder

ConsoleInv == ThreadsOK /\ OneConsole /\ FilesOK /\ QueueOK /\ DiskOK

LEMMA ConsoleInit == Init => ConsoleInv
<1> SUFFICES ASSUME Init PROVE ConsoleInv
  OBVIOUS
<1>1. ThreadsOK /\ OneConsole
  BY DEF Init, ThreadsOK, OneConsole
<1>2. Known = {}
  BY DEF Init, Known
<1>3. FilesOK
  BY <1>2, FS_EmptySet, SizeAssumption DEF Init, FilesOK
<1>4. QueueOK
  BY EmptySeq, SizeAssumption DEF Init, QueueOK
<1>5. Handled = {} /\ \A p \in Path : disk[p] = <<>> /\ DOMAIN disk[p] = {}
  BY EmptySeq DEF Init, Handled
<1>6. DiskOK
  <2>1. disk \in [Path -> Seq(Handled)]
    BY EmptySeq DEF Init
  <2> QED
    BY <1>5, <2>1 DEF Init, DiskOK, InFile, InOrder
<1> QED
  BY <1>1, <1>3, <1>4, <1>6 DEF ConsoleInv

-----------------------------------------------------------------------------
(* The messages.                                                           *)

\* The properties of the files are about nothing else.
LEMMA SameMessages ==
    ASSUME UNCHANGED <<disk, lost>>, Handled' = Handled
    PROVE  DiskOK => DiskOK'
<1>1. \A p \in Path : InFile(p)' = InFile(p)
  BY DEF InFile
<1>2. InOrder => InOrder'
  BY DEF InOrder
<1> QED
  BY <1>1, <1>2 DEF DiskOK

\* A message that is posted gets the next number.
LEMMA LogMessages ==
    ASSUME QueueOK, DiskOK, NEW n \in Name, count < MaxLog,
           count' = count + 1, queue' = Append(queue, <<n, count + 1>>), UNCHANGED <<disk, lost>>
    PROVE  QueueOK' /\ DiskOK'
<1>1. /\ count \in Nat /\ count' \in 0 .. MaxLog
      /\ queue \in Seq(Name \X (1 .. count)) /\ Len(queue) \in Nat
  BY SizeAssumption, LenProperties DEF QueueOK, Numbers
<1>2. Name \X (1 .. count) \subseteq Name \X (1 .. count + 1)
  BY <1>1
<1>3. queue \in Seq(Name \X (1 .. count + 1)) /\ <<n, count + 1>> \in Name \X (1 .. count + 1)
  BY <1>1, <1>2, SeqMonotonic
<1>4. /\ queue' \in Seq(Name \X (1 .. count + 1)) /\ Len(queue') = Len(queue) + 1
      /\ \A i \in 1 .. Len(queue) : queue'[i] = queue[i]
      /\ queue'[Len(queue) + 1] = <<n, count + 1>>
  BY <1>3, AppendProperties
<1>5. QueueOK'
  BY <1>1, <1>4 DEF QueueOK, Numbers
<1>6. Handled' = Handled
  BY <1>1, <1>4 DEF Handled
<1> QED
  BY <1>5, <1>6, SameMessages

\* The file thread takes the message after those it has handled.
LEMMA TakeMessage ==
    ASSUME QueueOK, NEW n \in Name, NEW m, Takes(n, m), count' = count
    PROVE  /\ QueueOK'
           /\ Handled' = Handled \cup {m} /\ m \in Handled'
           /\ \A k \in Handled : k \in Nat /\ k < m
<1>1. /\ queue \in Seq(Name \X Numbers) /\ queue # <<>> /\ queue' = Tail(queue)
      /\ Len(queue) \in Nat /\ Len(queue) # 0 /\ count \in Nat /\ Len(queue) <= count
  BY SizeAssumption, LenProperties, EmptySeq DEF QueueOK, Takes
<1>2. queue[1] = <<n, m>>
  BY <1>1 DEF Takes
<1>3. m = count - Len(queue) + 1
  BY <1>1, <1>2 DEF QueueOK
<1>4. /\ queue' \in Seq(Name \X Numbers) /\ Len(queue') = Len(queue) - 1
      /\ \A i \in 1 .. Len(queue') : queue'[i] = queue[i + 1]
  BY <1>1, HeadTailProperties
<1>5. QueueOK'
  <2>1. \A i \in 1 .. Len(queue') : queue'[i][2] = count - Len(queue') + i
    BY <1>1, <1>4 DEF QueueOK
  <2> QED
    BY <1>1, <1>4, <2>1 DEF QueueOK, Numbers
<1>6. count' - Len(queue') = m /\ count - Len(queue) = m - 1 /\ m \in Nat \ {0}
  <2>1. Len(queue) \in Nat /\ count \in Nat /\ Len(queue) <= count
    BY <1>1
  <2>2. Len(queue') = Len(queue) - 1
    BY <1>4
  <2> QED
    BY ONLY <2>1, <2>2, <1>3, count' = count
<1>7. Handled' = 1 .. m /\ Handled = 1 .. m - 1
  BY <1>6 DEF Handled
<1> QED
  BY <1>5, <1>6, <1>7

LEMMA LoseMessage ==
    ASSUME QueueOK, DiskOK, NEW n \in Name, NEW m, Takes(n, m),
           lost' = lost \cup {m}, UNCHANGED <<count, disk>>
    PROVE  QueueOK' /\ DiskOK'
<1>1. /\ QueueOK' /\ Handled' = Handled \cup {m}
      /\ m \notin Handled
  BY TakeMessage
<1>2. disk' \in [Path -> Seq(Handled')]
  BY <1>1, SeqMonotonic DEF DiskOK
<1>3. \A p \in Path : InFile(p)' = InFile(p) /\ InFile(p) \subseteq Handled
  BY ElementOfSeq, LenProperties DEF InFile, DiskOK
<1> QED
  BY <1>1, <1>2, <1>3 DEF DiskOK, InOrder

LEMMA WriteMessage ==
    ASSUME QueueOK, DiskOK, NEW n \in Name, NEW m, Takes(n, m), NEW p \in Path,
           disk' = [disk EXCEPT ![p] = Append(@, m)], UNCHANGED <<count, lost>>
    PROVE  QueueOK' /\ DiskOK'
<1>1. /\ QueueOK' /\ Handled' = Handled \cup {m} /\ m \notin Handled
      /\ \A k \in Handled : k \in Nat /\ k < m
  BY TakeMessage
<1>2. /\ disk[p] \in Seq(Handled) /\ disk[p] \in Seq(Handled') /\ Len(disk[p]) \in Nat
      /\ DOMAIN disk[p] = 1 .. Len(disk[p])
      /\ \A i \in 1 .. Len(disk[p]) : disk[p][i] \in Handled
  BY <1>1, SeqMonotonic, LenProperties, ElementOfSeq DEF DiskOK
<1>3. /\ disk'[p] = Append(disk[p], m) /\ disk'[p] \in Seq(Handled')
      /\ Len(disk'[p]) = Len(disk[p]) + 1
      /\ \A i \in 1 .. Len(disk[p]) : disk'[p][i] = disk[p][i]
      /\ disk'[p][Len(disk[p]) + 1] = m
  BY <1>1, <1>2, AppendProperties DEF DiskOK
<1>4. DOMAIN disk'[p] = 1 .. Len(disk[p]) + 1
  BY <1>3, LenProperties
<1>5. \A q \in Path : q # p => disk'[q] = disk[q]
  BY DEF DiskOK
<1>6. disk' \in [Path -> Seq(Handled')]
  BY <1>1, <1>3, SeqMonotonic DEF DiskOK
<1>7. \A q \in Path : InFile(q) \subseteq Handled
  BY ElementOfSeq, LenProperties DEF InFile, DiskOK
<1>8. InFile(p)' = InFile(p) \cup {m} /\ \A q \in Path : q # p => InFile(q)' = InFile(q)
  BY <1>2, <1>3, <1>4, <1>5 DEF InFile
<1>9. InOrder'
  <2> SUFFICES ASSUME NEW q \in Path, NEW i \in DOMAIN disk'[q], NEW j \in DOMAIN disk'[q], i < j
               PROVE  disk'[q][i] < disk'[q][j]
    BY DEF InOrder
  <2>1. CASE q # p
    BY <2>1, <1>5 DEF DiskOK, InOrder
  <2>2. CASE q = p /\ j = Len(disk[p]) + 1
    BY <2>2, <1>1, <1>2, <1>3, <1>4
  <2>3. CASE q = p /\ j # Len(disk[p]) + 1
    <3>1. i \in 1 .. Len(disk[p]) /\ j \in 1 .. Len(disk[p])
      BY <2>3, <1>2, <1>4
    <3> QED
      BY <2>3, <3>1, <1>2, <1>3 DEF DiskOK, InOrder
  <2> QED
    BY <2>1, <2>2, <2>3
<1>10. lost \in SUBSET Handled'
  BY <1>1 DEF DiskOK
<1>11. \A k \in Handled' : k \in lost \/ \E q \in Path : k \in InFile(q)'
  BY <1>1, <1>8 DEF DiskOK
<1>12. \A q \in Path : InFile(q)' \cap lost = {}
  BY <1>1, <1>8 DEF DiskOK
<1>13. \A q, r \in Path : q # r => InFile(q)' \cap InFile(r)' = {}
  <2> SUFFICES ASSUME NEW q \in Path, NEW r \in Path, q # r, NEW k \in InFile(q)', k \in InFile(r)'
               PROVE  FALSE
    OBVIOUS
  <2>1. InFile(q) \cap InFile(r) = {} /\ k \in InFile(q) \cup {m} /\ k \in InFile(r) \cup {m}
    BY <1>8 DEF DiskOK
  <2>2. q # p => k \in InFile(q) /\ k # m
    BY <1>1, <1>7, <1>8
  <2>3. r # p => k \in InFile(r) /\ k # m
    BY <1>1, <1>7, <1>8
  <2> QED
    BY <2>1, <2>2, <2>3
<1> QED
  BY <1>1, <1>6, <1>9, <1>10, <1>11, <1>12, <1>13 DEF DiskOK

-----------------------------------------------------------------------------
(* The files.                                                              *)

\* A name gets a first file only while there is room, and then keeps one.
LEMMA OpenFile ==
    ASSUME FilesOK, NEW n \in Name, files[n] = NoPath => HasRoom,
           files' = [files EXCEPT ![n] = <<n, clock>>], failed' \in SUBSET Name, clock \in Second
    PROVE  FilesOK'
<1>1. <<n, clock>> \in Path /\ <<n, clock>> # NoPath
  BY SizeAssumption DEF Path
<1>2. Known' = Known \cup {n} /\ (n \in Known <=> files[n] # NoPath)
  BY <1>1 DEF FilesOK, Known
<1>3. IsFiniteSet(Known') /\ Cardinality(Known') <= MaxFiles
  <2>1. IsFiniteSet(Known) /\ Cardinality(Known) <= MaxFiles /\ Cardinality(Known) \in Nat
    BY FS_CardinalityType DEF FilesOK
  <2>2. /\ IsFiniteSet(Known \cup {n})
        /\ Cardinality(Known \cup {n}) = IF n \in Known THEN Cardinality(Known) ELSE Cardinality(Known) + 1
    BY <2>1, FS_AddElement
  <2>3. n \notin Known => Cardinality(Known) < MaxFiles
    BY <1>2 DEF HasRoom
  <2> QED
    BY <1>2, <2>1, <2>2, <2>3, SizeAssumption
<1>4. files' \in [Name -> Path \cup {NoPath}]
  BY <1>1 DEF FilesOK
<1> QED
  BY <1>3, <1>4 DEF FilesOK

LEMMA FileStep ==
    ASSUME ConsoleInv, NEW n \in Name, NEW m \in Numbers,
           Write(n, m) \/ WriteNew(n, m) \/ NoFile(n, m) \/ WriteFails(n, m)
    PROVE  ConsoleInv'
<1> USE DEF ConsoleInv
<1>1. UNCHANGED <<threadVars, clock>> /\ Takes(n, m)
  BY DEF Write, WriteNew, NoFile, WriteFails
<1>2. ThreadsOK' /\ OneConsole'
  BY <1>1 DEF threadVars, ThreadsOK, OneConsole
<1>3. CASE Write(n, m)
  <2>1. files[n] \in Path
    BY <1>3 DEF Write, FilesOK
  <2>2. FilesOK'
    BY <1>3 DEF Write, FilesOK, Known
  <2> QED
    BY <1>1, <1>2, <1>3, <2>1, <2>2, WriteMessage DEF Write, threadVars
<1>4. CASE WriteNew(n, m)
  <2>1. <<n, clock>> \in Path
    BY DEF Path, ThreadsOK
  <2>2. FilesOK'
    BY <1>4, OpenFile DEF WriteNew, OpenAndWrite, OpenOnly, FilesOK, ThreadsOK
  <2>3. CASE OpenAndWrite(n, m)
    BY <1>1, <1>2, <2>1, <2>2, <2>3, WriteMessage DEF OpenAndWrite, threadVars
  <2>4. CASE OpenOnly(n, m)
    BY <1>1, <1>2, <2>2, <2>4, LoseMessage DEF OpenOnly, threadVars
  <2> QED
    BY <1>4, <2>3, <2>4 DEF WriteNew
<1>5. CASE NoFile(n, m) \/ WriteFails(n, m)
  <2>1. files' = files /\ disk' = disk /\ lost' = lost \cup {m} /\ failed' \in SUBSET Name
    BY <1>5 DEF NoFile, Lose, WriteFails, FilesOK
  <2>2. FilesOK'
    BY <2>1 DEF FilesOK, Known
  <2> QED
    BY <1>1, <1>2, <2>1, <2>2, LoseMessage DEF threadVars
<1> QED
  BY <1>3, <1>4, <1>5

LEMMA ThreadStep ==
    ASSUME ConsoleInv, NEW t \in Thread,
           \/ GetInstance(t) \/ Lock(t) \/ Make(t)
           \/ \E l \in {"info", "warn"} : SetSaveLevel(t, l) \/ \E n \in Name : Log(t, n, l)
    PROVE  ConsoleInv'
<1> USE DEF ConsoleInv
<1>1. UNCHANGED <<files, failed, disk, lost, clock>>
  BY DEF GetInstance, Lock, Make, SetSaveLevel, Log, fileVars
<1>2. FilesOK'
  BY <1>1 DEF FilesOK, Known
<1>3. ThreadsOK' /\ OneConsole'
  <2> USE DEF ThreadsOK, OneConsole
  <2>1. CASE GetInstance(t)
    BY <2>1 DEF GetInstance
  <2>2. CASE Lock(t)
    BY <2>2 DEF Lock
  <2>3. CASE Make(t)
    BY <2>3 DEF Make
  <2>4. ASSUME NEW l \in {"info", "warn"}, SetSaveLevel(t, l) PROVE ThreadsOK' /\ OneConsole'
    BY <2>4 DEF SetSaveLevel
  <2>5. ASSUME NEW l, NEW n \in Name, Log(t, n, l) PROVE ThreadsOK' /\ OneConsole'
    BY <2>5 DEF Log
  <2> QED
    BY <1>1, <2>1, <2>2, <2>3, <2>4, <2>5
<1>4. CASE UNCHANGED <<count, queue>>
  <2>1. QueueOK'
    BY <1>4 DEF QueueOK, Numbers
  <2>2. Handled' = Handled
    BY <1>4 DEF Handled
  <2> QED
    BY <1>1, <1>2, <1>3, <2>1, <2>2, SameMessages
<1>5. ASSUME NEW n \in Name, count < MaxLog, count' = count + 1, queue' = Append(queue, <<n, count + 1>>)
      PROVE  ConsoleInv'
  BY <1>1, <1>2, <1>3, <1>5, LogMessages
<1> QED
  BY <1>4, <1>5 DEF GetInstance, Lock, Make, SetSaveLevel, Log

LEMMA ConsoleStep == ConsoleInv /\ [Next]_vars => ConsoleInv'
<1>1. ASSUME ConsoleInv, Clock \/ UNCHANGED vars PROVE ConsoleInv'
  <2>1. UNCHANGED <<threadVars, queue, fileVars>> /\ clock' \in Second
    BY <1>1 DEF Clock, vars, ConsoleInv, ThreadsOK
  <2>2. ThreadsOK' /\ OneConsole' /\ FilesOK'
    BY <1>1, <2>1 DEF threadVars, fileVars, ConsoleInv, ThreadsOK, OneConsole, FilesOK, Known
  <2>3. QueueOK' /\ Handled' = Handled
    BY <1>1, <2>1 DEF threadVars, ConsoleInv, QueueOK, Numbers, Handled
  <2> QED
    BY <1>1, <2>1, <2>2, <2>3, SameMessages DEF fileVars, ConsoleInv
<1> QED
  BY <1>1, FileStep, ThreadStep DEF Next, FileNext

-----------------------------------------------------------------------------
LEMMA InvType == ConsoleInv => TypeOK
<1> SUFFICES ASSUME ConsoleInv PROVE TypeOK
  OBVIOUS
<1>1. Len(queue) \in Nat /\ count \in Nat
  BY SizeAssumption, LenProperties DEF ConsoleInv, QueueOK
<1>2. Handled \subseteq Numbers
  BY <1>1 DEF Handled, Numbers
<1>3. disk \in [Path -> Seq(Numbers)] /\ lost \in SUBSET Numbers
  BY <1>2, SeqMonotonic DEF ConsoleInv, DiskOK
<1> QED
  BY <1>3 DEF ConsoleInv, TypeOK, ThreadsOK, FilesOK, QueueOK

LEMMA InvWritten == ConsoleInv => WrittenOnce
<1> SUFFICES ASSUME ConsoleInv PROVE WrittenOnce
  OBVIOUS
<1>1. /\ Len(queue) \in Nat /\ count \in Nat /\ Len(queue) <= count
      /\ DOMAIN queue = 1 .. Len(queue)
      /\ \A i \in 1 .. Len(queue) : queue[i][2] = count - Len(queue) + i
  BY SizeAssumption, LenProperties DEF ConsoleInv, QueueOK
<1>2. ASSUME NEW m \in Numbers PROVE m \in Queued <=> m \notin Handled
  <2>1. m \in 1 .. count
    BY DEF Numbers
  <2>2. CASE m \in Handled
    BY <1>1, <2>1, <2>2 DEF Queued, Handled
  <2>3. CASE m \notin Handled
    <3>1. m - (count - Len(queue)) \in 1 .. Len(queue)
      BY <1>1, <2>1, <2>3 DEF Handled
    <3>2. queue[m - (count - Len(queue))][2] = m
      BY <1>1, <2>1, <3>1
    <3> QED
      BY <1>1, <2>3, <3>1, <3>2 DEF Queued
  <2> QED
    BY <2>2, <2>3
<1>3. \A p \in Path : InFile(p) \subseteq Handled
  BY ElementOfSeq, LenProperties DEF InFile, ConsoleInv, DiskOK
<1>4. ASSUME NEW m \in Numbers
      PROVE  Cardinality({i \in {1} : m \in Queued}) + Cardinality({i \in {1} : m \in lost})
                 + Cardinality({p \in Path : m \in InFile(p)}) = 1
  <2> DEFINE Waiting == {i \in {1} : m \in Queued}
             Missing == {i \in {1} : m \in lost}
             Holding == {p \in Path : m \in InFile(p)}
  <2>1. CASE m \notin Handled
    <3>1. Waiting = {1} /\ Missing = {} /\ Holding = {}
      BY <1>2, <1>3, <2>1 DEF ConsoleInv, DiskOK
    <3>2. Cardinality(Waiting) = 1 /\ Cardinality(Missing) = 0 /\ Cardinality(Holding) = 0
      BY <3>1, FS_EmptySet, FS_Singleton
    <3> QED
      BY <3>2
  <2>2. CASE m \in lost
    <3>1. Waiting = {} /\ Missing = {1} /\ Holding = {}
      BY <1>2, <2>2 DEF ConsoleInv, DiskOK
    <3>2. Cardinality(Waiting) = 0 /\ Cardinality(Missing) = 1 /\ Cardinality(Holding) = 0
      BY <3>1, FS_EmptySet, FS_Singleton
    <3> QED
      BY <3>2
  <2>3. CASE m \in Handled /\ m \notin lost
    <3>1. PICK p \in Path : m \in InFile(p)
      BY <2>3 DEF ConsoleInv, DiskOK
    <3>2. Waiting = {} /\ Missing = {} /\ Holding = {p}
      BY <1>2, <2>3, <3>1 DEF ConsoleInv, DiskOK
    <3>3. Cardinality(Waiting) = 0 /\ Cardinality(Missing) = 0 /\ Cardinality(Holding) = 1
      BY <3>2, FS_EmptySet, FS_Singleton
    <3> QED
      BY <3>3
  <2> QED
    BY <2>1, <2>2, <2>3
<1>5. ASSUME NEW p \in Path PROVE Cardinality(InFile(p)) = Len(disk[p])
  <2>1. /\ disk[p] \in Seq(Handled) /\ Len(disk[p]) \in Nat
        /\ DOMAIN disk[p] = 1 .. Len(disk[p])
        /\ disk[p] \in [1 .. Len(disk[p]) -> Handled]
    BY LenProperties DEF ConsoleInv, DiskOK
  <2>2. \A i, j \in 1 .. Len(disk[p]) : disk[p][i] = disk[p][j] => i = j
    <3> SUFFICES ASSUME NEW i \in 1 .. Len(disk[p]), NEW j \in 1 .. Len(disk[p]), i < j
                 PROVE  disk[p][i] # disk[p][j]
      BY <2>1
    <3>1. disk[p][i] < disk[p][j] /\ disk[p][i] \in Int
      BY <2>1 DEF ConsoleInv, DiskOK, InOrder, Handled
    <3> QED
      BY <3>1
  <2>3. disk[p] \in [1 .. Len(disk[p]) -> InFile(p)]
    BY <2>1 DEF InFile
  <2>4. \A k \in InFile(p) : \E i \in 1 .. Len(disk[p]) : disk[p][i] = k
    BY <2>1 DEF InFile
  <2>5. disk[p] \in Bijection(1 .. Len(disk[p]), InFile(p))
    BY <2>2, <2>3, <2>4, Fun_IsBij
  <2>6. ExistsBijection(1 .. Len(disk[p]), InFile(p))
    BY <2>5 DEF ExistsBijection
  <2>7. /\ IsFiniteSet(1 .. Len(disk[p]))
        /\ Cardinality(1 .. Len(disk[p])) = Len(disk[p])
    <3>1. 1 \in Int /\ Len(disk[p]) \in Int /\ (1 > Len(disk[p]) => Len(disk[p]) = 0)
          /\ Len(disk[p]) - 1 + 1 = Len(disk[p])
      BY <2>1
    <3> QED
      BY <3>1, FS_Interval
  <2> QED
    BY <2>6, <2>7, FS_Bijection
<1> QED
  BY <1>4, <1>5 DEF WrittenOnce

\* Every variable of the console keeps its type; no more than MAX_LOG_FILE names
\* have a file, and there is one console, hence one file thread.
THEOREM TypeCorrect == Spec => [](TypeOK /\ OneConsole)
<1>1. ConsoleInv => TypeOK /\ OneConsole
  BY InvType DEF ConsoleInv
<1> QED
  BY <1>1, ConsoleInit, ConsoleStep, PTL DEF Spec

\* No message is forgotten, written twice or written to two files, whatever the
\* clock, the disk and the limit on files do.
THEOREM WrittenCorrect == Spec => []WrittenOnce
  BY InvWritten, ConsoleInit, ConsoleStep, PTL DEF Spec

\* Every file has its messages in the order in which they were posted, also when
\* it is opened again after others.
THEOREM OrderCorrect == Spec => []InOrder
<1>1. ConsoleInv => InOrder
  BY DEF ConsoleInv, DiskOK
<1> QED
  BY <1>1, ConsoleInit, ConsoleStep, PTL DEF Spec

\* A full file is written to again only in the second after which it is named.
THEOREM RotationCorrect == Spec => FullIsLeft
<1> DEFINE Left == \A p \in Path : Len(disk[p]) >= MaxSize /\ disk'[p] # disk[p] => p[2] = clock
<1>1. ConsoleInv /\ [Next]_vars => [Left]_vars
  <2> SUFFICES ASSUME ConsoleInv, Next, NEW p \in Path, Len(disk[p]) >= MaxSize, disk'[p] # disk[p]
               PROVE  p[2] = clock
    OBVIOUS
  <2>1. PICK n \in Name, m \in Numbers : Write(n, m) \/ WriteNew(n, m)
    BY DEF Next, GetInstance, Lock, Make, SetSaveLevel, Log, FileNext, NoFile, Lose, WriteFails, Clock, fileVars
  <2>2. CASE Write(n, m)
    BY <2>2 DEF Write, Full, ConsoleInv, DiskOK
  <2>3. CASE WriteNew(n, m)
    BY <2>3 DEF WriteNew, OpenAndWrite, OpenOnly, ConsoleInv, DiskOK
  <2> QED
    BY <2>1, <2>2, <2>3
<1> QED
  BY <1>1, ConsoleInit, ConsoleStep, PTL DEF Spec, FullIsLeft
=============================================================================
