------------------------------- MODULE Console -------------------------------
(***************************************************************************)
(* tlhh::console: a logger that any thread gets with get_instance(), whose *)
(* messages one thread writes to a file per name, and to a next file when  *)
(* that has MAX_FILE_SIZE. A file is opened to append and is named after   *)
(* the second in which it is, so that it may be one that exists already.   *)
(* Nothing is destroyed: the console is a pointer that is never deleted.   *)
(***************************************************************************)
EXTENDS Integers, Sequences, FiniteSets

CONSTANTS
    Thread,    \* threads that log
    Name,      \* file names
    NoPath,
    MaxFiles,  \* MAX_LOG_FILE
    MaxSize,   \* MAX_FILE_SIZE, in messages
    Second,    \* what the clock may show
    MaxLog     \* bound: messages for files

ASSUME SizeAssumption ==
    /\ MaxFiles \in Nat \ {0} /\ MaxSize \in Nat \ {0} /\ MaxLog \in Nat
    /\ NoPath \notin Name \X Second

Path == Name \X Second

VARIABLES
    pc,      \* where a thread is in get_instance
    lock,    \* instance_mutex_
    made,    \* consoles made
    level,   \* file_level_
    count,   \* messages posted so far, which are numbered
    queue,   \* the lambdas posted to file_io_service_
    files,   \* file_set_
    failed,  \* names whose stream has failed
    disk,    \* the messages in the files
    lost,    \* history: messages that were not written
    clock

threadVars == <<pc, lock, made, level, count>>
fileVars   == <<files, failed, disk, lost>>
vars == <<threadVars, queue, fileVars, clock>>

Numbers == 1 .. count

\* The keys of file_set_.
Known == {n \in Name : files[n] # NoPath}

TypeOK ==
    /\ pc \in [Thread -> {"out", "first", "locked", "in"}]
    /\ lock \in SUBSET Thread /\ made \in Nat
    /\ level \in {"info", "warn"} /\ count \in 0 .. MaxLog
    /\ queue \in Seq(Name \X Numbers)
    /\ files \in [Name -> Path \cup {NoPath}] /\ failed \in SUBSET Name
    /\ Cardinality(Known) <= MaxFiles
    /\ disk \in [Path -> Seq(Numbers)]
    /\ lost \in SUBSET Numbers /\ clock \in Second

Init ==
    /\ pc = [t \in Thread |-> "out"] /\ lock = {} /\ made = 0
    /\ level = "warn" /\ count = 0 /\ queue = <<>>
    /\ files = [n \in Name |-> NoPath] /\ failed = {}
    /\ disk = [p \in Path |-> <<>>] /\ lost = {}
    /\ clock \in Second

-----------------------------------------------------------------------------
(* Threads that log.                                                       *)

\* get_instance tests console_ without the lock ...
GetInstance(t) ==
    /\ pc[t] = "out"
    /\ pc' = [pc EXCEPT ![t] = IF made > 0 THEN "in" ELSE "first"]
    /\ UNCHANGED <<lock, made, level, count, queue, fileVars, clock>>

Lock(t) ==
    /\ pc[t] = "first" /\ lock = {}
    /\ lock' = {t} /\ pc' = [pc EXCEPT ![t] = "locked"]
    /\ UNCHANGED <<made, level, count, queue, fileVars, clock>>

\* Mutant of Make: the instance is not tested again.
MakeAnyway(t) ==
    /\ pc[t] = "locked"
    /\ made' = made + 1
    /\ lock' = {} /\ pc' = [pc EXCEPT ![t] = "in"]
    /\ UNCHANGED <<level, count, queue, fileVars, clock>>

\* ... and again with it.
Make(t) ==
    /\ pc[t] = "locked"
    /\ made' = IF made = 0 THEN 1 ELSE made
    /\ lock' = {} /\ pc' = [pc EXCEPT ![t] = "in"]
    /\ UNCHANGED <<level, count, queue, fileVars, clock>>

\* log: a message of the level of files or above is posted.
Log(t, n, l) ==
    /\ pc[t] = "in"
    /\ pc' = [pc EXCEPT ![t] = "out"]
    /\ IF level = "info" \/ l = "warn"
         THEN count < MaxLog /\ count' = count + 1 /\ queue' = Append(queue, <<n, count + 1>>)
         ELSE UNCHANGED <<count, queue>>
    /\ UNCHANGED <<lock, made, level, fileVars, clock>>

\* set_save_level, by any thread while others log.
SetSaveLevel(t, l) ==
    /\ pc[t] = "in"
    /\ pc' = [pc EXCEPT ![t] = "out"]
    /\ level' = l
    /\ UNCHANGED <<lock, made, count, queue, fileVars, clock>>

-----------------------------------------------------------------------------
(* The file thread runs the lambda of write_log.                           *)

\* Mutant of Takes: two threads run file_io_service_.
TakesAny(n, m) ==
    \E i \in DOMAIN queue :
        /\ queue[i] = <<n, m>>
        /\ queue' = SubSeq(queue, 1, i - 1) \o SubSeq(queue, i + 1, Len(queue))

Takes(n, m) == queue # <<>> /\ Head(queue) = <<n, m>> /\ queue' = Tail(queue)

\* Another name may have a file.
HasRoom == Cardinality(Known) < MaxFiles

\* Mutant of Full: the size is compared with >.
FullAbove(p) == Len(disk[p]) > MaxSize

\* The position of the end of the file, and whether that asks for another file.
Full(p) == Len(disk[p]) >= MaxSize

Lose(m) == lost' = lost \cup {m} /\ UNCHANGED <<files, failed, disk>>

\* Mutant of OpenAndWrite: the file is opened to write, not to append.
TruncateAndWrite(n, m) ==
    LET p == <<n, clock>> IN
        /\ files' = [files EXCEPT ![n] = p]
        /\ disk' = [disk EXCEPT ![p] = <<m>>]
        /\ UNCHANGED <<failed, lost>>

\* create_file, with the new stream in file_set_, and the message in it.
OpenAndWrite(n, m) ==
    LET p == <<n, clock>> IN
        /\ files' = [files EXCEPT ![n] = p]
        /\ disk' = [disk EXCEPT ![p] = Append(@, m)]
        /\ UNCHANGED <<failed, lost>>

\* The same, on a disk that is full.
OpenOnly(n, m) ==
    /\ files' = [files EXCEPT ![n] = <<n, clock>>]
    /\ lost' = lost \cup {m} /\ failed' = failed \cup {n}
    /\ UNCHANGED disk

\* The message goes to the file that is open.
Write(n, m) ==
    /\ files[n] # NoPath /\ n \notin failed /\ ~Full(files[n])
    /\ Takes(n, m)
    /\ disk' = [disk EXCEPT ![files[n]] = Append(@, m)]
    /\ UNCHANGED <<threadVars, files, failed, lost, clock>>

\* A first file, of at most MAX_LOG_FILE, or the next one.
WriteNew(n, m) ==
    /\ \/ files[n] = NoPath /\ HasRoom
       \/ files[n] # NoPath /\ n \notin failed /\ Full(files[n])
    /\ Takes(n, m)
    /\ OpenAndWrite(n, m) \/ OpenOnly(n, m)
    /\ UNCHANGED <<threadVars, clock>>

\* There are MAX_LOG_FILE names already, or the file cannot be opened; a full file
\* stays open then, and the next message tries again.
NoFile(n, m) ==
    /\ \/ files[n] = NoPath
       \/ files[n] # NoPath /\ n \notin failed /\ Full(files[n])
    /\ Takes(n, m)
    /\ Lose(m)
    /\ UNCHANGED <<threadVars, clock>>

\* The disk is full. A stream that has failed stays so: tellp() gives -1 and
\* write() does nothing, so that the name's later messages are lost too.
WriteFails(n, m) ==
    /\ files[n] # NoPath
    /\ n \in failed \/ ~Full(files[n])
    /\ Takes(n, m)
    /\ lost' = lost \cup {m} /\ failed' = failed \cup {n}
    /\ UNCHANGED <<threadVars, files, disk, clock>>

\* Time passes, or the clock is set, or summer time ends.
Clock ==
    /\ clock' \in Second \ {clock}
    /\ UNCHANGED <<threadVars, queue, fileVars>>

-----------------------------------------------------------------------------
FileNext ==
    \E n \in Name, m \in Numbers :
        Write(n, m) \/ WriteNew(n, m) \/ NoFile(n, m) \/ WriteFails(n, m)

Next ==
    \/ \E t \in Thread :
           \/ GetInstance(t) \/ Lock(t) \/ Make(t)
           \/ \E l \in {"info", "warn"} : SetSaveLevel(t, l) \/ \E n \in Name : Log(t, n, l)
    \/ FileNext
    \/ Clock

Spec == Init /\ [][Next]_vars

-----------------------------------------------------------------------------
\* Whoever logs first, and however many at once: there is one console, hence one
\* file thread and one set of files.
OneConsole == made <= 1

InFile(p) == {disk[p][i] : i \in DOMAIN disk[p]}

Queued == {queue[i][2] : i \in DOMAIN queue}

\* A message is waiting, or lost for want of a file or in a write that failed, or in
\* one file, once: also when a rotation within a second, or a clock that was set
\* back, opens a file again.
WrittenOnce ==
    /\ \A m \in Numbers :
           Cardinality({i \in {1} : m \in Queued}) + Cardinality({i \in {1} : m \in lost})
           + Cardinality({p \in Path : m \in InFile(p)}) = 1
    /\ \A p \in Path : Cardinality(InFile(p)) = Len(disk[p])

\* The messages of a file are in the order in which they were posted, whichever
\* thread posted them.
InOrder ==
    \A p \in Path : \A i, j \in DOMAIN disk[p] : i < j => disk[p][i] < disk[p][j]

\* A file that is full gets another message only in the second of its name, in
\* which the next file is the same one.
FullIsLeft ==
    [][\A p \in Path : Len(disk[p]) >= MaxSize /\ disk'[p] # disk[p] => p[2] = clock]_vars
=============================================================================
