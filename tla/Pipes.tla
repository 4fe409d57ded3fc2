------------------------------- MODULE Pipes -------------------------------
(***************************************************************************)
(* FIFOs in the VFS (disk.c): a pool of circular buffers that programs     *)
(* open by name, and every program's table of descriptors.  Each call is a *)
(* system call, so interrupts are off and it is one step.  Nothing ever    *)
(* returns a pipe to the pool.                                             *)
(***************************************************************************)
EXTENDS ByteRing

CONSTANTS
    Programs,       \* slots for programs: one that ends is followed by another
    MaxFd,          \* MAX_FD_PER_TASK (8)
    MaxPipes,       \* pipes in the pool (16)
    PipeSize,       \* bytes in a pipe's buffer (512)
    Bytes,
    Offers,         \* the byte sequences that one write passes
    Requests,       \* the counts that one read asks for
    Filenames,      \* the names that programs open
    Names,          \* what the first eight characters can be
    FirstEight,     \* those of every file name
    NoName,         \* the name of a pipe that was never opened
    NoPipe

ASSUME SizeAssumption ==
    /\ MaxFd \in Nat /\ MaxPipes \in Nat
    /\ PipeSize \in Nat \ {0}
ASSUME ArgumentAssumption ==
    /\ 0 \in Bytes
    /\ Offers \subseteq Seq(Bytes) /\ Requests \subseteq Nat
ASSUME NameAssumption == FirstEight \in [Filenames -> Names] /\ NoName \notin Names
ASSUME PipeAssumption == NoPipe \notin Int

Fd == 0 .. MaxFd - 1
Pipe == 0 .. MaxPipes - 1
Slot == 0 .. PipeSize - 1

VARIABLES
    fdTable,        \* the pipe behind every descriptor, NoPipe when it is closed
    active,         \* system_pipes[i].active, and the fields below
    name,
    buffer,
    head,
    tail,
    count,
    delivered       \* the bytes that the last read returned

pipes == <<active, name, buffer, head, tail, count>>
vars == <<fdTable, pipes, delivered>>

Init ==
    /\ fdTable = [t \in Programs |-> [fd \in Fd |-> NoPipe]]
    /\ active = [i \in Pipe |-> FALSE]
    /\ name = [i \in Pipe |-> NoName]
    /\ buffer = [i \in Pipe |-> [j \in Slot |-> 0]]
    /\ head = [i \in Pipe |-> 0]
    /\ tail = [i \in Pipe |-> 0]
    /\ count = [i \in Pipe |-> 0]
    /\ delivered = <<>>

-----------------------------------------------------------------------------
(* vfs_open(filename, "FIFO").                                             *)

\* The scans stop at the first entry that fits.
IsFirst(i, S) == i \in S /\ \A j \in S : i <= j

FreeFds(t) == {fd \in Fd : fdTable[t][fd] = NoPipe}

\* strncmp over eight characters.
Matching(filename) == {i \in Pipe : active[i] /\ name[i] = FirstEight[filename]}

FreePipes == {i \in Pipe : ~active[i]}

\* The descriptor fd of t leads to pipe i.
Lead(t, fd, i) == fdTable' = [fdTable EXCEPT ![t][fd] = i]

\* Somebody opened that name before.
Join(t, fd, filename) ==
    /\ \E i \in Pipe : IsFirst(i, Matching(filename)) /\ Lead(t, fd, i)
    /\ UNCHANGED pipes

\* The first to open it takes a pipe of the pool.
Create(t, fd, filename) ==
    /\ Matching(filename) = {}
    /\ \E i \in Pipe :
         /\ IsFirst(i, FreePipes)
         /\ Lead(t, fd, i)
         /\ active' = [active EXCEPT ![i] = TRUE]
         /\ name' = [name EXCEPT ![i] = FirstEight[filename]]
         /\ head' = [head EXCEPT ![i] = 0]
         /\ tail' = [tail EXCEPT ![i] = 0]
         /\ count' = [count EXCEPT ![i] = 0]
    /\ UNCHANGED buffer

Open(t, filename) ==
    /\ \E fd \in Fd : /\ IsFirst(fd, FreeFds(t))
                      /\ Join(t, fd, filename) \/ Create(t, fd, filename)
    /\ UNCHANGED delivered

-----------------------------------------------------------------------------
(* vfs_write, vfs_read, vfs_close.                                         *)

Least(m, n) == IF m <= n THEN m ELSE n

\* How many bytes of s the loop takes: as many as there is room for.
Accepted(i, s) == Least(Len(s), PipeSize - count[i])

\* The buffer b with the first n bytes of s stored from slot h on.
Stored(b, h, s, n) ==
    [j \in Slot |-> LET d == (j - h) % PipeSize IN IF d < n THEN s[d + 1] ELSE b[j]]

Write(t, fd, s) ==
    /\ fdTable[t][fd] # NoPipe
    /\ LET i == fdTable[t][fd]
           n == Accepted(i, s)
       IN  /\ active[i]
           /\ buffer' = [buffer EXCEPT ![i] = Stored(@, head[i], s, n)]
           /\ head' = [head EXCEPT ![i] = (@ + n) % PipeSize]
           /\ count' = [count EXCEPT ![i] = @ + n]
    /\ UNCHANGED <<fdTable, active, name, tail, delivered>>

Read(t, fd, k) ==
    /\ fdTable[t][fd] # NoPipe
    /\ LET i == fdTable[t][fd]
           n == Least(k, count[i])
       IN  /\ active[i]
           /\ delivered' = Slice(buffer[i], PipeSize, tail[i], n)
           /\ tail' = [tail EXCEPT ![i] = (@ + n) % PipeSize]
           /\ count' = [count EXCEPT ![i] = @ - n]
    /\ UNCHANGED <<fdTable, active, name, buffer, head>>

\* A close that returns the pipe to the pool, whoever else has it open.
CloseAndFree(t, fd) ==
    /\ fdTable[t][fd] # NoPipe
    /\ fdTable' = [fdTable EXCEPT ![t][fd] = NoPipe]
    /\ active' = [active EXCEPT ![fdTable[t][fd]] = FALSE]
    /\ UNCHANGED <<name, buffer, head, tail, count, delivered>>

\* The pipe stays as it is.
Close(t, fd) ==
    /\ fdTable[t][fd] # NoPipe
    /\ fdTable' = [fdTable EXCEPT ![t][fd] = NoPipe]
    /\ UNCHANGED <<pipes, delivered>>

\* The program ends, by itself or killed, and its TCB with the table is freed;
\* create_task clears the next one's.
Exit(t) ==
    /\ fdTable' = [fdTable EXCEPT ![t] = [fd \in Fd |-> NoPipe]]
    /\ UNCHANGED <<pipes, delivered>>

-----------------------------------------------------------------------------
Next ==
    \E t \in Programs :
        \/ \E filename \in Filenames : Open(t, filename)
        \/ \E fd \in Fd : \/ \E s \in Offers : Write(t, fd, s)
                          \/ \E k \in Requests : Read(t, fd, k)
                          \/ Close(t, fd)
        \/ Exit(t)

Spec == Init /\ [][Next]_vars

-----------------------------------------------------------------------------
(* Properties.                                                             *)

TypeOK ==
    /\ fdTable \in [Programs -> [Fd -> Pipe \cup {NoPipe}]]
    /\ active \in [Pipe -> BOOLEAN]
    /\ name \in [Pipe -> Names \cup {NoName}]
    /\ buffer \in [Pipe -> [Slot -> Bytes]]
    /\ head \in [Pipe -> Slot]
    /\ tail \in [Pipe -> Slot]
    /\ count \in [Pipe -> 0 .. PipeSize]
    /\ delivered \in Seq(Bytes)

\* What waits in pipe i, oldest first.
Contents(i) == Slice(buffer[i], PipeSize, tail[i], count[i])

\* The pipes that were opened as n.
Called(n) == {i \in Pipe : active[i] /\ name[i] = n}

Queue(n) == IF Called(n) = {} THEN <<>> ELSE Contents(CHOOSE i \in Called(n) : TRUE)

Queues == [n \in Names |-> Queue(n)]

NameOf(i) == IF i = NoPipe THEN NoName ELSE name[i]

OpenNames == [t \in Programs |-> [fd \in Fd |-> NameOf(fdTable[t][fd])]]

Fifos == INSTANCE NamedPipes WITH Handles <- Fd, Capacity <- PipeSize,
                                  handles <- OpenNames, queues <- Queues

\* Every name has one first-in first-out queue: what a program writes reaches
\* whoever reads under the same first eight characters, in order, each byte
\* once, and nobody else; a queue outlives the programs that filled it, and a
\* descriptor never leads to another name's.
ImplementsNamedPipes == Fifos!Spec
=============================================================================
