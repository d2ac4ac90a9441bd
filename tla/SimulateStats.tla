--------------------------- MODULE SimulateStats ---------------------------
(***************************************************************************)
(* cmd/simulate_maxcdc/main.go: goroutines that simulate MaxCDC, at most   *)
(* one per processor, each for one minimum size, over and over.  When it   *)
(* is done one adds its samples to the file of that size: it reads the     *)
(* file, writes the sum to a temporary file and renames that.  The tool    *)
(* may be interrupted and started again; what it wrote is still there.     *)
(*                                                                         *)
(* The contents of a file are the number of simulations whose samples it   *)
(* holds.  The file system gives a new file an inode; opening a file to    *)
(* write it empties the inode the path already has.                        *)
(***************************************************************************)
EXTENDS Naturals, Sequences, FiniteSets, FiniteSetsExt

CONSTANTS
    Sizes,          \* the values of minSize
    NumCPU,         \* runtime.NumCPU()
    MaxDispatched,  \* goroutines that one process starts, at most
    MaxStops,       \* interruptions of the tool, and failures that end it
    MaxReadFaults,  \* failures of a read
    MaxRestarts,    \* how often the tool is started again
    Short           \* a file of less than the length of all buckets

ASSUME SizesAssumption == IsFiniteSet(Sizes) /\ Sizes # {}
ASSUME NumCPUAssumption == NumCPU \in Nat \ {0}
ASSUME MaxDispatchedAssumption == MaxDispatched \in Nat
ASSUME ShortAssumption == Short \notin Nat

None == 0           \* no inode

Slots == 1 .. NumCPU
Inodes == 1 .. (2 * Cardinality(Sizes) + NumCPU)
Idle == [pc |-> "idle", size |-> CHOOSE m \in Sizes : TRUE, samples |-> 0, fd |-> None]

VARIABLES
    running,            \* there is a process
    minSizes, index,    \* its shuffled sizes, and the next one's position
    dispatched,         \* goroutines it started
    permits,            \* what is left of the semaphore
    workers,            \* its goroutines
    samplesFile, tmpFile, \* size -> inode of the file, None if there is none
    content,            \* inode -> what is in it
    faults,             \* [stop, read, restart |-> how many there were]
    finished,           \* history: size -> simulations whose samples were written
    overlapped,         \* history: sizes that two goroutines worked on at once
    forgotten           \* history: sizes for which a read failed

process == <<running, minSizes, index, dispatched, permits>>
disk == <<samplesFile, tmpFile, content>>
history == <<finished, overlapped, forgotten>>
vars == <<process, workers, disk, faults, history>>

\* rand.Shuffle of all sizes.
Shuffled == {o \in [1 .. Cardinality(Sizes) -> Sizes] : \A m \in Sizes : \E i \in DOMAIN o : o[i] = m}

Init ==
    /\ running = TRUE /\ minSizes \in Shuffled
    /\ index = 1 /\ dispatched = 0 /\ permits = NumCPU
    /\ workers = [s \in Slots |-> Idle]
    /\ samplesFile = [m \in Sizes |-> None]
    /\ tmpFile = [m \in Sizes |-> None]
    /\ content = [i \in Inodes |-> Short]
    /\ faults = [stop |-> 0, read |-> 0, restart |-> 0]
    /\ finished = [m \in Sizes |-> 0]
    /\ overlapped = {} /\ forgotten = {}

Working(m) == {s \in Slots : workers[s].pc # "idle" /\ workers[s].size = m}

-----------------------------------------------------------------------------
\* The loop of main

\* Mutant: the last size is left out.
LeavesOutLast(i) == IF i + 1 >= Len(minSizes) THEN 1 ELSE i + 1
NextIndex(i) == IF i = Len(minSizes) THEN 1 ELSE i + 1

\* Acquire a permit for the next size and start its goroutine.
Dispatch ==
    /\ running /\ permits > 0 /\ dispatched < MaxDispatched
    /\ LET m == minSizes[index]
           s == Min({t \in Slots : workers[t].pc = "idle"})
       IN  /\ workers' = [workers EXCEPT ![s] = [Idle EXCEPT !.pc = "reload", !.size = m]]
           /\ overlapped' = IF Working(m) # {} THEN overlapped \cup {m} ELSE overlapped
    /\ permits' = permits - 1
    /\ index' = NextIndex(index)
    /\ dispatched' = dispatched + 1
    /\ UNCHANGED <<running, minSizes, disk, faults, finished, forgotten>>

-----------------------------------------------------------------------------
\* A goroutine, after its simulation

Set(s, w) == workers' = [workers EXCEPT ![s] = w]

\* log.Fatal, or an interruption: the goroutines are gone, the files are not.
Exit ==
    /\ running' = FALSE
    /\ workers' = [s \in Slots |-> Idle]
    /\ UNCHANGED <<minSizes, index, dispatched, permits>>

\* The contents of the file count if they are as long as they should be; the
\* error of the read is dropped.
\* Mutant: the samples of the file are replaced.
Overwrites(m) == 0
Existing(m) ==
    IF samplesFile[m] # None /\ content[samplesFile[m]] # Short
    THEN content[samplesFile[m]] ELSE 0

Reload(s) ==
    LET w == workers[s] IN
    /\ w.pc = "reload"
    /\ Set(s, [w EXCEPT !.pc = "open", !.samples = 1 + Existing(w.size)])
    /\ UNCHANGED <<process, disk, faults, history>>

ReloadFails(s) ==
    LET w == workers[s] IN
    /\ w.pc = "reload"
    /\ samplesFile[w.size] # None /\ faults.read < MaxReadFaults
    /\ Set(s, [w EXCEPT !.pc = "open", !.samples = 1])
    /\ faults' = [faults EXCEPT !.read = @ + 1]
    /\ forgotten' = forgotten \cup {w.size}
    /\ UNCHANGED <<process, disk, finished, overlapped>>

\* os.WriteFile opens the temporary file, which creates or empties it, and
\* writes all samples.
FreeInode ==
    Min(Inodes \ ({samplesFile[m] : m \in Sizes} \cup {tmpFile[m] : m \in Sizes}
                  \cup {workers[s].fd : s \in Slots}))

\* The temporary file of a size has its name.
\* Mutant: all sizes have the same one.
OneTmp(m) == CHOOSE n \in Sizes : TRUE
Tmp(m) == m

\* Mutant: the samples are written in place.
InPlace(m, i) == /\ samplesFile' = [samplesFile EXCEPT ![m] = i]
                 /\ tmpFile' = [tmpFile EXCEPT ![Tmp(m)] = i]
Created(m, i) == tmpFile' = [tmpFile EXCEPT ![Tmp(m)] = i] /\ UNCHANGED samplesFile

Open(s) ==
    LET w == workers[s]
        i == IF tmpFile[Tmp(w.size)] = None THEN FreeInode ELSE tmpFile[Tmp(w.size)]
    IN  /\ w.pc = "open"
        /\ Created(w.size, i)
        /\ content' = [content EXCEPT ![i] = Short]
        /\ Set(s, [w EXCEPT !.pc = "write", !.fd = i])
        /\ UNCHANGED <<process, faults, history>>

Write(s) ==
    LET w == workers[s] IN
    /\ w.pc = "write"
    /\ content' = [content EXCEPT ![w.fd] = w.samples]
    /\ Set(s, [w EXCEPT !.pc = "rename", !.fd = None])
    /\ UNCHANGED <<process, samplesFile, tmpFile, faults, history>>

\* The temporary file becomes the file; the goroutine returns its permit.
\* Mutant: it does not.
KeepPermit == UNCHANGED permits
Release == permits' = permits + 1

Rename(s) ==
    LET m == workers[s].size IN
    /\ workers[s].pc = "rename" /\ tmpFile[Tmp(m)] # None
    /\ samplesFile' = [samplesFile EXCEPT ![m] = tmpFile[Tmp(m)]]
    /\ tmpFile' = [tmpFile EXCEPT ![Tmp(m)] = None]
    /\ finished' = [finished EXCEPT ![m] = @ + 1]
    /\ Set(s, Idle)
    /\ Release
    /\ UNCHANGED <<running, minSizes, index, dispatched, content, faults, overlapped, forgotten>>

\* There is no temporary file any more: log.Fatal.
RenameMissing(s) ==
    /\ workers[s].pc = "rename" /\ tmpFile[Tmp(workers[s].size)] = None
    /\ Exit
    /\ UNCHANGED <<disk, faults, history>>

\* The open, the write or the rename fails: log.Fatal.  A failed write leaves a
\* part of the samples.
Fails(s) ==
    /\ workers[s].pc \in {"open", "write", "rename"} /\ faults.stop < MaxStops
    /\ faults' = [faults EXCEPT !.stop = @ + 1]
    /\ Exit
    /\ UNCHANGED <<disk, history>>

-----------------------------------------------------------------------------
\* Interruptions

Crash ==
    /\ running /\ faults.stop < MaxStops
    /\ faults' = [faults EXCEPT !.stop = @ + 1]
    /\ Exit
    /\ UNCHANGED <<disk, history>>

Restart ==
    /\ ~ running /\ faults.restart < MaxRestarts
    /\ faults' = [faults EXCEPT !.restart = @ + 1]
    /\ running' = TRUE /\ minSizes' \in Shuffled
    /\ index' = 1 /\ dispatched' = 0 /\ permits' = NumCPU
    /\ UNCHANGED <<workers, disk, history>>

Goroutine(s) == Reload(s) \/ Open(s) \/ Write(s) \/ Rename(s) \/ RenameMissing(s)

Next ==
    \/ Dispatch
    \/ \E s \in Slots : Goroutine(s) \/ ReloadFails(s) \/ Fails(s)
    \/ Crash \/ Restart

\* The scheduler runs every goroutine, a simulation ends, and the user starts
\* the tool again.
Fairness == WF_vars(Dispatch) /\ WF_vars(Restart) /\ \A s \in Slots : WF_vars(Goroutine(s))

Spec == Init /\ [][Next]_vars /\ Fairness

-----------------------------------------------------------------------------
\* Properties

Contents == Nat \cup {Short}

\* Every variable has its type, and every goroutine its permit.
TypeOK ==
    /\ running \in BOOLEAN /\ minSizes \in Shuffled
    /\ index \in 1 .. Len(minSizes) /\ dispatched \in 0 .. MaxDispatched
    /\ workers \in [Slots -> [pc : {"idle", "reload", "open", "write", "rename"}, size : Sizes,
                              samples : Nat, fd : Inodes \cup {None}]]
    /\ running => permits = NumCPU - Cardinality({s \in Slots : workers[s].pc # "idle"})
    /\ samplesFile \in [Sizes -> Inodes \cup {None}]
    /\ tmpFile \in [Sizes -> Inodes \cup {None}]
    /\ content \in [Inodes -> Contents]
    /\ finished \in [Sizes -> Nat]
    /\ overlapped \subseteq Sizes /\ forgotten \subseteq Sizes

Held(m) == IF samplesFile[m] = None THEN 0 ELSE content[samplesFile[m]]

\* The file of a size that no two goroutines worked on at once has samples of
\* every bucket, and of every simulation of the size, once, unless a read failed.
AloneIsExact ==
    \A m \in Sizes \ overlapped :
        /\ Held(m) # Short
        /\ m \notin forgotten => Held(m) = finished[m]

\* The samples of no simulation are counted twice, by however many goroutines and
\* whatever was read.
NoneIsCountedTwice ==
    \A m \in Sizes : Held(m) # Short => Held(m) <= finished[m]

\* A file that print_maxcdc_stats may read at any time, in the middle of a write
\* or after an interruption, has samples of every bucket, and those of every
\* simulation that was written, each once, whatever was interrupted or failed in
\* between.  Where a read failed or two goroutines worked on the size at once,
\* samples may be missing, but none are counted twice.
CountsAreExact == AloneIsExact /\ NoneIsCountedTwice

\* The user does not start the tool again.
GivenUp == ~ running /\ faults.restart = MaxRestarts

\* However often the tool is interrupted, every size is simulated.
AllSizesSimulated == \A m \in Sizes : <>(finished[m] > 0 \/ GivenUp)
=============================================================================
