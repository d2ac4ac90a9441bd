------------------------ MODULE SimulateStats_proofs ------------------------
(***************************************************************************)
(* Proofs about the samples of simulate_maxcdc, for every set of sizes,    *)
(* number of processors, and number of interruptions, failures and         *)
(* restarts: the file of a size that no two goroutines worked on at once   *)
(* is never short, and holds the samples of every simulation, each once;   *)
(* and no goroutine is stuck and no size left out.                         *)
(***************************************************************************)
EXTENDS SimulateStats, FiniteSetTheorems, SequenceTheorems, WellFoundedInduction, TLAPS

-----------------------------------------------------------------------------
\* The inductive invariant

Busy == {s \in Slots : workers[s].pc # "idle"}

\* A process that has ended has no goroutines, and a goroutine has a file open
\* when it is writing.
SlotsAreClean ==
    /\ ~ running => Busy = {}
    /\ \A s \in Slots : workers[s].pc = "write" <=> workers[s].fd # None

\* Two goroutines of one size were seen when the second one was started.
Alone ==
    \A s, t \in Busy : s # t /\ workers[s].size = workers[t].size
                       => workers[s].size \in overlapped

\* No two paths have the same inode, and a goroutine writes to no file of
\* another size.
InodesAreApart ==
    /\ \A m, n \in Sizes :
          /\ m # n /\ samplesFile[m] # None => samplesFile[m] # samplesFile[n]
          /\ m # n /\ tmpFile[m] # None => tmpFile[m] # tmpFile[n]
          /\ samplesFile[m] # None => samplesFile[m] # tmpFile[n]
    /\ \A s \in Slots, n \in Sizes :
          workers[s].pc = "write" /\ workers[s].size # n
          => workers[s].fd # samplesFile[n] /\ workers[s].fd # tmpFile[n]

\* What the only goroutine of a size has counted and written.
WorkIsSound(s) ==
    LET w == workers[s] IN
    w.pc # "idle" /\ w.size \notin overlapped =>
       /\ w.pc # "reload" /\ w.size \notin forgotten => w.samples = 1 + finished[w.size]
       /\ w.pc = "write" => w.fd = tmpFile[w.size]
       /\ w.pc = "rename" => /\ tmpFile[w.size] # None
                             /\ content[tmpFile[w.size]] = w.samples

IInv ==
    /\ TypeOK
    /\ SlotsAreClean
    /\ Alone
    /\ InodesAreApart
    /\ \A s \in Slots : WorkIsSound(s)
    /\ AloneIsExact

-----------------------------------------------------------------------------
\* Facts about the constants, the smallest member, and the finite sets

LEMMA IdleType ==
    /\ Idle \in [pc : {"idle", "reload", "open", "write", "rename"}, size : Sizes,
                 samples : Nat, fd : Inodes \cup {None}]
    /\ Idle.pc = "idle" /\ Idle.fd = None /\ Idle.samples = 0
BY SizesAssumption DEF Idle, None

LEMMA SizesCardinality == Cardinality(Sizes) \in Nat \ {0}
BY SizesAssumption, FS_CardinalityType, FS_EmptySet

LEMMA Minimum ==
    ASSUME NEW S \in SUBSET Nat, S # {}
    PROVE  Min(S) \in S /\ \A y \in S : Min(S) <= y
<1> DEFINE R == OpToRel(<, Nat)
<1>1. IsWellFoundedOn(R, Nat)
    BY NatLessThanWellFounded
<1>2. \A x, y \in Nat : <<y, x>> \in R <=> y < x
    BY DEF OpToRel
<1> HIDE DEF R
<1>3. PICK x \in S : \A y \in S : ~ (<<y, x>> \in R)
    BY <1>1, WFMin
<1>4. ASSUME NEW y \in S PROVE x <= y
  <2>1. x \in Nat /\ y \in Nat /\ ~ (y < x)
    BY <1>2, <1>3
  <2> QED
    BY <2>1
<1> QED
    BY <1>4 DEF Min

\* The shuffled sizes have as many positions as there are sizes.
LEMMA ShuffledLength ==
    ASSUME NEW o \in Shuffled
    PROVE  /\ Len(o) = Cardinality(Sizes)
           /\ \A i \in 1 .. Len(o) : o[i] \in Sizes
<1>1. o \in [1 .. Cardinality(Sizes) -> Sizes]
    BY DEF Shuffled
<1>2. o \in Seq(Sizes)
    BY <1>1, SizesCardinality
<1>3. Len(o) = Cardinality(Sizes)
    BY <1>1, <1>2, SizesCardinality, LenProperties
<1> QED
    BY <1>1, <1>3

\* There are as many slots as processors.
LEMMA SlotsCardinality ==
    /\ IsFiniteSet(Slots) /\ Cardinality(Slots) = NumCPU
    /\ NumCPU \in Nat \ {0}
<1>1. NumCPU \in Nat \ {0}
    BY NumCPUAssumption
<1>2. IsFiniteSet(1 .. NumCPU) /\ Cardinality(1 .. NumCPU) = NumCPU
    BY <1>1, FS_Interval
<1> QED
    BY <1>1, <1>2 DEF Slots

LEMMA BusyCardinality ==
    /\ IsFiniteSet(Busy) /\ Busy \in SUBSET Slots
    /\ Cardinality(Busy) \in Nat /\ Cardinality(Busy) <= NumCPU
    /\ Cardinality(Busy) = NumCPU => Busy = Slots
<1>1. Busy \in SUBSET Slots
    BY DEF Busy
<1> QED
    BY <1>1, SlotsCardinality, FS_Subset, FS_CardinalityType

\* Dispatch finds a slot: there is an idle one whenever there is a permit.
LEMMA IdleSlot ==
    ASSUME TypeOK, running, permits > 0
    PROVE  /\ Min({t \in Slots : workers[t].pc = "idle"}) \in Slots
           /\ workers[Min({t \in Slots : workers[t].pc = "idle"})].pc = "idle"
<1> DEFINE S == {t \in Slots : workers[t].pc = "idle"}
<1>1. permits = NumCPU - Cardinality(Busy)
    BY DEF TypeOK, Busy
<1>2. Busy # Slots
    BY <1>1, BusyCardinality, SlotsCardinality
<1>3. S # {} /\ S \in SUBSET Nat
    BY <1>2 DEF Busy, Slots
<1>4. Min(S) \in S
    BY <1>3, Minimum
<1> QED
    BY <1>4

\* The values of a function are no more than its arguments.
LEMMA Values ==
    ASSUME NEW D, IsFiniteSet(D), NEW f, f = [x \in D |-> f[x]]
    PROVE  /\ IsFiniteSet({f[x] : x \in D})
           /\ Cardinality({f[x] : x \in D}) \in Nat
           /\ Cardinality({f[x] : x \in D}) <= Cardinality(D)
           /\ Cardinality(D) \in Nat
<1> DEFINE T == {f[x] : x \in D}
<1>1. f \in Surjection(D, T)
    BY DEF Surjection
<1> HIDE DEF T
<1>2. IsFiniteSet(T) /\ Cardinality(T) <= Cardinality(D)
    BY <1>1, FS_Surjection
<1> QED
    BY <1>2, FS_CardinalityType DEF T

\* There is an inode for a temporary file that does not exist: the files and the
\* open ones cannot have all.
LEMMA FreeInodeExists ==
    ASSUME TypeOK, NEW m \in Sizes, tmpFile[m] = None
    PROVE  /\ FreeInode \in Inodes
           /\ \A n \in Sizes : FreeInode # samplesFile[n] /\ FreeInode # tmpFile[n]
           /\ \A s \in Slots : FreeInode # workers[s].fd
<1> DEFINE A == {samplesFile[n] : n \in Sizes}
           B == {tmpFile[n] : n \in Sizes}
           fd == [s \in Slots |-> workers[s].fd]
           C == {fd[s] : s \in Slots}
           C0 == {workers[s].fd : s \in Slots}
           U == A \cup B \cup C0
           c == Cardinality(Sizes)
<1>1. /\ IsFiniteSet(A) /\ Cardinality(A) \in Nat /\ Cardinality(A) <= c
      /\ IsFiniteSet(B) /\ Cardinality(B) \in Nat /\ Cardinality(B) <= c
  <2>1. samplesFile = [n \in Sizes |-> samplesFile[n]] /\ tmpFile = [n \in Sizes |-> tmpFile[n]]
    BY DEF TypeOK
  <2> QED
    BY <2>1, Values, SizesAssumption
<1>2. IsFiniteSet(C0) /\ Cardinality(C0) \in Nat /\ Cardinality(C0) <= NumCPU
  <2>1. C = C0
    OBVIOUS
  <2>2. fd = [s \in Slots |-> fd[s]]
    OBVIOUS
  <2> HIDE DEF fd
  <2>3. IsFiniteSet(C) /\ Cardinality(C) \in Nat /\ Cardinality(C) <= NumCPU
    BY <2>2, Values, SlotsCardinality
  <2> QED
    BY <2>1, <2>3
<1> HIDE DEF C0
<1>3. IsFiniteSet(U) /\ Cardinality(U) \in Nat /\ Cardinality(U) <= 2 * c + NumCPU
  <2> HIDE DEF A, B
  <2>1. /\ IsFiniteSet(A \cup B) /\ Cardinality(A \cup B) \in Nat
        /\ Cardinality(A \cup B) <= Cardinality(A) + Cardinality(B)
    <3>1. /\ IsFiniteSet(A \cup B)
          /\ Cardinality(A \cup B) = Cardinality(A) + Cardinality(B) - Cardinality(A \cap B)
      BY <1>1, FS_Union
    <3>2. Cardinality(A \cap B) \in Nat /\ Cardinality(A \cup B) \in Nat
      BY <1>1, <3>1, FS_Intersection, FS_CardinalityType
    <3> QED
      BY <1>1, <3>1, <3>2
  <2>2. /\ IsFiniteSet(U) /\ Cardinality(U) \in Nat
        /\ Cardinality(U) <= Cardinality(A \cup B) + Cardinality(C0)
    <3>1. /\ IsFiniteSet(U)
          /\ Cardinality(U) = Cardinality(A \cup B) + Cardinality(C0)
                              - Cardinality((A \cup B) \cap C0)
      BY <1>2, <2>1, FS_Union
    <3>2. Cardinality((A \cup B) \cap C0) \in Nat /\ Cardinality(U) \in Nat
      BY <1>2, <2>1, <3>1, FS_Intersection, FS_CardinalityType
    <3> QED
      BY <1>2, <2>1, <3>1, <3>2
  <2>3. c \in Nat /\ NumCPU \in Nat
    BY SizesCardinality, SlotsCardinality
  <2> HIDE DEF U, c
  <2> QED
    BY <1>1, <1>2, <2>1, <2>2, <2>3
<1>4. Inodes \ U # {}
  <2> SUFFICES ASSUME Inodes \subseteq U PROVE FALSE
    OBVIOUS
  <2>1. None \in U /\ None \notin Inodes
    BY DEF None, Inodes
  <2>2. 2 * c + NumCPU \in Nat
    BY SizesCardinality, SlotsCardinality
  <2>3. IsFiniteSet(Inodes) /\ Cardinality(Inodes) = 2 * c + NumCPU
    <3>1. \A k \in Nat : IsFiniteSet(1 .. k) /\ Cardinality(1 .. k) = k
      BY FS_Interval
    <3> QED
      BY <2>2, <3>1 DEF Inodes
  <2>4. Cardinality(Inodes \cup {None}) = 2 * c + NumCPU + 1
    BY <2>1, <2>3, FS_AddElement
  <2> HIDE DEF U, c
  <2>5. Cardinality(Inodes \cup {None}) <= Cardinality(U)
    BY <1>3, <2>1, FS_Subset
  <2> QED
    BY <1>3, <2>2, <2>4, <2>5
<1>5. FreeInode = Min(Inodes \ U)
    BY DEF FreeInode, C0
<1>6. FreeInode \in Inodes \ U
  <2>1. Inodes \ U \in SUBSET Nat
    BY DEF Inodes
  <2> HIDE DEF U
  <2> QED
    BY <1>4, <1>5, <2>1, Minimum
<1> QED
    BY <1>6 DEF C0

-----------------------------------------------------------------------------
\* The steps

LEMMA InitIInv == Init => IInv
<1> SUFFICES ASSUME Init PROVE IInv
    OBVIOUS
<1>1. Busy = {}
    BY IdleType DEF Init, Busy
<1>2. TypeOK
  <2>1. index \in 1 .. Len(minSizes)
    BY ShuffledLength, SizesCardinality DEF Init
  <2>2. permits = NumCPU - Cardinality(Busy)
    BY <1>1, FS_EmptySet, SlotsCardinality DEF Init
  <2>3. dispatched \in 0 .. MaxDispatched
    BY MaxDispatchedAssumption DEF Init
  <2>4. content \in [Inodes -> Contents]
    BY DEF Init, Contents
  <2> QED
    BY <2>1, <2>2, <2>3, <2>4, IdleType DEF Init, TypeOK, Busy
<1>3. SlotsAreClean /\ Alone
    BY <1>1, IdleType DEF Init, SlotsAreClean, Alone
<1>4. InodesAreApart /\ (\A s \in Slots : WorkIsSound(s))
    BY IdleType DEF Init, InodesAreApart, WorkIsSound
<1>5. AloneIsExact
    BY ShortAssumption DEF Init, AloneIsExact, Held
<1> QED
    BY <1>2, <1>3, <1>4, <1>5 DEF IInv

\* A goroutine that goes on keeps its permit.
LEMMA BusyStays ==
    ASSUME TypeOK, NEW s \in Slots, NEW w, workers[s].pc # "idle", w.pc # "idle", Set(s, w)
    PROVE  Busy' = Busy
BY DEF Set, Busy, TypeOK

LEMMA DispatchIInv == IInv /\ Dispatch => IInv'
<1> SUFFICES ASSUME IInv, Dispatch PROVE IInv'
    OBVIOUS
<1> DEFINE m == minSizes[index]
           s == Min({t \in Slots : workers[t].pc = "idle"})
           w == [Idle EXCEPT !.pc = "reload", !.size = m]
<1>1. s \in Slots /\ workers[s].pc = "idle"
    BY IdleSlot DEF IInv, Dispatch
<1>2. m \in Sizes
    BY ShuffledLength DEF IInv, TypeOK
<1>3. /\ w \in [pc : {"idle", "reload", "open", "write", "rename"}, size : Sizes,
               samples : Nat, fd : Inodes \cup {None}]
      /\ w.pc = "reload" /\ w.size = m /\ w.fd = None
    BY <1>2, IdleType
<1>4. /\ workers' = [workers EXCEPT ![s] = w]
      /\ overlapped' = IF Working(m) # {} THEN overlapped \cup {m} ELSE overlapped
      /\ running /\ permits > 0 /\ dispatched < MaxDispatched
      /\ permits' = permits - 1 /\ index' = NextIndex(index) /\ dispatched' = dispatched + 1
      /\ UNCHANGED <<running, minSizes, disk, finished, forgotten>>
    BY DEF Dispatch
<1> HIDE DEF s, w, m
<1>5. workers \in [Slots -> [pc : {"idle", "reload", "open", "write", "rename"}, size : Sizes,
                              samples : Nat, fd : Inodes \cup {None}]]
    BY DEF IInv, TypeOK
<1>6. /\ workers'[s] = w
      /\ \A t \in Slots : t # s => workers'[t] = workers[t]
    BY <1>1, <1>4, <1>5
<1>7. overlapped \subseteq overlapped'
    BY <1>4
<1>8. TypeOK'
  <2>1. Busy' = Busy \cup {s} /\ s \notin Busy
    BY <1>1, <1>3, <1>6 DEF Busy
  <2>2. Cardinality(Busy') = Cardinality(Busy) + 1
    BY <2>1, BusyCardinality, FS_AddElement
  <2>3. permits = NumCPU - Cardinality(Busy)
    BY <1>4 DEF IInv, TypeOK, Busy
  <2>4. permits' = NumCPU - Cardinality(Busy')
    BY <1>4, <2>2, <2>3, BusyCardinality, SlotsCardinality
  <2>5. index' \in 1 .. Len(minSizes)
    BY <1>4, ShuffledLength, SizesCardinality DEF IInv, TypeOK, NextIndex
  <2>6. dispatched' \in 0 .. MaxDispatched
    BY <1>4, MaxDispatchedAssumption DEF IInv, TypeOK
  <2>7. workers' \in [Slots -> [pc : {"idle", "reload", "open", "write", "rename"}, size : Sizes,
                                samples : Nat, fd : Inodes \cup {None}]]
    BY <1>1, <1>3, <1>4, <1>5
  <2>8. overlapped' \subseteq Sizes
    BY <1>2, <1>4 DEF IInv, TypeOK
  <2> QED
    BY <1>4, <2>4, <2>5, <2>6, <2>7, <2>8 DEF IInv, TypeOK, disk, Busy
<1>9. SlotsAreClean'
    BY <1>3, <1>4, <1>6 DEF IInv, SlotsAreClean
<1>10. Alone'
  <2> SUFFICES ASSUME NEW t \in Busy', NEW u \in Busy', t # u,
                      workers'[t].size = workers'[u].size
               PROVE  workers'[t].size \in overlapped'
    BY DEF Alone
  <2>1. CASE t # s /\ u # s
    <3>1. t \in Busy /\ u \in Busy
      BY <1>6, <2>1 DEF Busy
    <3> QED
      BY <1>6, <1>7, <2>1, <3>1 DEF IInv, Alone, Busy
  <2>2. CASE t = s
    <3>1. u \in Working(m)
      BY <1>3, <1>6, <2>2 DEF Busy, Working
    <3> QED
      BY <1>3, <1>4, <1>6, <2>2, <3>1
  <2>3. CASE u = s
    <3>1. t \in Working(m)
      BY <1>3, <1>6, <2>3 DEF Busy, Working
    <3> QED
      BY <1>3, <1>4, <1>6, <2>3, <3>1
  <2> QED
    BY <2>1, <2>2, <2>3
<1>11. InodesAreApart'
  <2>1. UNCHANGED <<samplesFile, tmpFile>>
    BY <1>4 DEF disk
  <2> QED
    BY <1>3, <1>6, <2>1 DEF IInv, InodesAreApart
<1>12. ASSUME NEW t \in Slots PROVE WorkIsSound(t)'
  <2>1. CASE t = s
    BY <1>3, <1>6, <2>1 DEF WorkIsSound
  <2>2. CASE t # s
    BY <1>4, <1>6, <1>7, <2>2 DEF IInv, WorkIsSound, disk
  <2> QED
    BY <2>1, <2>2
<1>13. AloneIsExact'
    BY <1>4, <1>7 DEF IInv, AloneIsExact, Held, disk
<1> QED
    BY <1>8, <1>9, <1>10, <1>11, <1>12, <1>13 DEF IInv

\* A goroutine that has read the file or not.
LEMMA LoadedIInv ==
    ASSUME IInv, NEW s \in Slots, NEW k \in Nat,
           workers[s].pc = "reload",
           Set(s, [workers[s] EXCEPT !.pc = "open", !.samples = k]),
           forgotten' \in SUBSET Sizes, forgotten \subseteq forgotten',
           workers[s].size \notin overlapped /\ workers[s].size \notin forgotten'
           => k = 1 + finished[workers[s].size],
           UNCHANGED <<process, disk, finished, overlapped>>
    PROVE  IInv'
<1> DEFINE w == [workers[s] EXCEPT !.pc = "open", !.samples = k]
<1>1. workers \in [Slots -> [pc : {"idle", "reload", "open", "write", "rename"}, size : Sizes,
                              samples : Nat, fd : Inodes \cup {None}]]
    BY DEF IInv, TypeOK
<1>2. /\ w \in [pc : {"idle", "reload", "open", "write", "rename"}, size : Sizes,
               samples : Nat, fd : Inodes \cup {None}]
      /\ w.pc = "open" /\ w.size = workers[s].size /\ w.fd = workers[s].fd /\ w.samples = k
    BY <1>1
<1> HIDE DEF w
<1>3. Set(s, w)
    BY DEF w
<1>4. /\ workers' = [workers EXCEPT ![s] = w]
      /\ workers'[s] = w
      /\ \A t \in Slots : t # s => workers'[t] = workers[t]
    BY <1>1, <1>3 DEF Set
<1>5. Busy' = Busy
    BY <1>2, <1>3, BusyStays DEF IInv
<1>6. TypeOK'
  <2>1. workers' \in [Slots -> [pc : {"idle", "reload", "open", "write", "rename"}, size : Sizes,
                                samples : Nat, fd : Inodes \cup {None}]]
    BY <1>1, <1>2, <1>4
  <2> QED
    BY <1>5, <2>1 DEF IInv, TypeOK, process, disk, Busy
<1>7. SlotsAreClean'
    BY <1>2, <1>4, <1>5 DEF IInv, SlotsAreClean, process
<1>8. Alone'
    BY <1>2, <1>4, <1>5 DEF IInv, Alone, Busy
<1>9. InodesAreApart'
    BY <1>2, <1>4 DEF IInv, InodesAreApart, disk
<1>10. ASSUME NEW t \in Slots PROVE WorkIsSound(t)'
  <2>1. CASE t = s
    BY <1>2, <1>4, <2>1 DEF WorkIsSound
  <2>2. CASE t # s
    BY <1>4, <2>2 DEF IInv, WorkIsSound, disk
  <2> QED
    BY <2>1, <2>2
<1>11. AloneIsExact'
    BY DEF IInv, AloneIsExact, Held, disk
<1> QED
    BY <1>6, <1>7, <1>8, <1>9, <1>10, <1>11 DEF IInv

LEMMA ReloadIInv ==
    ASSUME IInv, NEW s \in Slots, Reload(s)
    PROVE  IInv'
<1> DEFINE m == workers[s].size
           k == 1 + Existing(m)
<1>1. m \in Sizes
    BY DEF IInv, TypeOK
<1>2. Existing(m) \in Nat
    BY <1>1 DEF IInv, TypeOK, Existing, Contents, None
<1>3. m \notin overlapped /\ m \notin forgotten => Existing(m) = finished[m]
    BY <1>1 DEF IInv, AloneIsExact, Held, Existing
<1>4. /\ workers[s].pc = "reload"
      /\ Set(s, [workers[s] EXCEPT !.pc = "open", !.samples = k])
      /\ UNCHANGED <<process, disk, finished, overlapped>>
      /\ forgotten' = forgotten
    BY DEF Reload, history
<1>5. forgotten \in SUBSET Sizes
    BY DEF IInv, TypeOK
<1> HIDE DEF k
<1>6. k \in Nat /\ (m \notin overlapped /\ m \notin forgotten => k = 1 + finished[m])
    BY <1>2, <1>3 DEF k
<1> QED
    BY <1>4, <1>5, <1>6, LoadedIInv

LEMMA ReloadFailsIInv ==
    ASSUME IInv, NEW s \in Slots, ReloadFails(s)
    PROVE  IInv'
<1>1. workers[s].size \in Sizes /\ forgotten \in SUBSET Sizes
    BY DEF IInv, TypeOK
<1>2. /\ workers[s].pc = "reload"
      /\ Set(s, [workers[s] EXCEPT !.pc = "open", !.samples = 1])
      /\ UNCHANGED <<process, disk, finished, overlapped>>
      /\ forgotten' = forgotten \cup {workers[s].size}
    BY DEF ReloadFails
<1> QED
    BY <1>1, <1>2, LoadedIInv

\* The inode of a temporary file is new, or the one it had: in any case no other
\* path has it, and no goroutine of another size writes to it.
LEMMA OpenedInode ==
    ASSUME IInv, NEW m \in Sizes, NEW i,
           i = IF tmpFile[m] = None THEN FreeInode ELSE tmpFile[m]
    PROVE  /\ i \in Inodes /\ i # None
           /\ \A n \in Sizes : i # samplesFile[n] /\ (n # m => i # tmpFile[n])
           /\ \A t \in Slots : workers[t].pc = "write" /\ workers[t].size # m
                               => i # workers[t].fd
<1>1. CASE tmpFile[m] = None
  <2>1. i = FreeInode
    BY <1>1
  <2>2. i \in Inodes
    BY <1>1, <2>1, FreeInodeExists DEF IInv
  <2>3. \A n \in Sizes : i # samplesFile[n] /\ i # tmpFile[n]
    BY <1>1, <2>1, FreeInodeExists DEF IInv
  <2>4. \A t \in Slots : i # workers[t].fd
    BY <1>1, <2>1, FreeInodeExists DEF IInv
  <2> QED
    BY <2>2, <2>3, <2>4 DEF Inodes, None
<1>2. CASE tmpFile[m] # None
  <2>1. i = tmpFile[m]
    BY <1>2
  <2>2. i \in Inodes
    BY <1>2, <2>1 DEF IInv, TypeOK
  <2>3. \A n \in Sizes : i # samplesFile[n] /\ (n # m => i # tmpFile[n])
    BY <1>2, <2>1 DEF IInv, InodesAreApart
  <2>4. \A t \in Slots : workers[t].pc = "write" /\ workers[t].size # m => i # workers[t].fd
    BY <1>2, <2>1 DEF IInv, InodesAreApart
  <2> QED
    BY <2>2, <2>3, <2>4 DEF Inodes, None
<1> QED
    BY <1>1, <1>2

LEMMA OpenIInv ==
    ASSUME IInv, NEW s \in Slots, Open(s)
    PROVE  IInv'
<1> DEFINE m == workers[s].size
           i == IF tmpFile[m] = None THEN FreeInode ELSE tmpFile[m]
           w == [workers[s] EXCEPT !.pc = "write", !.fd = i]
<1>1. workers \in [Slots -> [pc : {"idle", "reload", "open", "write", "rename"}, size : Sizes,
                              samples : Nat, fd : Inodes \cup {None}]]
    BY DEF IInv, TypeOK
<1>2. m \in Sizes
    BY <1>1
<1>3. /\ i \in Inodes /\ i # None
      /\ \A n \in Sizes : i # samplesFile[n] /\ (n # m => i # tmpFile[n])
      /\ \A t \in Slots : workers[t].pc = "write" /\ workers[t].size # m
                          => i # workers[t].fd
    BY <1>2, OpenedInode
<1>4. /\ workers[s].pc = "open"
      /\ tmpFile' = [tmpFile EXCEPT ![m] = i] /\ samplesFile' = samplesFile
      /\ content' = [content EXCEPT ![i] = Short]
      /\ Set(s, w)
      /\ UNCHANGED <<process, finished, overlapped, forgotten>>
    BY DEF Open, Created, Tmp, history
<1> HIDE DEF i
<1>5. /\ w \in [pc : {"idle", "reload", "open", "write", "rename"}, size : Sizes,
               samples : Nat, fd : Inodes \cup {None}]
      /\ w.pc = "write" /\ w.size = m /\ w.fd = i /\ w.samples = workers[s].samples
    BY <1>1, <1>3
<1> HIDE DEF w
<1>6. /\ workers' = [workers EXCEPT ![s] = w]
      /\ workers'[s] = w
      /\ \A t \in Slots : t # s => workers'[t] = workers[t]
    BY <1>1, <1>4 DEF Set
<1>7. Busy' = Busy /\ s \in Busy
    BY <1>4, <1>5, BusyStays DEF IInv, Busy
<1> HIDE DEF m
<1>8. /\ tmpFile'[m] = i
      /\ \A n \in Sizes : n # m => tmpFile'[n] = tmpFile[n]
      /\ content'[i] = Short
      /\ \A j \in Inodes : j # i => content'[j] = content[j]
    BY <1>2, <1>3, <1>4 DEF IInv, TypeOK
<1>9. TypeOK'
  <2>1. workers' \in [Slots -> [pc : {"idle", "reload", "open", "write", "rename"}, size : Sizes,
                                samples : Nat, fd : Inodes \cup {None}]]
    BY <1>1, <1>5, <1>6
  <2>2. tmpFile' \in [Sizes -> Inodes \cup {None}] /\ content' \in [Inodes -> Contents]
    BY <1>2, <1>3, <1>4 DEF IInv, TypeOK, Contents
  <2> QED
    BY <1>4, <1>7, <2>1, <2>2 DEF IInv, TypeOK, process, Busy
<1>10. SlotsAreClean'
    BY <1>3, <1>4, <1>5, <1>6, <1>7 DEF IInv, SlotsAreClean, process
<1>11. Alone'
    BY <1>4, <1>5, <1>6, <1>7 DEF IInv, Alone, Busy, m
<1>12. InodesAreApart'
  <2>1. ASSUME NEW a \in Sizes, NEW b \in Sizes
        PROVE  /\ a # b /\ samplesFile'[a] # None => samplesFile'[a] # samplesFile'[b]
               /\ a # b /\ tmpFile'[a] # None => tmpFile'[a] # tmpFile'[b]
               /\ samplesFile'[a] # None => samplesFile'[a] # tmpFile'[b]
    BY <1>3, <1>4, <1>8 DEF IInv, InodesAreApart
  <2>2. ASSUME NEW t \in Slots, NEW n \in Sizes,
               workers'[t].pc = "write", workers'[t].size # n
        PROVE  workers'[t].fd # samplesFile'[n] /\ workers'[t].fd # tmpFile'[n]
    <3>1. CASE t = s
      BY <1>3, <1>4, <1>5, <1>6, <1>8, <2>2, <3>1
    <3>2. CASE t # s
      BY <1>3, <1>4, <1>6, <1>8, <2>2, <3>2 DEF IInv, InodesAreApart
    <3> QED
      BY <3>1, <3>2
  <2> QED
    BY <2>1, <2>2 DEF InodesAreApart
<1>13. ASSUME NEW t \in Slots PROVE WorkIsSound(t)'
  <2>1. CASE t = s
    BY <1>3, <1>4, <1>5, <1>6, <1>8, <2>1 DEF IInv, WorkIsSound, m
  <2>2. CASE t # s
    <3> SUFFICES ASSUME workers[t].pc # "idle", workers[t].size \notin overlapped
                 PROVE  WorkIsSound(t)'
      BY <1>4, <1>6, <2>2 DEF WorkIsSound
    <3>1. workers[t].size # m /\ workers[t].size \in Sizes
      BY <1>1, <1>7, <2>2 DEF IInv, Alone, Busy, m
    <3>2. tmpFile'[workers[t].size] = tmpFile[workers[t].size]
      BY <1>8, <3>1
    <3>3. tmpFile[workers[t].size] # None
          => content'[tmpFile[workers[t].size]] = content[tmpFile[workers[t].size]]
      BY <1>3, <1>8, <3>1 DEF IInv, TypeOK
    <3> QED
      BY <1>4, <1>6, <2>2, <3>2, <3>3 DEF IInv, WorkIsSound
  <2> QED
    BY <2>1, <2>2
<1>14. AloneIsExact'
  <2>1. \A n \in Sizes : Held(n)' = Held(n)
    BY <1>3, <1>4, <1>8 DEF IInv, TypeOK, Held
  <2> QED
    BY <1>4, <2>1 DEF IInv, AloneIsExact
<1> QED
    BY <1>9, <1>10, <1>11, <1>12, <1>13, <1>14 DEF IInv

LEMMA WriteIInv ==
    ASSUME IInv, NEW s \in Slots, Write(s)
    PROVE  IInv'
<1> DEFINE m == workers[s].size
           i == workers[s].fd
           k == workers[s].samples
           w == [workers[s] EXCEPT !.pc = "rename", !.fd = None]
<1>1. workers \in [Slots -> [pc : {"idle", "reload", "open", "write", "rename"}, size : Sizes,
                              samples : Nat, fd : Inodes \cup {None}]]
    BY DEF IInv, TypeOK
<1>2. m \in Sizes /\ k \in Nat
    BY <1>1
<1>3. /\ workers[s].pc = "write"
      /\ content' = [content EXCEPT ![i] = k]
      /\ Set(s, w)
      /\ UNCHANGED <<process, samplesFile, tmpFile, finished, overlapped, forgotten>>
    BY DEF Write, history
<1>4. /\ w \in [pc : {"idle", "reload", "open", "write", "rename"}, size : Sizes,
               samples : Nat, fd : Inodes \cup {None}]
      /\ w.pc = "rename" /\ w.size = m /\ w.fd = None /\ w.samples = k
    BY <1>1
<1> HIDE DEF w
<1>5. /\ workers' = [workers EXCEPT ![s] = w]
      /\ workers'[s] = w
      /\ \A t \in Slots : t # s => workers'[t] = workers[t]
    BY <1>1, <1>3 DEF Set
<1>6. Busy' = Busy /\ s \in Busy
    BY <1>3, <1>4, BusyStays DEF IInv, Busy
<1>7. \A n \in Sizes : n # m => i # samplesFile[n] /\ i # tmpFile[n]
    BY <1>3 DEF IInv, InodesAreApart
<1>8. m \notin overlapped => i \in Inodes /\ i = tmpFile[m] /\ i # None /\ i # samplesFile[m]
  <2>1. m \notin overlapped => i # None /\ i = tmpFile[m]
    BY <1>3 DEF IInv, WorkIsSound, SlotsAreClean
  <2>2. i # None => i \in Inodes
    BY <1>1
  <2> QED
    BY <1>2, <2>1, <2>2 DEF IInv, InodesAreApart
<1>9. \A j \in Inodes : content'[j] = IF j = i THEN k ELSE content[j]
    BY <1>3 DEF IInv, TypeOK
<1>10. content' \in [Inodes -> Contents]
    BY <1>2, <1>3 DEF IInv, TypeOK, Contents
<1>11. TypeOK'
  <2>1. workers' \in [Slots -> [pc : {"idle", "reload", "open", "write", "rename"}, size : Sizes,
                                samples : Nat, fd : Inodes \cup {None}]]
    BY <1>1, <1>4, <1>5
  <2> QED
    BY <1>3, <1>6, <1>10, <2>1 DEF IInv, TypeOK, process, Busy
<1>12. SlotsAreClean'
    BY <1>3, <1>4, <1>5, <1>6 DEF IInv, SlotsAreClean, process
<1>13. Alone'
    BY <1>3, <1>4, <1>5, <1>6 DEF IInv, Alone, Busy
<1>14. InodesAreApart'
    BY <1>3, <1>4, <1>5 DEF IInv, InodesAreApart
<1> HIDE DEF i, k
<1>15. ASSUME NEW t \in Slots PROVE WorkIsSound(t)'
  <2>1. CASE t = s
    <3> SUFFICES ASSUME m \notin overlapped PROVE WorkIsSound(t)'
      BY <1>3, <1>4, <1>5, <2>1 DEF WorkIsSound
    <3>1. tmpFile'[m] # None /\ content'[tmpFile'[m]] = k
      BY <1>3, <1>8, <1>9
    <3>2. m \notin forgotten => k = 1 + finished[m]
      BY <1>3 DEF IInv, WorkIsSound, k
    <3> QED
      BY <1>3, <1>4, <1>5, <2>1, <3>1, <3>2 DEF WorkIsSound
  <2>2. CASE t # s
    <3> SUFFICES ASSUME workers[t].pc # "idle", workers[t].size \notin overlapped
                 PROVE  WorkIsSound(t)'
      BY <1>3, <1>5, <2>2 DEF WorkIsSound
    <3>1. workers[t].size # m /\ workers[t].size \in Sizes
      BY <1>1, <1>6, <2>2 DEF IInv, Alone, Busy
    <3>2. tmpFile[workers[t].size] # None
          => content'[tmpFile[workers[t].size]] = content[tmpFile[workers[t].size]]
      BY <1>7, <1>9, <3>1 DEF IInv, TypeOK
    <3> QED
      BY <1>3, <1>5, <2>2, <3>2 DEF IInv, WorkIsSound
  <2> QED
    BY <2>1, <2>2
<1>16. AloneIsExact'
  <2>1. \A n \in Sizes \ overlapped : Held(n)' = Held(n)
    BY <1>3, <1>7, <1>8, <1>9 DEF IInv, TypeOK, Held
  <2> QED
    BY <1>3, <2>1 DEF IInv, AloneIsExact
<1> QED
    BY <1>11, <1>12, <1>13, <1>14, <1>15, <1>16 DEF IInv

LEMMA RenameIInv ==
    ASSUME IInv, NEW s \in Slots, Rename(s)
    PROVE  IInv'
<1> DEFINE m == workers[s].size
           i == tmpFile[m]
<1>1. workers \in [Slots -> [pc : {"idle", "reload", "open", "write", "rename"}, size : Sizes,
                              samples : Nat, fd : Inodes \cup {None}]]
    BY DEF IInv, TypeOK
<1>2. m \in Sizes
    BY <1>1
<1>3. /\ workers[s].pc = "rename" /\ i # None
      /\ samplesFile' = [samplesFile EXCEPT ![m] = i]
      /\ tmpFile' = [tmpFile EXCEPT ![m] = None]
      /\ finished' = [finished EXCEPT ![m] = @ + 1]
      /\ workers' = [workers EXCEPT ![s] = Idle]
      /\ permits' = permits + 1
      /\ UNCHANGED <<running, minSizes, index, dispatched, content, faults, overlapped, forgotten>>
    BY DEF Rename, Tmp, Release, Set
<1>4. /\ workers'[s] = Idle
      /\ \A t \in Slots : t # s => workers'[t] = workers[t]
    BY <1>1, <1>3
<1>5. Busy' = Busy \ {s} /\ s \in Busy
    BY <1>3, <1>4, IdleType DEF Busy
<1>6. /\ i \in Inodes
      /\ \A n \in Sizes : i # samplesFile[n] /\ (n # m => i # tmpFile[n])
      /\ \A t \in Slots : workers[t].pc = "write" /\ workers[t].size # m
                          => i # workers[t].fd
    BY <1>2, <1>3, OpenedInode
<1>7. m \notin overlapped
      => /\ content[i] = workers[s].samples /\ content[i] \in Nat
         /\ m \notin forgotten => content[i] = 1 + finished[m]
    BY <1>1, <1>3 DEF IInv, WorkIsSound
<1> HIDE DEF i
<1>8. /\ samplesFile'[m] = i /\ tmpFile'[m] = None /\ finished'[m] = finished[m] + 1
      /\ \A n \in Sizes : n # m => /\ samplesFile'[n] = samplesFile[n]
                                   /\ tmpFile'[n] = tmpFile[n]
                                   /\ finished'[n] = finished[n]
    BY <1>2, <1>3 DEF IInv, TypeOK
<1>9. TypeOK'
  <2>1. workers' \in [Slots -> [pc : {"idle", "reload", "open", "write", "rename"}, size : Sizes,
                                samples : Nat, fd : Inodes \cup {None}]]
    BY <1>1, <1>3, IdleType
  <2>2. /\ samplesFile' \in [Sizes -> Inodes \cup {None}]
        /\ tmpFile' \in [Sizes -> Inodes \cup {None}]
        /\ finished' \in [Sizes -> Nat]
    BY <1>2, <1>3, <1>6 DEF IInv, TypeOK
  <2>3. running => permits' = NumCPU - Cardinality(Busy')
    <3>1. Cardinality(Busy') = Cardinality(Busy) - 1
      BY <1>5, BusyCardinality, FS_RemoveElement
    <3>2. running => permits = NumCPU - Cardinality(Busy)
      BY DEF IInv, TypeOK, Busy
    <3> QED
      BY <1>3, <3>1, <3>2, BusyCardinality, SlotsCardinality
  <2> QED
    BY <1>3, <2>1, <2>2, <2>3 DEF IInv, TypeOK, Busy
<1>10. SlotsAreClean'
    BY <1>3, <1>4, <1>5, IdleType DEF IInv, SlotsAreClean
<1>11. Alone'
    BY <1>3, <1>4, <1>5 DEF IInv, Alone, Busy
<1>12. InodesAreApart'
  <2>1. ASSUME NEW a \in Sizes, NEW b \in Sizes
        PROVE  /\ a # b /\ samplesFile'[a] # None => samplesFile'[a] # samplesFile'[b]
               /\ a # b /\ tmpFile'[a] # None => tmpFile'[a] # tmpFile'[b]
               /\ samplesFile'[a] # None => samplesFile'[a] # tmpFile'[b]
    BY <1>3, <1>6, <1>8 DEF IInv, InodesAreApart
  <2>2. ASSUME NEW t \in Slots, NEW n \in Sizes,
               workers'[t].pc = "write", workers'[t].size # n
        PROVE  workers'[t].fd # samplesFile'[n] /\ workers'[t].fd # tmpFile'[n]
    <3>1. t # s /\ workers'[t] = workers[t]
      BY <1>4, <2>2, IdleType
    <3>2. workers[t].fd # samplesFile[n] /\ workers[t].fd # tmpFile[n]
      BY <2>2, <3>1 DEF IInv, InodesAreApart
    <3>3. CASE n # m
      BY <1>8, <3>1, <3>2, <3>3
    <3>4. CASE n = m
      <4>1. workers[t].fd # i
        BY <1>6, <2>2, <3>1, <3>4
      <4>2. workers[t].fd # None
        BY <2>2, <3>1 DEF IInv, SlotsAreClean
      <4> QED
        BY <1>8, <3>1, <3>4, <4>1, <4>2
    <3> QED
      BY <3>3, <3>4
  <2> QED
    BY <2>1, <2>2 DEF InodesAreApart
<1>13. ASSUME NEW t \in Slots PROVE WorkIsSound(t)'
  <2>1. CASE t = s
    BY <1>4, <2>1, IdleType DEF WorkIsSound
  <2>2. CASE t # s
    <3> SUFFICES ASSUME workers[t].pc # "idle", workers[t].size \notin overlapped
                 PROVE  WorkIsSound(t)'
      BY <1>3, <1>4, <2>2 DEF WorkIsSound
    <3>1. workers[t].size # m /\ workers[t].size \in Sizes
      BY <1>1, <1>5, <2>2 DEF IInv, Alone, Busy
    <3> QED
      BY <1>3, <1>4, <1>8, <2>2, <3>1 DEF IInv, WorkIsSound
  <2> QED
    BY <2>1, <2>2
<1>14. AloneIsExact'
  <2> SUFFICES ASSUME NEW n \in Sizes \ overlapped
               PROVE  /\ Held(n)' # Short
                      /\ n \notin forgotten => Held(n)' = finished'[n]
    BY <1>3 DEF AloneIsExact
  <2>1. CASE n = m
    <3>1. Held(n)' = content[i]
      BY <1>3, <1>6, <1>8, <2>1 DEF Held, Inodes, None
    <3>2. finished[m] \in Nat
      BY <1>2 DEF IInv, TypeOK
    <3> QED
      BY <1>7, <1>8, <2>1, <3>1, <3>2, ShortAssumption
  <2>2. CASE n # m
    BY <1>3, <1>8, <2>2 DEF IInv, AloneIsExact, Held
  <2> QED
    BY <2>1, <2>2
<1> QED
    BY <1>9, <1>10, <1>11, <1>12, <1>13, <1>14 DEF IInv

\* The process ends; what is on disk stays.
LEMMA ExitIInv ==
    ASSUME IInv, Exit, UNCHANGED <<disk, history>>
    PROVE  IInv'
<1>1. /\ running' = FALSE
      /\ workers' = [s \in Slots |-> Idle]
      /\ UNCHANGED <<minSizes, index, dispatched, permits, disk, history>>
    BY DEF Exit
<1>2. Busy' = {}
    BY <1>1, IdleType DEF Busy
<1>3. TypeOK'
    BY <1>1, IdleType DEF IInv, TypeOK, disk, history
<1>4. SlotsAreClean' /\ Alone'
    BY <1>1, <1>2, IdleType DEF SlotsAreClean, Alone
<1>5. InodesAreApart'
    BY <1>1, IdleType DEF IInv, InodesAreApart, disk
<1>6. ASSUME NEW t \in Slots PROVE WorkIsSound(t)'
    BY <1>1, IdleType DEF WorkIsSound
<1>7. AloneIsExact'
    BY <1>1 DEF IInv, AloneIsExact, Held, disk, history
<1> QED
    BY <1>3, <1>4, <1>5, <1>6, <1>7 DEF IInv

LEMMA RestartIInv == IInv /\ Restart => IInv'
<1> SUFFICES ASSUME IInv, Restart PROVE IInv'
    OBVIOUS
<1>1. /\ ~ running /\ running' = TRUE /\ minSizes' \in Shuffled
      /\ index' = 1 /\ dispatched' = 0 /\ permits' = NumCPU
      /\ UNCHANGED <<workers, disk, history>>
    BY DEF Restart
<1>2. Busy = {} /\ Busy' = {}
    BY <1>1 DEF IInv, SlotsAreClean, Busy
<1>3. TypeOK'
  <2>1. index' \in 1 .. Len(minSizes')
    BY <1>1, ShuffledLength, SizesCardinality
  <2>2. permits' = NumCPU - Cardinality(Busy')
    BY <1>1, <1>2, FS_EmptySet, SlotsCardinality
  <2>3. dispatched' \in 0 .. MaxDispatched
    BY <1>1, MaxDispatchedAssumption
  <2> QED
    BY <1>1, <2>1, <2>2, <2>3 DEF IInv, TypeOK, disk, history, Busy
<1>4. SlotsAreClean' /\ Alone'
    BY <1>1, <1>2 DEF IInv, SlotsAreClean, Alone
<1>5. InodesAreApart'
    BY <1>1 DEF IInv, InodesAreApart, disk
<1>6. ASSUME NEW t \in Slots PROVE WorkIsSound(t)'
    BY <1>1 DEF IInv, WorkIsSound, disk, history
<1>7. AloneIsExact'
    BY <1>1 DEF IInv, AloneIsExact, Held, disk, history
<1> QED
    BY <1>3, <1>4, <1>5, <1>6, <1>7 DEF IInv

LEMMA NextIInv == IInv /\ [Next]_vars => IInv'
<1> SUFFICES ASSUME IInv, [Next]_vars PROVE IInv'
    OBVIOUS
<1>1. CASE Dispatch
    BY <1>1, DispatchIInv
<1>2. ASSUME NEW s \in Slots, Goroutine(s) \/ ReloadFails(s) \/ Fails(s)
      PROVE  IInv'
  <2>1. CASE Reload(s)
    BY <2>1, ReloadIInv
  <2>2. CASE Open(s)
    BY <2>2, OpenIInv
  <2>3. CASE Write(s)
    BY <2>3, WriteIInv
  <2>4. CASE Rename(s)
    BY <2>4, RenameIInv
  <2>5. CASE RenameMissing(s)
    BY <2>5, ExitIInv DEF RenameMissing
  <2>6. CASE ReloadFails(s)
    BY <2>6, ReloadFailsIInv
  <2>7. CASE Fails(s)
    BY <2>7, ExitIInv DEF Fails
  <2> QED
    BY <1>2, <2>1, <2>2, <2>3, <2>4, <2>5, <2>6, <2>7 DEF Goroutine
<1>3. CASE Crash
    BY <1>3, ExitIInv DEF Crash
<1>4. CASE Restart
    BY <1>4, RestartIInv
<1>5. CASE UNCHANGED vars
  <2>1. UNCHANGED <<process, workers, disk, history>>
    BY <1>5 DEF vars
  <2>2. TypeOK' /\ SlotsAreClean' /\ Alone' /\ InodesAreApart'
    BY <2>1 DEF IInv, TypeOK, SlotsAreClean, Alone, InodesAreApart, Busy,
       process, disk, history
  <2>3. (\A s \in Slots : WorkIsSound(s)') /\ AloneIsExact'
    BY <2>1 DEF IInv, WorkIsSound, AloneIsExact, Held, disk, history
  <2> QED
    BY <2>2, <2>3 DEF IInv
<1> QED
    BY <1>1, <1>2, <1>3, <1>4, <1>5 DEF Next

-----------------------------------------------------------------------------
\* The theorems

\* The strengthened invariant holds in every reachable state: no two paths have
\* one inode, and a goroutine that is alone with its size writes to nothing but
\* its temporary file.
THEOREM Invariance == Spec => []IInv
<1>1. Init => IInv
    BY InitIInv
<1>2. IInv /\ [Next]_vars => IInv'
    BY NextIInv
<1> QED
    BY <1>1, <1>2, PTL DEF Spec

\* Every variable has its type; in particular every goroutine has its permit, and
\* returned the one it no longer needs.
THEOREM TypeCorrect == Spec => []TypeOK
<1>1. IInv => TypeOK
    BY DEF IInv
<1> QED
    BY <1>1, Invariance, PTL

-----------------------------------------------------------------------------
\* What no number of goroutines of one size can do: count a simulation twice

\* A file holds the samples of at most k simulations, unless it is short.
AtMost(i, k) == content[i] # Short => content[i] <= k

\* A goroutine that read the file has at most one simulation more to write than were
\* written; one that writes to what became the file of its size in the meantime has
\* none more.
WorkIsCounted(s) ==
    LET w == workers[s] IN
    w.pc \in {"open", "write", "rename"} =>
       /\ w.samples <= finished[w.size] + 1
       /\ w.pc = "write" /\ w.fd = samplesFile[w.size] => w.samples <= finished[w.size]

CountedInv ==
    /\ \A m \in Sizes :
          /\ samplesFile[m] # None => AtMost(samplesFile[m], finished[m])
          /\ tmpFile[m] # None => AtMost(tmpFile[m], finished[m] + 1)
    /\ \A s \in Slots : WorkIsCounted(s)

\* A step of a goroutine leaves the others as they are.
LEMMA OthersStay ==
    ASSUME TypeOK, NEW s \in Slots, NEW w, Set(s, w)
    PROVE  /\ workers'[s] = w
           /\ \A t \in Slots : t # s => workers'[t] = workers[t]
BY DEF TypeOK, Set

LEMMA LoadedIsCounted ==
    ASSUME IInv, CountedInv, NEW s \in Slots, Reload(s) \/ ReloadFails(s)
    PROVE  CountedInv'
<1> DEFINE m == workers[s].size
<1>1. /\ m \in Sizes /\ samplesFile \in [Sizes -> Inodes \cup {None}]
      /\ content \in [Inodes -> Contents] /\ finished[m] \in Nat
      /\ workers[s] \in [pc : {"idle", "reload", "open", "write", "rename"}, size : Sizes,
                         samples : Nat, fd : Inodes \cup {None}]
    BY DEF IInv, TypeOK
<1>2. Existing(m) \in Nat /\ Existing(m) <= finished[m]
    BY <1>1 DEF CountedInv, AtMost, Existing, Contents, None
<1>3. PICK k : /\ k \in Nat /\ k <= finished[m] + 1
               /\ Set(s, [workers[s] EXCEPT !.pc = "open", !.samples = k])
  <2>1. CASE Reload(s)
    <3> DEFINE k == 1 + Existing(m)
    <3>1. Set(s, [workers[s] EXCEPT !.pc = "open", !.samples = k])
      BY <2>1 DEF Reload
    <3>2. k \in Nat /\ k <= finished[m] + 1
      BY <1>1, <1>2
    <3> QED
      BY <3>1, <3>2
  <2>2. CASE ReloadFails(s)
    <3>1. Set(s, [workers[s] EXCEPT !.pc = "open", !.samples = 1])
      BY <2>2 DEF ReloadFails
    <3>2. 1 \in Nat /\ 1 <= finished[m] + 1
      BY <1>1
    <3> QED
      BY <3>1, <3>2
  <2> QED
    BY <2>1, <2>2
<1> DEFINE w == [workers[s] EXCEPT !.pc = "open", !.samples = k]
<1>4. w.pc = "open" /\ w.size = m /\ w.samples = k
    BY <1>1
<1>5. UNCHANGED <<disk, finished>>
    BY DEF Reload, ReloadFails, history
<1>6. /\ workers'[s] = w
      /\ \A t \in Slots : t # s => workers'[t] = workers[t]
    BY <1>3, OthersStay DEF IInv
<1> HIDE DEF w, m
<1>7. ASSUME NEW t \in Slots PROVE WorkIsCounted(t)'
    BY <1>3, <1>4, <1>5, <1>6 DEF CountedInv, WorkIsCounted, disk
<1> QED
    BY <1>5, <1>7 DEF CountedInv, AtMost, disk

LEMMA OpenIsCounted ==
    ASSUME IInv, CountedInv, NEW s \in Slots, Open(s) PROVE CountedInv'
<1> DEFINE m == workers[s].size
           i == IF tmpFile[m] = None THEN FreeInode ELSE tmpFile[m]
           w == [workers[s] EXCEPT !.pc = "write", !.fd = i]
<1>1. /\ m \in Sizes
      /\ workers[s] \in [pc : {"idle", "reload", "open", "write", "rename"}, size : Sizes,
                         samples : Nat, fd : Inodes \cup {None}]
    BY DEF IInv, TypeOK
<1>2. /\ i \in Inodes /\ i # None
      /\ \A n \in Sizes : i # samplesFile[n] /\ (n # m => i # tmpFile[n])
    BY <1>1, OpenedInode
<1>3. /\ workers[s].pc = "open"
      /\ tmpFile' = [tmpFile EXCEPT ![m] = i] /\ samplesFile' = samplesFile
      /\ content' = [content EXCEPT ![i] = Short]
      /\ Set(s, w) /\ finished' = finished
    BY DEF Open, Created, Tmp, history
<1> HIDE DEF i
<1>4. w.pc = "write" /\ w.size = m /\ w.fd = i /\ w.samples = workers[s].samples
    BY <1>1
<1>5. /\ workers'[s] = w
      /\ \A t \in Slots : t # s => workers'[t] = workers[t]
    BY <1>3, OthersStay DEF IInv
<1> HIDE DEF w
<1>6. ASSUME NEW t \in Slots PROVE WorkIsCounted(t)'
    BY <1>1, <1>2, <1>3, <1>4, <1>5 DEF CountedInv, WorkIsCounted
<1> HIDE DEF m
<1>7. /\ tmpFile'[m] = i
      /\ \A n \in Sizes : n # m => tmpFile'[n] = tmpFile[n]
      /\ content'[i] = Short
      /\ \A j \in Inodes : j # i => content'[j] = content[j]
    BY <1>1, <1>2, <1>3 DEF IInv, TypeOK
<1>8. ASSUME NEW n \in Sizes
      PROVE  /\ samplesFile'[n] # None => AtMost(samplesFile[n], finished[n])'
             /\ tmpFile'[n] # None => AtMost(tmpFile[n], finished[n] + 1)'
  <2>1. samplesFile[n] \in Inodes \cup {None} /\ tmpFile[n] \in Inodes \cup {None}
    BY DEF IInv, TypeOK
  <2> QED
    BY <1>2, <1>3, <1>7, <2>1 DEF CountedInv, AtMost
<1> QED
    BY <1>6, <1>8 DEF CountedInv

LEMMA WriteIsCounted ==
    ASSUME IInv, CountedInv, NEW s \in Slots, Write(s) PROVE CountedInv'
<1> DEFINE m == workers[s].size
           i == workers[s].fd
           k == workers[s].samples
           w == [workers[s] EXCEPT !.pc = "rename", !.fd = None]
<1>1. /\ m \in Sizes /\ k \in Nat
      /\ workers[s] \in [pc : {"idle", "reload", "open", "write", "rename"}, size : Sizes,
                         samples : Nat, fd : Inodes \cup {None}]
    BY DEF IInv, TypeOK
<1>2. /\ workers[s].pc = "write"
      /\ content' = [content EXCEPT ![i] = k]
      /\ Set(s, w) /\ UNCHANGED <<samplesFile, tmpFile, finished>>
    BY DEF Write, history
<1>3. \A n \in Sizes : n # m => i # samplesFile[n] /\ i # tmpFile[n]
    BY <1>2 DEF IInv, InodesAreApart
<1>4. k <= finished[m] + 1 /\ (i = samplesFile[m] => k <= finished[m])
    BY <1>2 DEF CountedInv, WorkIsCounted
<1>5. w.pc = "rename" /\ w.size = m /\ w.samples = k
    BY <1>1
<1>6. /\ workers'[s] = w
      /\ \A t \in Slots : t # s => workers'[t] = workers[t]
    BY <1>2, OthersStay DEF IInv
<1> HIDE DEF w
<1>7. \A j \in Inodes : content'[j] = IF j = i THEN k ELSE content[j]
    BY <1>2 DEF IInv, TypeOK
<1>8. ASSUME NEW t \in Slots PROVE WorkIsCounted(t)'
  <2>1. CASE t = s
    BY <1>2, <1>4, <1>5, <1>6, <2>1 DEF WorkIsCounted
  <2>2. CASE t # s
    BY <1>2, <1>6, <2>2 DEF CountedInv, WorkIsCounted
  <2> QED
    BY <2>1, <2>2
<1> HIDE DEF m, i, k
<1>9. ASSUME NEW n \in Sizes
      PROVE  /\ samplesFile'[n] # None => AtMost(samplesFile[n], finished[n])'
             /\ tmpFile'[n] # None => AtMost(tmpFile[n], finished[n] + 1)'
  <2>1. samplesFile[n] \in Inodes \cup {None} /\ tmpFile[n] \in Inodes \cup {None}
    BY DEF IInv, TypeOK
  <2> QED
    BY <1>2, <1>3, <1>4, <1>7, <2>1 DEF CountedInv, AtMost
<1> QED
    BY <1>8, <1>9 DEF CountedInv

LEMMA RenameIsCounted ==
    ASSUME IInv, CountedInv, NEW s \in Slots, Rename(s) PROVE CountedInv'
<1> DEFINE m == workers[s].size
           i == tmpFile[m]
<1>1. m \in Sizes /\ finished \in [Sizes -> Nat]
    BY DEF IInv, TypeOK
<1>2. /\ i # None
      /\ samplesFile' = [samplesFile EXCEPT ![m] = i]
      /\ tmpFile' = [tmpFile EXCEPT ![m] = None]
      /\ finished' = [finished EXCEPT ![m] = @ + 1]
      /\ Set(s, Idle) /\ content' = content
    BY DEF Rename, Tmp
<1>3. /\ workers'[s] = Idle
      /\ \A t \in Slots : t # s => workers'[t] = workers[t]
    BY <1>2, OthersStay DEF IInv
<1>4. AtMost(i, finished[m] + 1)
    BY <1>1, <1>2 DEF CountedInv
<1> HIDE DEF i
<1>5. /\ samplesFile'[m] = i /\ tmpFile'[m] = None /\ finished'[m] = finished[m] + 1
      /\ \A n \in Sizes : n # m => /\ samplesFile'[n] = samplesFile[n]
                                   /\ tmpFile'[n] = tmpFile[n]
                                   /\ finished'[n] = finished[n]
    BY <1>1, <1>2 DEF IInv, TypeOK
<1> HIDE DEF m
<1>6. ASSUME NEW t \in Slots PROVE WorkIsCounted(t)'
  <2>1. CASE t = s
    BY <1>3, <2>1, IdleType DEF WorkIsCounted
  <2>2. CASE t # s
    <3>1. /\ workers'[t] = workers[t]
          /\ workers[t].size \in Sizes /\ workers[t].samples \in Nat
          /\ WorkIsCounted(t)
      BY <1>3, <2>2 DEF IInv, TypeOK, CountedInv
    <3>2. CASE workers[t].size = m
      <4>1. /\ finished'[workers[t].size] = finished[workers[t].size] + 1
            /\ finished[workers[t].size] \in Nat
        BY <1>1, <1>5, <3>2
      <4> QED
        BY <3>1, <4>1 DEF WorkIsCounted
    <3>3. CASE workers[t].size # m
      <4>1. /\ finished'[workers[t].size] = finished[workers[t].size]
            /\ samplesFile'[workers[t].size] = samplesFile[workers[t].size]
        BY <1>5, <3>1, <3>3
      <4> QED
        BY <3>1, <4>1 DEF WorkIsCounted
    <3> QED
      BY <3>2, <3>3
  <2> QED
    BY <2>1, <2>2
<1>7. ASSUME NEW n \in Sizes
      PROVE  /\ samplesFile'[n] # None => AtMost(samplesFile[n], finished[n])'
             /\ tmpFile'[n] # None => AtMost(tmpFile[n], finished[n] + 1)'
    BY <1>2, <1>4, <1>5 DEF CountedInv, AtMost
<1> QED
    BY <1>6, <1>7 DEF CountedInv

LEMMA NextCounted == IInv /\ CountedInv /\ [Next]_vars => CountedInv'
<1> SUFFICES ASSUME IInv, CountedInv, [Next]_vars PROVE CountedInv'
    OBVIOUS
<1>1. CASE Dispatch
  <2> DEFINE here == Min({t \in Slots : workers[t].pc = "idle"})
             w == [Idle EXCEPT !.pc = "reload", !.size = minSizes[index]]
  <2>1. here \in Slots /\ Set(here, w) /\ UNCHANGED <<disk, finished>>
    BY <1>1, IdleSlot DEF IInv, Dispatch, Set
  <2>2. w.pc = "reload"
    BY DEF Idle
  <2> HIDE DEF here, w
  <2>3. ASSUME NEW t \in Slots PROVE WorkIsCounted(t)'
    <3>1. t = here \/ workers'[t] = workers[t]
      BY <2>1, OthersStay DEF IInv
    <3>2. workers'[here] = w
      BY <2>1, OthersStay DEF IInv
    <3> QED
      BY <2>1, <2>2, <3>1, <3>2 DEF CountedInv, WorkIsCounted, disk
  <2> QED
    BY <2>1, <2>3 DEF CountedInv, AtMost, disk
<1>2. CASE Crash \/ \E s \in Slots : RenameMissing(s) \/ Fails(s)
  <2>1. /\ workers' = [s \in Slots |-> Idle] /\ UNCHANGED <<disk, finished>>
    BY <1>2 DEF Crash, RenameMissing, Fails, Exit, history
  <2>2. \A s \in Slots : WorkIsCounted(s)'
    BY <2>1, IdleType DEF WorkIsCounted
  <2> QED
    BY <2>1, <2>2 DEF CountedInv, AtMost, disk
<1>3. CASE Restart \/ UNCHANGED vars
  <2>1. UNCHANGED <<workers, disk, finished>>
    BY <1>3 DEF Restart, vars, history
  <2> QED
    BY <2>1 DEF CountedInv, AtMost, WorkIsCounted, disk
<1> QED
    BY <1>1, <1>2, <1>3, LoadedIsCounted, OpenIsCounted, WriteIsCounted, RenameIsCounted
    DEF Next, Goroutine

\* However the goroutines of different sizes interleave, and wherever the tool is
\* interrupted or fails, the file of a size that two goroutines never shared holds
\* the samples of every simulation that was written, each once; and the file of any
\* size holds those of none twice.
THEOREM CountsAreExactCorrect == Spec => []CountsAreExact
<1>1. IInv => AloneIsExact
    BY DEF IInv
<1>2. Init => CountedInv
  <2>1. ASSUME Init, NEW s \in Slots PROVE WorkIsCounted(s)
    BY <2>1, IdleType DEF Init, WorkIsCounted
  <2> QED
    BY <2>1 DEF Init, CountedInv
<1>3. IInv /\ CountedInv => NoneIsCountedTwice
  <2> SUFFICES ASSUME IInv, CountedInv, NEW m \in Sizes, Held(m) # Short
               PROVE  Held(m) <= finished[m]
    BY DEF NoneIsCountedTwice
  <2>1. finished[m] \in Nat
    BY DEF IInv, TypeOK
  <2> QED
    BY <2>1 DEF CountedInv, AtMost, Held
<1> QED
    BY <1>1, <1>2, <1>3, NextCounted, Invariance, PTL DEF Spec, CountsAreExact

-----------------------------------------------------------------------------
\* Every size has its turn, and every goroutine comes to an end

\* A simulation of a size was written, or a goroutine works on it.
IsTaken(m) == finished[m] > 0 \/ Working(m) # {}

\* The loop has dispatched the sizes one after the other, and what it dispatched is
\* being worked on until it is written.
SizesAreTaken ==
    running => /\ \A k \in 1 .. Len(minSizes) : k <= dispatched => IsTaken(minSizes[k])
               /\ dispatched < Len(minSizes) => index = dispatched + 1

\* A goroutine that goes on, or has its file renamed, leaves a size taken.
LEMMA StaysTaken ==
    ASSUME IInv, NEW s \in Slots, NEW w, Set(s, w),
           \/ w.pc # "idle" /\ w.size = workers[s].size /\ finished' = finished
           \/ finished' = [finished EXCEPT ![workers[s].size] = @ + 1],
           NEW m \in Sizes, IsTaken(m)
    PROVE  IsTaken(m)'
<1>1. /\ workers'[s] = w /\ workers[s].size \in Sizes
      /\ \A t \in Slots : t # s => workers'[t] = workers[t]
    BY DEF IInv, TypeOK, Set
<1>2. finished \in [Sizes -> Nat]
    BY DEF IInv, TypeOK
<1>3. CASE finished[m] > 0
    BY <1>1, <1>2, <1>3 DEF IsTaken
<1>4. CASE Working(m) # {}
  <2>1. PICK t \in Slots : workers[t].pc # "idle" /\ workers[t].size = m
    BY <1>4 DEF Working
  <2>2. CASE t = s /\ finished' = [finished EXCEPT ![workers[s].size] = @ + 1]
    <3>1. finished'[m] = finished[m] + 1
      BY <1>2, <2>1, <2>2
    <3>2. finished'[m] > 0
      BY <1>2, <3>1
    <3> QED
      BY <3>2 DEF IsTaken
  <2>3. CASE t # s \/ (w.pc # "idle" /\ w.size = workers[s].size)
    <3>1. workers'[t].pc # "idle" /\ workers'[t].size = m
      BY <1>1, <2>1, <2>3
    <3> QED
      BY <3>1 DEF IsTaken, Working
  <2>4. \/ finished' = [finished EXCEPT ![workers[s].size] = @ + 1]
        \/ w.pc # "idle" /\ w.size = workers[s].size
    OBVIOUS
  <2> QED
    BY <2>2, <2>3, <2>4
<1> QED
    BY <1>3, <1>4 DEF IsTaken

\* A step of a goroutine before it renames its file.
LEMMA GoesOn ==
    ASSUME NEW s \in Slots, Reload(s) \/ ReloadFails(s) \/ Open(s) \/ Write(s),
           workers[s] \in [pc : {"idle", "reload", "open", "write", "rename"}, size : Sizes,
                           samples : Nat, fd : Inodes \cup {None}]
    PROVE  /\ UNCHANGED <<minSizes, dispatched, index, finished>> /\ workers[s].pc # "idle"
           /\ \E w : /\ Set(s, w) /\ w.size = workers[s].size
                     /\ \/ workers[s].pc = "reload" /\ w.pc = "open"
                        \/ workers[s].pc = "open" /\ w.pc = "write"
                        \/ workers[s].pc = "write" /\ w.pc = "rename"
<1>1. CASE Reload(s) \/ ReloadFails(s)
  <2>1. PICK n : Set(s, [workers[s] EXCEPT !.pc = "open", !.samples = n])
    BY <1>1 DEF Reload, ReloadFails
  <2> DEFINE w == [workers[s] EXCEPT !.pc = "open", !.samples = n]
  <2>2. w.pc = "open" /\ w.size = workers[s].size
    OBVIOUS
  <2> HIDE DEF w
  <2>3. Set(s, w)
    BY <2>1 DEF w
  <2>4. UNCHANGED <<minSizes, dispatched, index, finished>> /\ workers[s].pc = "reload"
    BY <1>1 DEF Reload, ReloadFails, process, history
  <2> QED
    BY <2>2, <2>3, <2>4
<1>2. CASE Open(s)
  <2>1. PICK n : Set(s, [workers[s] EXCEPT !.pc = "write", !.fd = n])
    BY <1>2 DEF Open
  <2> DEFINE w == [workers[s] EXCEPT !.pc = "write", !.fd = n]
  <2>2. w.pc = "write" /\ w.size = workers[s].size
    OBVIOUS
  <2> HIDE DEF w
  <2>3. Set(s, w)
    BY <2>1 DEF w
  <2>4. UNCHANGED <<minSizes, dispatched, index, finished>> /\ workers[s].pc = "open"
    BY <1>2 DEF Open, process, history
  <2> QED
    BY <2>2, <2>3, <2>4
<1>3. CASE Write(s)
  <2> DEFINE w == [workers[s] EXCEPT !.pc = "rename", !.fd = None]
  <2>1. w.pc = "rename" /\ w.size = workers[s].size
    OBVIOUS
  <2>2. Set(s, w)
    BY <1>3 DEF Write
  <2> HIDE DEF w
  <2>3. UNCHANGED <<minSizes, dispatched, index, finished>> /\ workers[s].pc = "write"
    BY <1>3 DEF Write, process, history
  <2> QED
    BY <2>1, <2>2, <2>3
<1> QED
    BY <1>1, <1>2, <1>3

\* A size that was taken stays so while the process runs, and dispatching goes on
\* with the next one.
LEMMA NextTaken == IInv /\ SizesAreTaken /\ [Next]_vars => SizesAreTaken'
<1> SUFFICES ASSUME IInv, SizesAreTaken, [Next]_vars, running' PROVE SizesAreTaken'
    BY DEF SizesAreTaken
<1>1. /\ minSizes \in Shuffled /\ dispatched \in Nat /\ finished \in [Sizes -> Nat]
      /\ Len(minSizes) \in Nat \ {0}
      /\ \A k \in 1 .. Len(minSizes) : minSizes[k] \in Sizes
    BY ShuffledLength, SizesCardinality, MaxDispatchedAssumption DEF IInv, TypeOK
<1>2. ASSUME NEW s \in Slots, NEW w, Set(s, w), running,
             \/ w.pc # "idle" /\ w.size = workers[s].size /\ finished' = finished
             \/ finished' = [finished EXCEPT ![workers[s].size] = @ + 1],
             UNCHANGED <<minSizes, dispatched, index>>
      PROVE  SizesAreTaken'
  <2>1. \A m \in Sizes : IsTaken(m) => IsTaken(m)'
    BY <1>2, StaysTaken
  <2> QED
    BY <1>1, <1>2, <2>1 DEF SizesAreTaken
<1>3. CASE Dispatch
  <2> DEFINE here == Min({t \in Slots : workers[t].pc = "idle"})
             w == [Idle EXCEPT !.pc = "reload", !.size = minSizes[index]]
  <2>1. here \in Slots /\ workers[here].pc = "idle"
    BY <1>3, IdleSlot DEF IInv, Dispatch
  <2>2. w.pc = "reload" /\ w.size = minSizes[index]
    BY IdleType DEF Idle
  <2>3. /\ running /\ workers' = [workers EXCEPT ![here] = w] /\ finished' = finished
        /\ minSizes' = minSizes /\ dispatched' = dispatched + 1 /\ index' = NextIndex(index)
    BY <1>3 DEF Dispatch
  <2> HIDE DEF here, w
  <2>4. /\ workers'[here] = w
        /\ \A t \in Slots : t # here => workers'[t] = workers[t]
    BY <2>1, <2>3 DEF IInv, TypeOK
  <2>5. ASSUME NEW m, IsTaken(m) PROVE IsTaken(m)'
    <3>1. CASE finished[m] > 0
      BY <2>3, <3>1 DEF IsTaken
    <3>2. CASE Working(m) # {}
      <4>1. PICK t \in Slots : workers[t].pc # "idle" /\ workers[t].size = m
        BY <3>2 DEF Working
      <4>2. workers'[t].pc # "idle" /\ workers'[t].size = m
        BY <2>1, <2>4, <4>1
      <4> QED
        BY <4>2 DEF IsTaken, Working
    <3> QED
      BY <2>5, <3>1, <3>2 DEF IsTaken
  <2>6. PICK next : next = minSizes[index]
    OBVIOUS
  <2>7. IsTaken(next)'
    <3>1. workers'[here].pc # "idle" /\ workers'[here].size = next
      BY <2>2, <2>4, <2>6
    <3>2. \E t \in Slots : workers'[t].pc # "idle" /\ workers'[t].size = next
      BY <2>1, <3>1
    <3> QED
      BY <3>2 DEF IsTaken, Working
  <2>8. ASSUME NEW k \in 1 .. Len(minSizes), k <= dispatched + 1
        PROVE  IsTaken(minSizes[k])'
    <3>1. PICK m : m = minSizes[k]
      OBVIOUS
    <3>2. CASE k <= dispatched
      BY <2>3, <2>5, <3>1, <3>2 DEF SizesAreTaken
    <3>3. CASE k = dispatched + 1
      <4>1. index = k
        BY <1>1, <2>3, <2>8, <3>3 DEF SizesAreTaken
      <4>2. m = next
        BY <2>6, <3>1, <4>1
      <4>3. minSizes'[k] = next
        BY <2>3, <3>1, <4>2
      <4> QED
        BY <2>7, <4>3 DEF IsTaken, Working
    <3> QED
      BY <1>1, <2>8, <3>2, <3>3
  <2>9. dispatched + 1 < Len(minSizes) => index' = (dispatched + 1) + 1
    BY <1>1, <2>3 DEF SizesAreTaken, NextIndex
  <2> QED
    BY <2>3, <2>8, <2>9 DEF SizesAreTaken
<1>4. ASSUME NEW s \in Slots, Goroutine(s) \/ ReloadFails(s)
      PROVE  SizesAreTaken'
  <2>1. ~ RenameMissing(s)
    BY DEF RenameMissing, Exit
  <2>2. workers[s].pc # "idle" => running
    BY DEF IInv, SlotsAreClean, Busy
  <2>3. CASE Rename(s)
    <3>1. /\ Set(s, Idle) /\ finished' = [finished EXCEPT ![workers[s].size] = @ + 1]
          /\ UNCHANGED <<minSizes, dispatched, index>> /\ workers[s].pc = "rename"
      BY <2>3 DEF Rename
    <3> QED
      BY <1>2, <2>2, <3>1
  <2>4. CASE Reload(s) \/ ReloadFails(s) \/ Open(s) \/ Write(s)
    <3>1. workers[s] \in [pc : {"idle", "reload", "open", "write", "rename"}, size : Sizes,
                          samples : Nat, fd : Inodes \cup {None}]
      BY DEF IInv, TypeOK
    <3>2. /\ UNCHANGED <<minSizes, dispatched, index, finished>> /\ workers[s].pc # "idle"
          /\ \E w : Set(s, w) /\ w.pc # "idle" /\ w.size = workers[s].size
      <4>1. \A p, q : p = "idle" /\ q \in {"open", "write", "rename"} => p # q
        OBVIOUS
      <4> QED
        BY <2>4, <3>1, GoesOn
    <3> QED
      BY <1>2, <2>2, <3>2
  <2> QED
    BY <1>4, <2>1, <2>3, <2>4 DEF Goroutine
<1>5. CASE Crash \/ \E s \in Slots : Fails(s)
    BY <1>5 DEF Crash, Fails, Exit
<1>6. CASE Restart
  <2>1. index' = 1 /\ dispatched' = 0
    BY <1>6 DEF Restart
  <2>2. Len(minSizes') \in Nat
    BY <1>6, ShuffledLength, SizesCardinality DEF Restart
  <2> QED
    BY <2>1, <2>2 DEF SizesAreTaken
<1>7. CASE UNCHANGED vars
    BY <1>7 DEF vars, process, history, SizesAreTaken, IsTaken, Working
<1> QED
    BY <1>3, <1>4, <1>5, <1>6, <1>7 DEF Next

\* What the loop has done once it has dispatched as many goroutines as there are sizes.
NoSizeIsLeftOut ==
    running /\ dispatched >= Len(minSizes) => \A m \in Sizes : IsTaken(m)

\* No size is left out: once a process has dispatched as many goroutines as there
\* are sizes, each size was simulated and written or is being worked on, whatever
\* the order of the sizes, and however often the tool was started before.
THEOREM EverySizeHasItsTurn == Spec => []NoSizeIsLeftOut
<1>1. Init => SizesAreTaken
  <2> SUFFICES ASSUME Init PROVE SizesAreTaken
    OBVIOUS
  <2>1. index = 1 /\ dispatched = 0 /\ Len(minSizes) \in Nat
    BY ShuffledLength, SizesCardinality DEF Init
  <2> QED
    BY <2>1 DEF SizesAreTaken
<1>2. IInv /\ SizesAreTaken => NoSizeIsLeftOut
  <2> SUFFICES ASSUME IInv, SizesAreTaken, running, dispatched >= Len(minSizes), NEW m \in Sizes
               PROVE  IsTaken(m)
    BY DEF NoSizeIsLeftOut
  <2>1. /\ minSizes \in Shuffled /\ dispatched \in Nat /\ Len(minSizes) \in Nat
        /\ Len(minSizes) = Cardinality(Sizes)
    BY ShuffledLength, SizesCardinality DEF IInv, TypeOK
  <2>2. PICK k \in 1 .. Len(minSizes) : minSizes[k] = m
    BY <2>1 DEF Shuffled
  <2>3. k <= dispatched
    BY <2>1, <2>2
  <2> QED
    BY <2>2, <2>3 DEF SizesAreTaken
<1> QED
    BY <1>1, <1>2, NextTaken, Invariance, PTL DEF Spec

-----------------------------------------------------------------------------
\* The steps that a goroutine has left.
StepsLeft(s) ==
    CASE workers[s].pc = "reload" -> 4
      [] workers[s].pc = "open" -> 3
      [] workers[s].pc = "write" -> 2
      [] workers[s].pc = "rename" -> 1
      [] workers[s].pc = "idle" -> 0

\* No step of another goroutine, of the loop, or of the user undoes what a goroutine
\* has done: it goes on or stays where it is, or the process ends.
GoroutinesGoOn ==
    \A s \in Slots : workers[s].pc # "idle" =>
        workers'[s] = workers[s] \/ StepsLeft(s)' < StepsLeft(s)

\* A goroutine that steps is nearer its end.
LEMMA StepIsForward ==
    ASSUME IInv, NEW s \in Slots, NEW w, Set(s, w),
           \/ workers[s].pc = "reload" /\ w.pc = "open"
           \/ workers[s].pc = "open" /\ w.pc = "write"
           \/ workers[s].pc = "write" /\ w.pc = "rename"
           \/ workers[s].pc = "rename" /\ w.pc = "idle"
    PROVE  GoroutinesGoOn
<1>1. /\ workers'[s] = w
      /\ \A t \in Slots : t # s => workers'[t] = workers[t]
    BY DEF IInv, TypeOK, Set
<1>2. StepsLeft(s)' < StepsLeft(s)
    BY <1>1 DEF StepsLeft
<1> QED
    BY <1>1, <1>2 DEF GoroutinesGoOn

\* A process that ends leaves no goroutine.
LEMMA ExitEnds == ASSUME IInv, Exit PROVE GoroutinesGoOn
<1> SUFFICES ASSUME NEW s \in Slots, workers[s].pc # "idle"
             PROVE  StepsLeft(s)' < StepsLeft(s)
    BY DEF GoroutinesGoOn
<1>1. workers[s].pc \in {"reload", "open", "write", "rename"}
    BY DEF IInv, TypeOK
<1>2. workers'[s].pc = "idle"
    BY IdleType DEF Exit
<1> QED
    BY <1>1, <1>2 DEF StepsLeft

\* Every goroutine comes to an end, after at most four steps of its own.
THEOREM GoroutinesCount == Spec => [][GoroutinesGoOn]_vars
<1>1. IInv /\ [Next]_vars => [GoroutinesGoOn]_vars
  <2> SUFFICES ASSUME IInv, Next PROVE GoroutinesGoOn
    OBVIOUS
  <2>1. CASE Dispatch
    <3> DEFINE here == Min({t \in Slots : workers[t].pc = "idle"})
    <3>1. here \in Slots /\ workers[here].pc = "idle"
      BY <2>1, IdleSlot DEF IInv, Dispatch
    <3>2. \E w : workers' = [workers EXCEPT ![here] = w]
      BY <2>1 DEF Dispatch
    <3> HIDE DEF here
    <3>3. \A t \in Slots : t # here => workers'[t] = workers[t]
      BY <3>1, <3>2 DEF IInv, TypeOK
    <3> QED
      BY <3>1, <3>3 DEF GoroutinesGoOn
  <2>2. ASSUME NEW s \in Slots, Goroutine(s) \/ ReloadFails(s) \/ Fails(s)
        PROVE  GoroutinesGoOn
    <3>1. CASE Reload(s) \/ ReloadFails(s) \/ Open(s) \/ Write(s)
      BY <3>1, GoesOn, StepIsForward DEF IInv, TypeOK
    <3>2. CASE Rename(s)
      BY <3>2, StepIsForward, IdleType DEF Rename
    <3>3. CASE RenameMissing(s) \/ Fails(s)
      BY <3>3, ExitEnds DEF RenameMissing, Fails
    <3> QED
      BY <2>2, <3>1, <3>2, <3>3 DEF Goroutine
  <2>3. CASE Crash
    BY <2>3, ExitEnds DEF Crash
  <2>4. CASE Restart
    BY <2>4 DEF Restart, GoroutinesGoOn
  <2> QED
    BY <2>1, <2>2, <2>3, <2>4 DEF Next
<1> QED
    BY <1>1, Invariance, PTL DEF Spec

\* What a goroutine needs for its next step: an inode for a new temporary file.
\* The guards of the other steps are the negations of one another.
CanGoOn(s) ==
    \/ workers[s].pc \in {"reload", "write", "rename"}
    \/ workers[s].pc = "open" /\ (tmpFile[Tmp(workers[s].size)] # None \/ FreeInode \in Inodes)

\* A goroutine can go on, and the loop can or will be able to: where there is a
\* permit there is a slot, and where there is none a goroutine that will return one.
ToolGoesOn ==
    /\ \A s \in Slots : workers[s].pc # "idle" => CanGoOn(s)
    /\ running /\ permits > 0 => \E s \in Slots : workers[s].pc = "idle"
    /\ running /\ ~ (permits > 0) => \E s \in Slots : workers[s].pc # "idle"

\* The simulation is never stuck, for any number of processors and sizes: no permit
\* is lost by a goroutine that returns, and not all inodes are taken.
THEOREM ToolNeverStuck == Spec => []ToolGoesOn
<1>1. IInv => ToolGoesOn
  <2> SUFFICES ASSUME IInv PROVE ToolGoesOn
    OBVIOUS
  <2>1. TypeOK
    BY DEF IInv
  <2>2. ASSUME NEW s \in Slots, workers[s].pc # "idle" PROVE CanGoOn(s)
    <3>1. workers[s].pc \in {"reload", "open", "write", "rename"} /\ workers[s].size \in Sizes
      BY <2>1, <2>2 DEF TypeOK
    <3>2. tmpFile[Tmp(workers[s].size)] = None => FreeInode \in Inodes
      BY <2>1, <3>1, FreeInodeExists DEF Tmp
    <3> QED
      BY <3>1, <3>2 DEF CanGoOn
  <2>3. ASSUME running, permits > 0 PROVE \E s \in Slots : workers[s].pc = "idle"
    BY <2>1, <2>3, IdleSlot
  <2>4. ASSUME running, ~ (permits > 0) PROVE \E s \in Slots : workers[s].pc # "idle"
    <3>1. permits = NumCPU - Cardinality(Busy)
      BY <2>1, <2>4 DEF TypeOK, Busy
    <3>2. Cardinality(Busy) > 0
      BY <2>4, <3>1, BusyCardinality, SlotsCardinality
    <3>3. Busy # {}
      BY <3>2, FS_EmptySet
    <3> QED
      BY <3>3 DEF Busy
  <2> QED
    BY <2>2, <2>3, <2>4 DEF ToolGoesOn
<1> QED
    BY <1>1, Invariance, PTL

=============================================================================
