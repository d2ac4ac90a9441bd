------------------------ MODULE BlockReaders_proofs ------------------------
(***************************************************************************)
(* Proofs about the readers that work on blocks, for every file, window,   *)
(* region, block size and number of Peeker errors: the blocks stay aligned *)
(* with the file and every chunk ends where the rule of its algorithm      *)
(* says, however it is spread over blocks.  First the Asymmetric Extremum  *)
(* readers, then RAM and RAML, then both together.                         *)
(***************************************************************************)
EXTENDS BlockReaders, WellFoundedInduction, TLAPS

-----------------------------------------------------------------------------
\* The inductive invariant of the Asymmetric Extremum readers

\* A block is what the Peeker has at the position, and shorter than asked for
\* only at the end of the file.
BlockIsOfFile ==
    pc \in {"block", "stretch", "values"} =>
        /\ dataLen = (IF fileSize - pos < PeekSize THEN fileSize - pos ELSE PeekSize)
        /\ reachedEOF <=> (fileSize - pos < PeekSize)

\* The blocks before this one were copied, up to the values that begin in it.
ScanIsAligned ==
    /\ pc # "idle" => /\ blockOffset = ownedChunk
                      /\ initialized <=> (ownedChunk > 0 \/ pc \in {"stretch", "values"})
    /\ pc \in {"stretch", "values"} => ValueCount > 0 /\ i \in 0 .. ValueCount
    /\ pc = "values" => i <= end /\ end <= ValueCount

\* The first value is the first candidate.
CandidateStarts == pc # "idle" /\ ~ initialized => candidateOffset = 0

\* The first value that was not compared, and where the last record maximum is.
Scanned == IF pc \in {"stretch", "values"} THEN pos + i ELSE pos
Candidate == begin + candidateOffset

\* The last record of what was scanned, whose deadline is yet to come.
CandidateIsRecord ==
    pc # "idle" /\ initialized =>
        /\ Candidate < Scanned /\ Scanned <= Candidate + WindowSize
        /\ Scanned - 1 + regionSize <= fileSize
        /\ maximum = ValueAt(Candidate)
        /\ \A o \in begin .. (Candidate - 1) : ValueAt(o) < maximum
        /\ \A o \in (Candidate + 1) .. (Scanned - 1) : ValueAt(o) <= maximum

\* No record before it stands up to its deadline.
NoEarlierExtremum ==
    pc # "idle" /\ initialized =>
        \A c \in begin .. (Candidate - 1) :
            (\A o \in begin .. (c - 1) : ValueAt(o) < ValueAt(c)) =>
                \E o \in (c + 1) .. (c + WindowSize) :
                    o <= Candidate /\ ValueAt(c) < ValueAt(o)

IInv ==
    /\ TypeOK
    /\ BlocksAreAligned
    /\ BlockIsOfFile
    /\ ScanIsAligned
    /\ CandidateStarts
    /\ CandidateIsRecord
    /\ NoEarlierExtremum

USE PeekSizeAssumption, TopAssumption, MaxFaultsAssumption

\* A set of natural numbers has a smallest member.
LEMMA Minimum ==
    ASSUME NEW S \in SUBSET Nat, S # {}
    PROVE  Min(S) \in S /\ \A y \in S : Min(S) <= y
<1> DEFINE R == OpToRel(<, Nat)
<1>1. IsWellFoundedOn(R, Nat)
    BY NatLessThanWellFounded
<1>2. \A x, y \in Nat : <<y, x>> \in R <=> y < x
    BY DEF OpToRel
<1> HIDE DEF R
<1>3. PICK x \in S : \A y \in S : ~ (<<y, x>> \in R)
    BY <1>1, WFMin
<1>4. ASSUME NEW y \in S PROVE x <= y
  <2>1. x \in Nat /\ y \in Nat /\ ~ (y < x)
    BY <1>2, <1>3
  <2> QED
    BY <2>1
<1> QED
    BY <1>4 DEF Min

\* The smallest member is the one that is.
LEMMA MinimumIs ==
    ASSUME NEW S \in SUBSET Int, NEW x \in S, \A y \in S : x <= y
    PROVE  Min(S) = x
<1>1. Min(S) \in S /\ \A y \in S : Min(S) <= y
    BY DEF Min
<1>2. Min(S) \in Int /\ x \in Int /\ Min(S) <= x /\ x <= Min(S)
    BY <1>1
<1> QED
    BY ONLY <1>2

\* A product of natural numbers is one, and grows with its factors.
LEMMA ProductIsMonotone ==
    ASSUME NEW k \in Nat, NEW x \in Nat, NEW y \in Nat, x <= y
    PROVE  k * x \in Nat /\ k * y \in Nat /\ k * x <= k * y
<1> DEFINE c == y - x
           kx == k * x
           ky == k * y
           kc == k * c
<1>1. y = x + c /\ c \in Nat
    OBVIOUS
<1> HIDE DEF c
<1>2. ky = kx + kc
    BY <1>1
<1>3. kx \in Nat /\ ky \in Nat /\ kc \in Nat
    BY <1>1
<1> HIDE DEF kx, ky, kc
<1>4. kx <= ky
    BY <1>2, <1>3
<1> QED
    BY <1>3, <1>4 DEF kx, ky

-----------------------------------------------------------------------------
\* Values

\* The digits are added up from the last one.
LEMMA LittleEndianUnfolds ==
    ASSUME NEW digit, regionSize \in Nat
    PROVE  \E from : /\ LittleEndian(digit) = from[0] /\ from[regionSize] = 0
                     /\ \A j \in 0 .. (regionSize - 1) :
                           from[j] = digit[j] + (Top + 1) * from[j + 1]
<1> DEFINE Body(f, j) == IF j = regionSize THEN 0 ELSE digit[j] + (Top + 1) * f[j + 1]
           Sums(n, f) == \A j \in (regionSize - n) .. regionSize : f[j] = Body(f, j)
           good == {n \in 0 .. regionSize : \E f : Sums(n, f)}
           bad == (0 .. regionSize) \ good
           s == CHOOSE f : f = [j \in 0 .. regionSize |-> Body(f, j)]
<1>1. bad = {}
  <2> SUFFICES ASSUME bad # {} PROVE FALSE
    OBVIOUS
  <2> DEFINE n == Min(bad)
  <2>1. n \in 0 .. regionSize /\ n \notin good /\ \A m \in bad : n <= m
    <3>1. bad \in SUBSET Nat
      OBVIOUS
    <3> HIDE DEF bad
    <3>2. n \in bad /\ \A m \in bad : n <= m
      BY <3>1, Minimum
    <3> QED
      BY <3>2 DEF bad
  <2> HIDE DEF n
  <2>2. n # 0
    <3> SUFFICES ASSUME n = 0 PROVE FALSE
      OBVIOUS
    <3>1. Sums(0, [j \in 0 .. regionSize |-> 0])
      OBVIOUS
    <3> HIDE DEF Sums
    <3> QED
      BY <2>1, <3>1
  <2>3. n - 1 \in 0 .. regionSize /\ n - 1 \in good
    <3>1. n - 1 \in 0 .. regionSize /\ ~ (n <= n - 1)
      BY <2>1, <2>2
    <3> HIDE DEF good
    <3> QED
      BY <2>1, <3>1
  <2>4. PICK g : Sums(n - 1, g)
    BY <2>3
  <2> DEFINE k == regionSize - n
             h == [j \in k .. regionSize |-> IF j = k THEN Body(g, k) ELSE g[j]]
  <2>5. k \in 0 .. (regionSize - 1) /\ regionSize - (n - 1) = k + 1
    BY <2>1, <2>2
  <2> HIDE DEF k
  <2>6. ASSUME NEW j \in k .. regionSize PROVE h[j] = Body(h, j)
    <3>1. Body(h, j) = Body(g, j)
      <4>1. CASE j = regionSize
        BY <4>1
      <4>2. CASE j # regionSize
        <5>1. j + 1 \in k .. regionSize /\ j + 1 # k
          BY <2>5, <4>2
        <5>2. h[j + 1] = g[j + 1]
          BY <5>1
        <5> HIDE DEF h
        <5> QED
          BY <5>2
      <4> QED
        BY <4>1, <4>2
    <3>2. CASE j = k
      BY <3>1, <3>2
    <3>3. CASE j # k
      <4>1. j \in (k + 1) .. regionSize /\ h[j] = g[j]
        BY <2>5, <3>3
      <4>2. g[j] = Body(g, j)
        BY <2>4, <2>5, <4>1
      <4> HIDE DEF Body, h
      <4> QED
        BY <3>1, <4>1, <4>2
    <3> QED
      BY <3>2, <3>3
  <2>7. Sums(n, h)
    <3> HIDE DEF h, Body
    <3> QED
      BY <2>6 DEF k
  <2> HIDE DEF h, Sums
  <2> QED
    BY <2>1, <2>7
<1>2. PICK g : Sums(regionSize, g)
  <2>1. regionSize \in good
    <3> HIDE DEF good
    <3> QED
      BY <1>1
  <2> HIDE DEF Sums
  <2> QED
    BY <2>1
<1> DEFINE f0 == [j \in 0 .. regionSize |-> g[j]]
<1>3. f0 = [j \in 0 .. regionSize |-> Body(f0, j)]
  <2>1. ASSUME NEW j \in 0 .. regionSize PROVE f0[j] = Body(f0, j)
    <3>1. g[j] = Body(g, j)
      BY <1>2
    <3>2. Body(f0, j) = Body(g, j)
      <4>1. CASE j = regionSize
        BY <4>1
      <4>2. CASE j # regionSize
        <5>1. j + 1 \in 0 .. regionSize
          BY <4>2
        <5>2. f0[j + 1] = g[j + 1]
          BY <5>1
        <5> HIDE DEF f0
        <5> QED
          BY <5>2
      <4> QED
        BY <4>1, <4>2
    <3> HIDE DEF Body
    <3> QED
      BY <3>1, <3>2
  <2> HIDE DEF Body
  <2> QED
    BY <2>1
<1>4. s = [j \in 0 .. regionSize |-> Body(s, j)]
  <2> HIDE DEF f0, Body
  <2> QED
    BY <1>3
<1>5. LittleEndian(digit) = s[0]
    BY DEF LittleEndian
<1> HIDE DEF s
<1>6. \A j \in 0 .. regionSize : s[j] = Body(s, j)
  <2> HIDE DEF Body
  <2> QED
    BY <1>4
<1>7. s[regionSize] = 0
    BY <1>6
<1>8. \A j \in 0 .. (regionSize - 1) : s[j] = digit[j] + (Top + 1) * s[j + 1]
    BY <1>6
<1> QED
    BY <1>5, <1>7, <1>8

\* Larger digits make larger numbers.
LEMMA LittleEndianIsMonotone ==
    ASSUME regionSize \in Nat, NEW digit, NEW larger,
           \A j \in 0 .. (regionSize - 1) :
              digit[j] \in Nat /\ larger[j] \in Nat /\ digit[j] <= larger[j]
    PROVE  /\ LittleEndian(digit) \in Nat /\ LittleEndian(larger) \in Nat
           /\ LittleEndian(digit) <= LittleEndian(larger)
<1>1. PICK d : /\ LittleEndian(digit) = d[0] /\ d[regionSize] = 0
               /\ \A j \in 0 .. (regionSize - 1) : d[j] = digit[j] + (Top + 1) * d[j + 1]
    BY LittleEndianUnfolds
<1>2. PICK e : /\ LittleEndian(larger) = e[0] /\ e[regionSize] = 0
               /\ \A j \in 0 .. (regionSize - 1) : e[j] = larger[j] + (Top + 1) * e[j + 1]
    BY LittleEndianUnfolds
<1> DEFINE ok(j) == d[j] \in Nat /\ e[j] \in Nat /\ d[j] <= e[j]
           bad == {n \in 0 .. regionSize : ~ ok(regionSize - n)}
<1>3. bad = {}
  <2> SUFFICES ASSUME bad # {} PROVE FALSE
    OBVIOUS
  <2> DEFINE n == Min(bad)
  <2>1. n \in 0 .. regionSize /\ ~ ok(regionSize - n) /\ \A m \in bad : n <= m
    <3>1. bad \in SUBSET Nat
      OBVIOUS
    <3> HIDE DEF bad
    <3>2. n \in bad /\ \A m \in bad : n <= m
      BY <3>1, Minimum
    <3> QED
      BY <3>2 DEF bad
  <2> HIDE DEF n
  <2>2. n # 0
    BY <1>1, <1>2, <2>1
  <2> DEFINE k == regionSize - n
  <2>3. k \in 0 .. (regionSize - 1) /\ n - 1 \in 0 .. regionSize /\ ~ (n <= n - 1)
        /\ regionSize - (n - 1) = k + 1
    BY <2>1, <2>2
  <2>4. ok(k + 1)
    BY <2>1, <2>3
  <2> HIDE DEF k
  <2>5. /\ d[k] = digit[k] + (Top + 1) * d[k + 1] /\ e[k] = larger[k] + (Top + 1) * e[k + 1]
        /\ digit[k] \in Nat /\ larger[k] \in Nat /\ digit[k] <= larger[k]
    BY <1>1, <1>2, <2>3
  <2>6. ASSUME NEW x \in Nat, NEW y \in Nat, x <= y, NEW a \in Nat, NEW b \in Nat, a <= b
        PROVE  /\ a + (Top + 1) * x \in Nat /\ b + (Top + 1) * y \in Nat
               /\ a + (Top + 1) * x <= b + (Top + 1) * y
    <3>1. (Top + 1) * x \in Nat /\ (Top + 1) * y \in Nat /\ (Top + 1) * x <= (Top + 1) * y
      BY <2>6, ProductIsMonotone
    <3> QED
      BY <2>6, <3>1
  <2>7. ok(k)
    BY <2>4, <2>5, <2>6
  <2> QED
    BY <2>1, <2>7 DEF k
<1>4. ok(0)
  <2>1. regionSize \in 0 .. regionSize /\ regionSize - regionSize = 0
    OBVIOUS
  <2> HIDE DEF ok
  <2> QED
    BY <1>3, <2>1
<1> QED
    BY <1>1, <1>2, <1>4

\* The values of a file are numbers, none larger than the largest.
LEMMA ValuesAreBounded ==
    ASSUME TypeOK, NEW o \in Nat, o + regionSize <= fileSize
    PROVE  ValueAt(o) \in 0 .. MaximumValue /\ MaximumValue \in Nat
<1> DEFINE digit == [j \in 0 .. (regionSize - 1) |-> byte[o + j]]
           larger == [j \in 0 .. (regionSize - 1) |-> Top]
<1>1. regionSize \in Nat /\ fileSize \in Nat /\ \A p \in 0 .. (fileSize - 1) : byte[p] \in 0 .. Top
    BY RegionSizesAssumption, WindowAssumption, FilesAssumption DEF TypeOK, BlocksTypeOK
<1>2. ASSUME NEW j \in 0 .. (regionSize - 1)
      PROVE  digit[j] \in Nat /\ larger[j] \in Nat /\ digit[j] <= larger[j]
  <2>1. o + j \in 0 .. (fileSize - 1)
    BY <1>1
  <2> QED
    BY <1>1, <2>1
<1>3. ValueAt(o) = LittleEndian(digit) /\ MaximumValue = LittleEndian(larger)
    BY DEF ValueAt, MaximumValue
<1> HIDE DEF digit, larger
<1> QED
    BY <1>1, <1>2, <1>3, LittleEndianIsMonotone

\* The value of a region of one byte is that byte.
LEMMA ByteIsValue ==
    ASSUME TypeOK, regionSize = 1, NEW o \in Nat, o < fileSize
    PROVE  ValueAt(o) = byte[o] /\ byte[o] \in 0 .. Top /\ MaximumValue = Top
<1>1. ASSUME NEW digit, digit[0] \in Nat PROVE LittleEndian(digit) = digit[0]
  <2>1. PICK d : /\ LittleEndian(digit) = d[0] /\ d[regionSize] = 0
                 /\ \A j \in 0 .. (regionSize - 1) : d[j] = digit[j] + (Top + 1) * d[j + 1]
    BY LittleEndianUnfolds
  <2>2. d[1] = 0 /\ d[0] = digit[0] + (Top + 1) * d[0 + 1]
    BY <2>1
  <2> QED
    BY <1>1, <2>1, <2>2
<1> DEFINE digit == [j \in 0 .. (regionSize - 1) |-> byte[o + j]]
           larger == [j \in 0 .. (regionSize - 1) |-> Top]
<1>2. byte[o] \in 0 .. Top
    BY DEF TypeOK, BlocksTypeOK
<1>3. digit[0] = byte[o] /\ larger[0] = Top
    OBVIOUS
<1>4. ValueAt(o) = LittleEndian(digit) /\ MaximumValue = LittleEndian(larger)
    BY DEF ValueAt, MaximumValue
<1> HIDE DEF digit, larger
<1> QED
    BY <1>1, <1>2, <1>3, <1>4

\* They change with the file.
LEMMA SameValues ==
    ASSUME UNCHANGED <<byte, regionSize>>
    PROVE  (\A o : ValueAt(o)' = ValueAt(o)) /\ MaximumValue' = MaximumValue
BY DEF ValueAt, MaximumValue, LittleEndian

-----------------------------------------------------------------------------
\* Steps that leave the block and the scan where they are

\* The invariant holds at the start.
LEMMA InitIInv == Init => IInv
<1> SUFFICES ASSUME Init PROVE IInv
    OBVIOUS
<1>1. fileSize \in Nat /\ byte \in [0 .. (fileSize - 1) -> 0 .. Top]
    BY RegionSizesAssumption, WindowAssumption, FilesAssumption DEF Init
<1>2. TypeOK
  <2>1. reachedEOF \in BOOLEAN /\ initialized \in BOOLEAN
    BY Zenon DEF Init, InitBlocks
  <2>2. BlocksTypeOK
    BY <1>1, <2>1 DEF Init, InitBlocks, BlocksTypeOK
  <2>3. regionSize \in RegionSizes /\ maximum = 0 /\ blockOffset = 0 /\ candidateOffset = 0
        /\ pc = "idle" /\ regionSize \in Nat
    BY RegionSizesAssumption, WindowAssumption, FilesAssumption DEF Init, InitBlocks
  <2>4. MaximumValue \in Nat
    BY <2>3, LittleEndianIsMonotone DEF MaximumValue
  <2> QED
    BY <2>1, <2>2, <2>3, <2>4 DEF TypeOK
<1>3. /\ BlocksAreAligned /\ BlockIsOfFile /\ ScanIsAligned
      /\ CandidateStarts /\ CandidateIsRecord /\ NoEarlierExtremum
    BY DEF Init, InitBlocks, BlocksAreAligned, BlockIsOfFile, ScanIsAligned, CandidateStarts,
       CandidateIsRecord, NoEarlierExtremum
<1> QED
    BY <1>2, <1>3 DEF IInv

\* Between calls only the alignment matters.
LEMMA IdleIInv ==
    ASSUME pc' = "idle", TypeOK', BlocksAreAligned'
    PROVE  IInv'
BY DEF IInv, BlockIsOfFile, ScanIsAligned, CandidateStarts, CandidateIsRecord, NoEarlierExtremum

\* The bytes that are discarded are in the file.
LEMMA InBlock ==
    ASSUME IInv, pc \in {"block", "stretch", "values"}
    PROVE  /\ pos \in Nat /\ dataLen \in Nat /\ pos + dataLen <= fileSize /\ fileSize \in Nat
           /\ ownedChunk \in Nat /\ begin \in Nat /\ handedOut \in Nat
           /\ pos = begin + ownedChunk /\ previousChunkSizeBytes = 0
           /\ faults \in 0 .. MaxFaults
           /\ faults = 0 => pos = handedOut + ownedChunk
           /\ regionSize \in Nat /\ regionSize > 0 /\ WindowSize \in Nat /\ WindowSize > 0
           /\ blockOffset = ownedChunk /\ candidateOffset \in Nat /\ ValueCount \in Int
           /\ ValueCount = dataLen - regionSize + 1
BY RegionSizesAssumption, WindowAssumption, FilesAssumption DEF IInv, TypeOK, BlocksTypeOK,
   BlockIsOfFile, BlocksAreAligned, ScanIsAligned, ValueCount

\* What the scan keeps has its type.
ScanTypeOK ==
    /\ regionSize \in RegionSizes
    /\ maximum \in 0 .. MaximumValue
    /\ candidateOffset \in Nat /\ blockOffset \in Nat /\ initialized \in BOOLEAN

\* A chunk that ends within the block, or a fault on the way, leaves the reader
\* aligned.
LEMMA FinishIInv ==
    ASSUME IInv, pc \in {"block", "stretch", "values"}, NEW n \in 0 .. dataLen,
           FinishChunk(n), UNCHANGED <<file, block, begin>>, ScanTypeOK'
    PROVE  IInv'
<1>0. UNCHANGED <<fileSize, byte, dataLen, reachedEOF, begin>>
    BY DEF file, block
<1>1. CASE ownedChunk = 0
  <2>1. /\ previousChunkSizeBytes' = n /\ handedOut' = handedOut + n
        /\ pc' = "idle" /\ result' = "chunk" /\ UNCHANGED <<pos, faults, ownedChunk>>
    BY <1>1, InBlock DEF FinishChunk, Return, peeker
  <2>2. TypeOK'
    BY <1>0, <2>1, InBlock DEF IInv, TypeOK, BlocksTypeOK, ScanTypeOK
  <2>3. BlocksAreAligned'
    BY <1>0, <1>1, <2>1, InBlock DEF BlocksAreAligned
  <2> QED
    BY <2>1, <2>2, <2>3, IdleIInv
<1>2. CASE ownedChunk > 0
  <2>1. /\ ownedChunk' = ownedChunk + n /\ previousChunkSizeBytes' = previousChunkSizeBytes
        /\ DiscardOrFail(n, Return("chunk") /\ handedOut' = handedOut + ownedChunk')
    BY <1>2 DEF FinishChunk
  <2>2. CASE pos' = pos + n /\ UNCHANGED faults /\ Return("chunk")
             /\ handedOut' = handedOut + ownedChunk'
    <3>1. TypeOK'
      BY <1>0, <2>1, <2>2, InBlock DEF IInv, TypeOK, BlocksTypeOK, ScanTypeOK, Return
    <3>2. BlocksAreAligned'
      BY <1>0, <2>1, <2>2, InBlock DEF BlocksAreAligned, Return
    <3> QED
      BY <2>2, <3>1, <3>2, IdleIInv DEF Return
  <2>3. CASE /\ faults < MaxFaults /\ faults' = faults + 1
             /\ \E discarded \in 0 .. (n - 1) : pos' = pos + discarded
             /\ Return("error") /\ UNCHANGED handedOut
    <3>1. TypeOK'
      BY <1>0, <2>1, <2>3, InBlock DEF IInv, TypeOK, BlocksTypeOK, ScanTypeOK, Return
    <3>2. BlocksAreAligned'
      BY <1>0, <2>1, <2>3, InBlock DEF BlocksAreAligned, Return
    <3> QED
      BY <2>3, <3>1, <3>2, IdleIInv DEF Return
  <2> QED
    BY <2>1, <2>2, <2>3 DEF DiscardOrFail
<1> QED
    BY <1>1, <1>2, InBlock

\* What a step leaves as it is has its type afterwards.
LEMMA ScanTypeKept ==
    ASSUME IInv, UNCHANGED <<byte, regionSize, maximum, candidateOffset, blockOffset, initialized>>
    PROVE  ScanTypeOK'
<1>1. MaximumValue' = MaximumValue
    BY SameValues
<1> QED
    BY <1>1 DEF IInv, TypeOK, ScanTypeOK

\* A step that changes neither what was scanned nor what was found there.
LEMMA SameScan ==
    ASSUME IInv, pc # "idle", pc' # "idle",
           UNCHANGED <<fileSize, byte, regionSize, begin, maximum, candidateOffset, initialized>>,
           initialized => Scanned' = Scanned
    PROVE  CandidateIsRecord' /\ NoEarlierExtremum'
<1>1. CASE ~ initialized
    BY <1>1 DEF CandidateIsRecord, NoEarlierExtremum
<1>2. CASE initialized
  <2>1. (\A o : ValueAt(o)' = ValueAt(o)) /\ Candidate' = Candidate
    BY SameValues DEF Candidate
  <2> QED
    BY <1>2, <2>1 DEF IInv, CandidateIsRecord, NoEarlierExtremum
<1> QED
    BY <1>1, <1>2

\* A call discards the last chunk and starts a scan of its own.
LEMMA BeginIInv ==
    ASSUME IInv, Begin
    PROVE  IInv'
<1>1. /\ pc = "idle" /\ pos' = pos + previousChunkSizeBytes /\ begin' = pos'
      /\ previousChunkSizeBytes' = 0 /\ ownedChunk' = 0 /\ pc' = "peek"
      /\ maximum' = 0 /\ candidateOffset' = 0 /\ blockOffset' = 0 /\ initialized' = FALSE
      /\ UNCHANGED <<fileSize, byte, faults, result, dataLen, reachedEOF, handedOut,
                     regionSize, i, end>>
    BY DEF Begin, BeginRead, file, block
<1>2. pos \in Nat /\ previousChunkSizeBytes \in Nat /\ fileSize \in Nat
      /\ pos + previousChunkSizeBytes <= fileSize
    BY <1>1 DEF IInv, TypeOK, BlocksTypeOK, BlocksAreAligned
<1>3. TypeOK'
  <2>1. BlocksTypeOK'
    BY <1>1, <1>2 DEF IInv, TypeOK, BlocksTypeOK
  <2>2. regionSize' \in RegionSizes
    BY <1>1 DEF IInv, TypeOK
  <2>3. initialized' \in BOOLEAN
    BY <1>1, Zenon
  <2>4. maximum' = 0 /\ blockOffset' = 0 /\ candidateOffset' = 0 /\ pc' = "peek"
    BY <1>1
  <2>5. MaximumValue' \in Nat
    <3>1. MaximumValue' = MaximumValue
      BY <1>1, SameValues
    <3>2. regionSize \in Nat
      BY RegionSizesAssumption, WindowAssumption, FilesAssumption DEF IInv, TypeOK
    <3> QED
      BY <3>1, <3>2, LittleEndianIsMonotone DEF MaximumValue
  <2> QED
    BY <2>1, <2>2, <2>3, <2>4, <2>5 DEF TypeOK
<1>4. BlocksAreAligned'
    BY <1>1, <1>2 DEF IInv, BlocksAreAligned
<1>5. BlockIsOfFile' /\ CandidateStarts' /\ CandidateIsRecord' /\ NoEarlierExtremum'
    BY <1>1 DEF BlockIsOfFile, CandidateStarts, CandidateIsRecord, NoEarlierExtremum
<1>6. ScanIsAligned'
    BY <1>1 DEF ScanIsAligned
<1> QED
    BY <1>3, <1>4, <1>5, <1>6 DEF IInv

\* The steps that leave the scan as it is: faults, the next block, an end.
LEMMA BlockStepIInv ==
    ASSUME IInv, BlockStep
    PROVE  IInv'
<1>0. UNCHANGED <<regionSize, maximum, candidateOffset, blockOffset, initialized, i, end>>
    BY DEF BlockStep, scan
<1>01. UNCHANGED byte => ScanTypeOK'
    BY <1>0, ScanTypeKept
<1>1. CASE BeginFails
  <2>1. PICK discarded \in 0 .. (previousChunkSizeBytes - 1) :
            pos' = pos + discarded
            /\ previousChunkSizeBytes' = previousChunkSizeBytes - discarded
    BY <1>1 DEF BeginFails, RemainderOf
  <2>2. /\ pc = "idle" /\ pc' = "idle" /\ result' = "error"
        /\ faults < MaxFaults /\ faults' = faults + 1
        /\ UNCHANGED <<fileSize, byte, ownedChunk, dataLen, reachedEOF, begin, handedOut>>
    BY <1>1 DEF BeginFails, Return, file, block, history
  <2>3. pos \in Nat /\ previousChunkSizeBytes \in Nat /\ fileSize \in Nat /\ faults \in Nat
        /\ pos + previousChunkSizeBytes <= fileSize
    BY <2>2 DEF IInv, TypeOK, BlocksTypeOK, BlocksAreAligned
  <2>4. TypeOK'
    BY <1>0, <1>01, <2>1, <2>2, <2>3 DEF IInv, TypeOK, BlocksTypeOK, ScanTypeOK
  <2>5. BlocksAreAligned'
    BY <2>1, <2>2, <2>3 DEF BlocksAreAligned
  <2> QED
    BY <2>2, <2>4, <2>5, IdleIInv
<1>2. CASE PeekFails
  <2>1. /\ pc = "peek" /\ pc' = "idle" /\ result' = "error"
        /\ faults < MaxFaults /\ faults' = faults + 1
        /\ UNCHANGED <<fileSize, byte, pos, previousChunkSizeBytes, ownedChunk, dataLen,
                       reachedEOF, begin, handedOut>>
    BY <1>2 DEF PeekFails, Return, file, blocks, block, history
  <2>2. TypeOK'
    BY <1>0, <1>01, <2>1 DEF IInv, TypeOK, BlocksTypeOK, ScanTypeOK
  <2>3. BlocksAreAligned'
    BY <2>1 DEF IInv, TypeOK, BlocksTypeOK, BlocksAreAligned
  <2> QED
    BY <2>1, <2>2, <2>3, IdleIInv
<1>3. CASE PeekBlock
  <2>1. /\ pc = "peek" /\ pc' = "block"
        /\ dataLen' = (IF fileSize - pos < PeekSize THEN fileSize - pos ELSE PeekSize)
        /\ reachedEOF' = (fileSize - pos < PeekSize)
        /\ UNCHANGED <<fileSize, byte, pos, faults, previousChunkSizeBytes, ownedChunk,
                       result, begin, handedOut>>
    BY <1>3 DEF PeekBlock, file, peeker, blocks, history
  <2>2. pos \in Nat /\ fileSize \in Nat /\ pos <= fileSize
    BY DEF IInv, TypeOK, BlocksTypeOK
  <2>3. TypeOK'
    BY <1>0, <1>01, <2>1, <2>2 DEF IInv, TypeOK, BlocksTypeOK, ScanTypeOK
  <2>4. BlocksAreAligned'
    <3>1. /\ pos = begin + ownedChunk /\ previousChunkSizeBytes = 0
          /\ faults = 0 => pos + previousChunkSizeBytes = handedOut + ownedChunk
      BY <2>1 DEF IInv, BlocksAreAligned
    <3>2. pos + dataLen' <= fileSize
      BY <2>1, <2>2
    <3> QED
      BY <2>1, <3>1, <3>2 DEF BlocksAreAligned
  <2>5. BlockIsOfFile'
    BY <2>1 DEF BlockIsOfFile
  <2>6. ScanIsAligned'
    BY <1>0, <2>1 DEF IInv, ScanIsAligned
  <2>8. CandidateStarts'
    BY <1>0, <2>1 DEF IInv, CandidateStarts
  <2>7. CandidateIsRecord' /\ NoEarlierExtremum'
    <3>1. Scanned' = Scanned
      BY <2>1 DEF Scanned
    <3> QED
      BY <1>0, <2>1, <3>1, SameScan
  <2> QED
    BY <2>3, <2>4, <2>5, <2>6, <2>7, <2>8 DEF IInv
<1>4. CASE EmptyBlock /\ UNCHANGED <<file, block, begin>>
  <2>1. pc = "block" /\ dataLen = 0 /\ UNCHANGED byte
    BY <1>4 DEF EmptyBlock, file
  <2>2. CASE Return("eof") /\ UNCHANGED <<peeker, blocks, handedOut>> /\ ownedChunk = 0
    <3>1. /\ pc' = "idle" /\ result' = "eof"
          /\ UNCHANGED <<fileSize, byte, pos, faults, previousChunkSizeBytes, ownedChunk,
                         dataLen, reachedEOF, begin, handedOut>>
      BY <1>4, <2>2 DEF Return, file, peeker, blocks, block
    <3>2. TypeOK'
      BY <1>0, <1>01, <3>1 DEF IInv, TypeOK, BlocksTypeOK, ScanTypeOK
    <3>3. BlocksAreAligned'
      BY <2>1, <2>2, <3>1 DEF IInv, BlocksAreAligned
    <3> QED
      BY <3>1, <3>2, <3>3, IdleIInv
  <2>3. CASE FinishChunk(0)
    BY <1>0, <1>01, <1>4, <2>1, <2>3, FinishIInv
  <2> QED
    BY <1>4, <2>2, <2>3 DEF EmptyBlock
<1>5. CASE ShortBlock
  <2>1. /\ pc = "block" /\ dataLen > 0 /\ FinishChunk(dataLen)
        /\ UNCHANGED <<file, block, begin>> /\ UNCHANGED byte
    BY <1>5 DEF ShortBlock, file
  <2>2. dataLen \in 0 .. dataLen
    BY <2>1, InBlock
  <2> QED
    BY <1>01, <2>1, <2>2, FinishIInv
<1> QED
    BY <1>1, <1>2, <1>3, <1>4, <1>5 DEF BlockStep

-----------------------------------------------------------------------------
\* The scan of a block

\* Where the scan of a block stands.
LEMMA ScanFacts ==
    ASSUME IInv, pc \in {"stretch", "values"}
    PROVE  /\ initialized /\ ValueCount > 0 /\ i \in 0 .. ValueCount /\ i \in Nat
           /\ Scanned = pos + i /\ Scanned \in Nat /\ Scanned = begin + blockOffset + i
           /\ Candidate = begin + candidateOffset /\ Candidate \in Nat
           /\ Candidate < Scanned /\ Scanned <= Candidate + WindowSize
           /\ maximum = ValueAt(Candidate) /\ maximum \in 0 .. MaximumValue
           /\ MaximumValue \in Nat /\ maximum \in Nat
           /\ ValueCount = dataLen - regionSize + 1 /\ pos + dataLen <= fileSize
           /\ \A o \in begin .. (Candidate - 1) : ValueAt(o) < maximum
           /\ \A o \in (Candidate + 1) .. (Scanned - 1) : ValueAt(o) <= maximum
<1>1. /\ initialized /\ ValueCount > 0 /\ i \in 0 .. ValueCount
      /\ Scanned = pos + i
    BY DEF IInv, ScanIsAligned, Scanned
<1>2. /\ Candidate < Scanned /\ Scanned <= Candidate + WindowSize
      /\ maximum = ValueAt(Candidate)
      /\ \A o \in begin .. (Candidate - 1) : ValueAt(o) < maximum
      /\ \A o \in (Candidate + 1) .. (Scanned - 1) : ValueAt(o) <= maximum
    BY <1>1 DEF IInv, CandidateIsRecord
<1>3. MaximumValue \in Nat /\ maximum \in 0 .. MaximumValue
  <2>1. regionSize \in Nat
    BY InBlock
  <2> QED
    BY <2>1, LittleEndianIsMonotone DEF MaximumValue, IInv, TypeOK
<1> QED
    BY <1>1, <1>2, <1>3, InBlock DEF Candidate

\* A stretch is not empty, and ends with the candidate's deadline or the block.
LEMMA StretchBounds ==
    ASSUME IInv, pc \in {"stretch", "values"}, i < ValueCount
    PROVE  /\ StretchEnd \in (i + 1) .. ValueCount
           /\ pos + StretchEnd <= Candidate + WindowSize + 1
           /\ StretchEnd - i = ValuesThroughDeadline
                 => pos + StretchEnd = Candidate + WindowSize + 1
           /\ StretchEnd - i # ValuesThroughDeadline =>
                 StretchEnd = ValueCount /\ pos + StretchEnd <= Candidate + WindowSize
<1> DEFINE n == ValueCount
           d == i + ValuesThroughDeadline
<1>1. /\ n \in Int /\ i \in Nat /\ i < n /\ pos + d = Candidate + WindowSize + 1
      /\ d \in Int /\ d >= i + 1 /\ Candidate \in Nat /\ pos \in Nat /\ WindowSize \in Nat
      /\ ValuesThroughDeadline = d - i
    BY ScanFacts, InBlock DEF ValuesThroughDeadline, DistanceFromCandidate
<1>2. StretchEnd = Min({n, d})
    BY DEF StretchEnd
<1> HIDE DEF n, d
<1>3. CASE n < d
  <2>1. Min({n, d}) = n
    BY <1>1, <1>3, MinimumIs
  <2> QED
    BY <1>1, <1>2, <1>3, <2>1 DEF n
<1>4. CASE ~ (n < d)
  <2>1. Min({n, d}) = d
    BY <1>1, <1>4, MinimumIs
  <2> QED
    BY <1>1, <1>2, <1>4, <2>1 DEF n
<1> QED
    BY <1>3, <1>4

\* Values that the scan skips because none is larger than the maximum.
LEMMA Skipped ==
    ASSUME IInv, pc \in {"stretch", "values"}, NEW n \in Nat, i <= n, n <= ValueCount,
           \A o \in Scanned .. (pos + n - 1) : ValueAt(o) <= maximum
    PROVE  \A o \in (Candidate + 1) .. (pos + n - 1) : ValueAt(o) <= maximum
<1> SUFFICES ASSUME NEW o \in (Candidate + 1) .. (pos + n - 1) PROVE ValueAt(o) <= maximum
    OBVIOUS
<1>1. o \in (Candidate + 1) .. (Scanned - 1) \/ o \in Scanned .. (pos + n - 1)
    BY ScanFacts, InBlock
<1> QED
    BY <1>1, ScanFacts

\* A step within the block that leaves the candidate.
LEMMA GoesOnIInv ==
    ASSUME IInv, pc \in {"stretch", "values"}, pc' \in {"stretch", "values"},
           UNCHANGED <<file, peeker, blocks, result, block, history, regionSize, maximum,
                       candidateOffset, blockOffset, initialized>>,
           i' \in i .. ValueCount, pos + i' <= Candidate + WindowSize,
           \A o \in Scanned .. (pos + i' - 1) : ValueAt(o) <= maximum,
           pc' = "values" => end' \in i' .. ValueCount
    PROVE  IInv'
<1>1. UNCHANGED <<fileSize, byte, pos, faults, previousChunkSizeBytes, ownedChunk, result,
                  dataLen, reachedEOF, begin, handedOut, regionSize, maximum,
                  candidateOffset, blockOffset, initialized>>
    BY DEF file, peeker, blocks, block, history
<1>2. /\ ValueCount' = ValueCount /\ MaximumValue' = MaximumValue /\ Candidate' = Candidate
      /\ \A o : ValueAt(o)' = ValueAt(o)
    BY <1>1, SameValues DEF ValueCount, Candidate
<1>3. i' \in Nat /\ i' <= ValueCount /\ i <= i' /\ i' \in 0 .. ValueCount /\ i \in Nat
    BY ScanFacts, InBlock
<1>4. TypeOK'
  <2>1. BlocksTypeOK'
    BY <1>1 DEF IInv, TypeOK, BlocksTypeOK
  <2>2. i' \in 0 .. dataLen'
    BY <1>1, <1>3, ScanFacts, InBlock
  <2>3. pc' = "values" => end' \in 0 .. ValueCount'
    BY <1>2, <1>3
  <2> QED
    BY <1>1, <1>2, <2>1, <2>2, <2>3 DEF IInv, TypeOK
<1>5. BlocksAreAligned' /\ BlockIsOfFile'
    BY <1>1 DEF IInv, BlocksAreAligned, BlockIsOfFile
<1>6. ScanIsAligned'
  <2>1. pc' = "values" => i' <= end' /\ end' <= ValueCount
    BY <1>3, InBlock
  <2> QED
    BY <1>1, <1>2, <1>3, <2>1, ScanFacts DEF IInv, ScanIsAligned
<1>7. Scanned' = pos + i'
    BY <1>1 DEF Scanned
<1>8. CandidateIsRecord'
  <2>1. \A o \in (Candidate + 1) .. (pos + i' - 1) : ValueAt(o) <= maximum
    BY <1>3, Skipped
  <2>2. Candidate < pos + i' /\ pos + i' - 1 + regionSize <= fileSize
    BY <1>3, ScanFacts, InBlock
  <2> QED
    <3>1. Candidate' < Scanned' /\ Scanned' <= Candidate' + WindowSize
          /\ Scanned' - 1 + regionSize' <= fileSize'
      BY <1>1, <1>2, <1>3, <1>7, <2>2, ScanFacts, InBlock
    <3>2. maximum' = ValueAt(Candidate)'
      BY <1>1, <1>2, ScanFacts
    <3>3. (\A o \in begin .. (Candidate - 1) : ValueAt(o) < maximum)'
      BY <1>1, <1>2, ScanFacts
    <3>4. (\A o \in (Candidate + 1) .. (Scanned - 1) : ValueAt(o) <= maximum)'
      BY <1>1, <1>2, <1>3, <1>7, <2>1, InBlock
    <3> QED
      BY <3>1, <3>2, <3>3, <3>4 DEF CandidateIsRecord
<1>9. NoEarlierExtremum'
    BY <1>1, <1>2, ScanFacts DEF IInv, NoEarlierExtremum
<1>10. CandidateStarts'
    BY <1>1, ScanFacts DEF CandidateStarts
<1> QED
    BY <1>4, <1>5, <1>6, <1>8, <1>9, <1>10 DEF IInv

\* A step within the block to a new record, before the deadline of the last one.
LEMMA RecordIInv ==
    ASSUME IInv, pc \in {"stretch", "values"}, pc' = pc,
           UNCHANGED <<file, peeker, blocks, result, block, history, regionSize,
                       blockOffset, initialized, end>>,
           NEW j \in Nat, i <= j, j < ValueCount, pos + j <= Candidate + WindowSize,
           pc = "values" => j < end,
           candidateOffset' = blockOffset + j, i' = j + 1, maximum' = ValueAt(pos + j),
           maximum < ValueAt(pos + j),
           \A o \in Scanned .. (pos + j - 1) : ValueAt(o) < ValueAt(pos + j)
    PROVE  IInv'
<1>1. UNCHANGED <<fileSize, byte, pos, faults, previousChunkSizeBytes, ownedChunk, result,
                  dataLen, reachedEOF, begin, handedOut, regionSize,
                  blockOffset, initialized, end>>
    BY DEF file, peeker, blocks, block, history
<1>2. /\ ValueCount' = ValueCount /\ MaximumValue' = MaximumValue
      /\ \A o : ValueAt(o)' = ValueAt(o)
    BY <1>1, SameValues DEF ValueCount
<1>3. /\ Candidate' = pos + j /\ Scanned' = pos + j + 1 /\ pos + j \in Nat
      /\ pos + j + regionSize <= fileSize /\ i' \in 0 .. ValueCount /\ i' \in 0 .. dataLen
      /\ Candidate < pos + j
    BY <1>1, ScanFacts, InBlock DEF Candidate, Scanned
<1>4. ValueAt(pos + j) \in 0 .. MaximumValue
    BY <1>3, ValuesAreBounded DEF IInv
<1>5. \A o \in begin .. (pos + j - 1) : o + regionSize <= fileSize /\ ValueAt(o) \in Nat
  <2> SUFFICES ASSUME NEW o \in begin .. (pos + j - 1)
               PROVE  o + regionSize <= fileSize /\ ValueAt(o) \in Nat
    OBVIOUS
  <2>1. o \in Nat /\ o + regionSize <= fileSize
    BY <1>3, InBlock
  <2> QED
    BY <2>1, ValuesAreBounded, ScanFacts DEF IInv
<1>6. TypeOK'
  <2>1. BlocksTypeOK'
    BY <1>1 DEF IInv, TypeOK, BlocksTypeOK
  <2>2. candidateOffset' \in Nat
    BY InBlock
  <2> QED
    BY <1>1, <1>2, <1>3, <1>4, <2>1, <2>2 DEF IInv, TypeOK
<1>7. BlocksAreAligned' /\ BlockIsOfFile'
    BY <1>1 DEF IInv, BlocksAreAligned, BlockIsOfFile
<1>8. ScanIsAligned'
  <2>1. pc = "values" => i' <= end /\ end <= ValueCount
    <3>1. pc = "values" => j < end /\ end \in 0 .. ValueCount
      BY DEF IInv, TypeOK
    <3> QED
      BY <3>1, InBlock
  <2> QED
    BY <1>1, <1>2, <1>3, <2>1, ScanFacts DEF IInv, ScanIsAligned
<1>9. ASSUME NEW o \in begin .. (pos + j - 1) PROVE ValueAt(o) < ValueAt(pos + j)
  <2>1. \/ o \in begin .. (Candidate - 1) \/ o = Candidate
        \/ o \in (Candidate + 1) .. (Scanned - 1) \/ o \in Scanned .. (pos + j - 1)
    BY <1>3, ScanFacts, InBlock
  <2>2. ValueAt(o) \in Nat /\ maximum \in Nat /\ ValueAt(pos + j) \in Nat
    BY <1>4, <1>5, ScanFacts
  <2> QED
    BY <2>1, <2>2, ScanFacts
<1>10. CandidateIsRecord'
  <2>1. (pos + j + 1) .. (pos + j + 1 - 1) = {} /\ pos + j < pos + j + 1
        /\ pos + j + 1 <= pos + j + WindowSize
        /\ pos + j + 1 - 1 + regionSize <= fileSize
    BY <1>3, InBlock
  <2>2. Candidate' < Scanned' /\ Scanned' <= Candidate' + WindowSize
        /\ Scanned' - 1 + regionSize' <= fileSize'
    BY <1>1, <1>3, <2>1, InBlock
  <2>3. maximum' = ValueAt(Candidate)'
    BY <1>2, <1>3
  <2>4. (\A o \in begin .. (Candidate - 1) : ValueAt(o) < maximum)'
    BY <1>1, <1>2, <1>3, <1>9, InBlock
  <2>5. (\A o \in (Candidate + 1) .. (Scanned - 1) : ValueAt(o) <= maximum)'
    BY <1>3, <2>1, InBlock
  <2> QED
    BY <2>2, <2>3, <2>4, <2>5 DEF CandidateIsRecord
<1>11. NoEarlierExtremum'
  <2> SUFFICES ASSUME NEW c \in begin .. (pos + j - 1),
                      \A o \in begin .. (c - 1) : ValueAt(o) < ValueAt(c)
               PROVE  \E o \in (c + 1) .. (c + WindowSize) :
                         o <= pos + j /\ ValueAt(c) < ValueAt(o)
    BY <1>1, <1>2, <1>3, InBlock DEF NoEarlierExtremum
  <2>1. CASE c < Candidate
    <3>1. c \in begin .. (Candidate - 1)
      BY <2>1, ScanFacts, InBlock
    <3>2. PICK o \in (c + 1) .. (c + WindowSize) : o <= Candidate /\ ValueAt(c) < ValueAt(o)
      BY <3>1, ScanFacts DEF IInv, NoEarlierExtremum
    <3>3. o <= pos + j
      BY <1>3, <3>2, ScanFacts, InBlock
    <3> QED
      BY <3>2, <3>3
  <2>2. CASE ~ (c < Candidate)
    <3>1. pos + j \in (c + 1) .. (c + WindowSize) /\ pos + j <= pos + j
      BY <1>3, <2>2, ScanFacts, InBlock
    <3> QED
      BY <1>9, <3>1
  <2> QED
    BY <2>1, <2>2
<1>12. CandidateStarts'
    BY <1>1, ScanFacts DEF CandidateStarts
<1> QED
    BY <1>6, <1>7, <1>8, <1>10, <1>11, <1>12 DEF IInv

-----------------------------------------------------------------------------
\* The steps of the scan

\* The first value of the chunk is a record; a later block goes on with the one before.
LEMMA StartBlockIInv ==
    ASSUME IInv, StartBlock
    PROVE  IInv'
<1>1. /\ pc = "block" /\ ValueCount > 0 /\ pc' = "stretch"
      /\ UNCHANGED <<fileSize, byte, pos, faults, previousChunkSizeBytes, ownedChunk, result,
                     dataLen, reachedEOF, begin, handedOut, regionSize, candidateOffset,
                     blockOffset, end>>
    BY DEF StartBlock, file, peeker, blocks, block, history
<1>2. /\ ValueCount' = ValueCount /\ MaximumValue' = MaximumValue
      /\ \A o : ValueAt(o)' = ValueAt(o)
    BY <1>1, SameValues DEF ValueCount
<1>3. BlocksAreAligned' /\ BlockIsOfFile'
    BY <1>1 DEF IInv, BlocksAreAligned, BlockIsOfFile
<1>4. BlocksTypeOK' /\ ValueCount \in Nat
    BY <1>1, InBlock DEF IInv, TypeOK, BlocksTypeOK
<1>5. CASE initialized
  <2>1. i' = 0 /\ maximum' = maximum /\ initialized' = initialized
    BY <1>5 DEF StartBlock
  <2>2. TypeOK'
    <3>1. 0 \in 0 .. dataLen
      BY <1>1, InBlock
    <3> QED
      BY <1>1, <1>2, <1>4, <2>1, <3>1 DEF IInv, TypeOK
  <2>3. ScanIsAligned'
    BY <1>1, <1>2, <1>4, <1>5, <2>1 DEF IInv, ScanIsAligned
  <2>4. Scanned' = Scanned
    BY <1>1, <2>1, InBlock DEF Scanned
  <2>5. CandidateIsRecord' /\ NoEarlierExtremum'
    BY <1>1, <2>1, <2>4, SameScan
  <2> QED
    BY <1>3, <1>5, <2>1, <2>2, <2>3, <2>5 DEF IInv, CandidateStarts
<1>6. CASE ~ initialized
  <2>1. i' = 1 /\ maximum' = ValueAt(pos) /\ initialized' = TRUE
    BY <1>6 DEF StartBlock
  <2>2. ownedChunk = 0 /\ blockOffset = 0 /\ begin = pos
    BY <1>1, <1>6, InBlock DEF IInv, ScanIsAligned
  <2>3. candidateOffset = 0
    BY <1>1, <1>6 DEF IInv, CandidateStarts
  <2>4. ValueAt(pos) \in 0 .. MaximumValue
    <3>1. pos + regionSize <= fileSize
      BY <1>1, InBlock
    <3> QED
      BY <1>1, <3>1, InBlock, ValuesAreBounded DEF IInv
  <2>5. initialized' \in BOOLEAN
    BY <2>1, Zenon
  <2>6. TypeOK'
    <3>1. 1 \in 0 .. dataLen
      BY <1>1, InBlock
    <3> QED
      BY <1>1, <1>2, <1>4, <2>1, <2>4, <2>5, <3>1 DEF IInv, TypeOK
  <2>7. ScanIsAligned'
    <3>1. 1 \in 0 .. ValueCount
      BY <1>1, <1>4
    <3> QED
      BY <1>1, <1>2, <2>1, <3>1 DEF IInv, ScanIsAligned
  <2>8. Scanned' = pos + 1 /\ Candidate' = pos
    BY <1>1, <2>1, <2>2, <2>3, InBlock DEF Scanned, Candidate
  <2>9. CandidateIsRecord' /\ NoEarlierExtremum'
    <3>1. /\ begin .. (pos - 1) = {} /\ (pos + 1) .. (pos + 1 - 1) = {} /\ pos < pos + 1
          /\ pos + 1 <= pos + WindowSize /\ pos + 1 - 1 + regionSize <= fileSize
      BY <1>1, <2>2, InBlock
    <3> QED
      BY <1>1, <1>2, <2>1, <2>2, <2>8, <3>1, InBlock DEF CandidateIsRecord, NoEarlierExtremum
  <2> QED
    BY <1>3, <2>1, <2>6, <2>7, <2>9 DEF IInv, CandidateStarts
<1> QED
    BY <1>5, <1>6

\* Nothing exceeds the largest value.
LEMMA MaximumStays ==
    ASSUME IInv, pc \in {"stretch", "values"}, maximum = MaximumValue,
           NEW n \in Nat, n <= ValueCount
    PROVE  \A o \in Scanned .. (pos + n - 1) : ValueAt(o) <= maximum
<1> SUFFICES ASSUME NEW o \in Scanned .. (pos + n - 1) PROVE ValueAt(o) <= maximum
    OBVIOUS
<1>1. o \in Nat /\ o + regionSize <= fileSize
    BY ScanFacts, InBlock
<1> QED
    BY <1>1, ValuesAreBounded DEF IInv

\* What is skipped after the largest value does not exceed it.
LEMMA SkipToDeadlineIInv ==
    ASSUME IInv, SkipToDeadline
    PROVE  IInv'
<1>1. /\ pc = "stretch" /\ i < ValueCount /\ maximum = MaximumValue
      /\ UNCHANGED <<file, block, begin, regionSize, maximum, candidateOffset, blockOffset,
                     initialized, end, byte>>
    BY DEF SkipToDeadline, file
<1>2. /\ StretchEnd \in (i + 1) .. ValueCount /\ i \in Nat
      /\ StretchEnd - i # ValuesThroughDeadline => pos + StretchEnd <= Candidate + WindowSize
    BY <1>1, StretchBounds, ScanFacts
<1>3. CASE FinishChunk(StretchEnd)
  <2>1. StretchEnd \in 0 .. dataLen
    BY <1>1, <1>2, InBlock
  <2>2. ScanTypeOK'
    BY <1>1, ScanTypeKept
  <2> QED
    BY <1>1, <1>3, <2>1, <2>2, FinishIInv
<1>4. CASE /\ StretchEnd - i # ValuesThroughDeadline
           /\ i' = StretchEnd /\ UNCHANGED <<peeker, blocks, pc, result, handedOut>>
  <2>1. i' \in i .. ValueCount /\ i' \in Nat /\ i' <= ValueCount
    BY <1>1, <1>2, <1>4, InBlock
  <2>2. \A o \in Scanned .. (pos + i' - 1) : ValueAt(o) <= maximum
    BY <1>1, <2>1, MaximumStays
  <2>3. UNCHANGED history
    BY <1>1, <1>4 DEF history
  <2> QED
    BY <1>1, <1>2, <1>4, <2>1, <2>2, <2>3, GoesOnIInv
<1> QED
    BY <1>3, <1>4 DEF SkipToDeadline

\* Nothing before the first largest byte of the stretch is as large.
LEMMA SkipToTopIInv ==
    ASSUME IInv, SkipToTop
    PROVE  IInv'
<1>1. /\ pc = "stretch" /\ i < ValueCount /\ maximum # MaximumValue /\ regionSize = 1
      /\ TopBytes # {} /\ maximum' = Top /\ candidateOffset' = blockOffset + Min(TopBytes)
      /\ i' = Min(TopBytes) + 1
      /\ UNCHANGED <<file, peeker, blocks, pc, result, block, history, regionSize,
                     blockOffset, initialized, end>>
    BY DEF SkipToTop
<1>2. /\ StretchEnd \in (i + 1) .. ValueCount /\ i \in Nat
      /\ pos + StretchEnd <= Candidate + WindowSize + 1
    BY <1>1, StretchBounds, ScanFacts
<1> DEFINE j == Min(TopBytes)
<1>3. j \in i .. (StretchEnd - 1) /\ byte[pos + j] = Top /\ \A k \in TopBytes : j <= k
  <2>1. TopBytes \in SUBSET Nat
    BY <1>1, <1>2, InBlock DEF TopBytes
  <2>2. j \in TopBytes /\ \A k \in TopBytes : j <= k
    BY <1>1, <2>1, Minimum
  <2> QED
    BY <2>2 DEF TopBytes
<1> HIDE DEF j
<1>4. j \in Nat /\ i <= j /\ j < ValueCount /\ pos + j <= Candidate + WindowSize
      /\ pos + j \in Nat /\ pos + j < fileSize /\ StretchEnd \in Nat
    BY <1>1, <1>2, <1>3, ScanFacts, InBlock
<1>5. ValueAt(pos + j) = Top /\ MaximumValue = Top
    BY <1>1, <1>3, <1>4, ByteIsValue DEF IInv
<1>6. maximum < ValueAt(pos + j)
    BY <1>1, <1>5, ScanFacts
<1>7. ASSUME NEW o \in Scanned .. (pos + j - 1) PROVE ValueAt(o) < ValueAt(pos + j)
  <2>1. o - pos \in i .. (StretchEnd - 1) /\ pos + (o - pos) = o /\ ~ (j <= o - pos)
        /\ o \in Nat /\ o < fileSize
    BY <1>1, <1>2, <1>3, <1>4, ScanFacts, InBlock
  <2>2. byte[pos + (o - pos)] # Top
    BY <1>3, <2>1 DEF TopBytes
  <2>3. ValueAt(o) = byte[o] /\ byte[o] \in 0 .. Top
    BY <1>1, <2>1, ByteIsValue DEF IInv
  <2> QED
    BY <1>5, <2>1, <2>2, <2>3
<1>8. candidateOffset' = blockOffset + j /\ i' = j + 1 /\ maximum' = ValueAt(pos + j)
    BY <1>1, <1>5 DEF j
<1> QED
    BY <1>1, <1>4, <1>6, <1>7, <1>8, RecordIInv

\* A stretch ends at the deadline or with the block.
LEMMA StartStretchIInv ==
    ASSUME IInv, StartStretch
    PROVE  IInv'
<1>1. /\ pc = "stretch" /\ i < ValueCount /\ end' = StretchEnd /\ pc' = "values"
      /\ UNCHANGED <<file, peeker, blocks, result, block, history, regionSize,
                     maximum, candidateOffset, blockOffset, initialized, i>>
    BY DEF StartStretch
<1>2. StretchEnd \in (i + 1) .. ValueCount
    BY <1>1, StretchBounds
<1>3. /\ i' \in i .. ValueCount /\ pos + i' <= Candidate + WindowSize
      /\ Scanned .. (pos + i' - 1) = {} /\ end' \in i' .. ValueCount
    BY <1>1, <1>2, ScanFacts, InBlock
<1> QED
    BY <1>1, <1>3, GoesOnIInv

\* Nothing is scanned between two stretches.
LEMMA EndStretchIInv ==
    ASSUME IInv, EndStretch
    PROVE  IInv'
<1>1. /\ pc = "values" /\ pc' = "stretch"
      /\ UNCHANGED <<file, peeker, blocks, result, block, history, regionSize,
                     maximum, candidateOffset, blockOffset, initialized, i>>
    BY DEF EndStretch, scan
<1>2. /\ i' \in i .. ValueCount /\ pos + i' <= Candidate + WindowSize
      /\ Scanned .. (pos + i' - 1) = {}
    BY <1>1, ScanFacts, InBlock
<1> QED
    BY <1>1, <1>2, GoesOnIInv

\* The value at hand, before its stretch ends.
LEMMA ValueFacts ==
    ASSUME IInv, pc = "values", i < end
    PROVE  /\ i < ValueCount /\ end \in Nat /\ i \in Nat
           /\ Scanned = pos + i /\ ValueAt(pos + i) \in Nat /\ maximum \in Nat
           /\ DistanceFromCandidate = Scanned - Candidate
<1>1. end \in 0 .. ValueCount
    BY DEF IInv, TypeOK
<1>2. i < ValueCount /\ end \in Nat /\ i \in Nat
    BY <1>1, ScanFacts, InBlock
<1>3. pos + i \in Nat /\ pos + i + regionSize <= fileSize
    BY <1>2, ScanFacts, InBlock
<1> QED
    BY <1>2, <1>3, ValuesAreBounded, ScanFacts, InBlock DEF IInv, DistanceFromCandidate

\* A value becomes the record, is the last one of the chunk, or neither.
LEMMA ScanValueIInv ==
    ASSUME IInv, ScanValue
    PROVE  IInv'
<1>1. /\ pc = "values" /\ i < end
      /\ UNCHANGED <<file, block, begin, regionSize, blockOffset, initialized, end, byte>>
    BY DEF ScanValue, file
<1>2. /\ i < ValueCount /\ end \in Nat /\ i \in Nat
      /\ Scanned = pos + i /\ ValueAt(pos + i) \in Nat /\ maximum \in Nat
      /\ DistanceFromCandidate = Scanned - Candidate
      /\ Scanned <= Candidate + WindowSize /\ Scanned \in Nat /\ Candidate \in Nat
      /\ WindowSize \in Nat
    BY <1>1, ValueFacts, ScanFacts, InBlock
<1>3. CASE /\ IsRecord(ValueAt(pos + i)) /\ maximum' = ValueAt(pos + i)
           /\ candidateOffset' = blockOffset + i /\ i' = i + 1
           /\ UNCHANGED <<peeker, blocks, pc, result, handedOut>>
  <2>1. maximum < ValueAt(pos + i)
    BY <1>2, <1>3 DEF IsRecord
  <2>2. UNCHANGED history
    BY <1>1, <1>3 DEF history
  <2>3. \A o \in Scanned .. (pos + i - 1) : ValueAt(o) < ValueAt(pos + i)
    BY <1>1, <1>2, InBlock
  <2>4. i <= i /\ pos + i <= Candidate + WindowSize
    BY <1>2
  <2> QED
    BY <1>1, <1>2, <1>3, <2>1, <2>2, <2>3, <2>4, RecordIInv
<1>4. CASE FinishChunk(i + 1) /\ UNCHANGED <<maximum, candidateOffset, i>>
  <2>1. i + 1 \in 0 .. dataLen
    BY <1>1, <1>2, InBlock
  <2>2. ScanTypeOK'
    BY <1>1, <1>4, ScanTypeKept
  <2> QED
    BY <1>1, <1>4, <2>1, <2>2, FinishIInv
<1>5. CASE /\ ~ IsRecord(ValueAt(pos + i)) /\ DistanceFromCandidate # WindowSize
           /\ i' = i + 1
           /\ UNCHANGED <<peeker, blocks, pc, result, handedOut, maximum, candidateOffset>>
  <2>1. ValueAt(pos + i) <= maximum
    BY <1>2, <1>5 DEF IsRecord
  <2>2. UNCHANGED history
    BY <1>1, <1>5 DEF history
  <2>3. /\ i' \in i .. ValueCount /\ pos + i' <= Candidate + WindowSize
        /\ \A o \in Scanned .. (pos + i' - 1) : o = pos + i
    BY <1>1, <1>2, <1>5, InBlock
  <2>4. end' \in i' .. ValueCount
    <3>1. end \in 0 .. ValueCount
      BY <1>1 DEF IInv, TypeOK
    <3> QED
      BY <1>1, <1>2, <1>5, <3>1, InBlock
  <2>5. \A o \in Scanned .. (pos + i' - 1) : ValueAt(o) <= maximum
    BY <2>1, <2>3
  <2> QED
    BY <1>1, <1>5, <2>2, <2>3, <2>4, <2>5, GoesOnIInv
<1> QED
    BY <1>3, <1>4, <1>5 DEF ScanValue

\* The values of a block are consumed, the bytes after them looked at again.
LEMMA EndBlockIInv ==
    ASSUME IInv, EndBlock
    PROVE  IInv'
<1>1. /\ pc = "stretch" /\ i >= ValueCount
      /\ UNCHANGED <<file, block, begin, regionSize, maximum, candidateOffset,
                     initialized, i, end>>
      /\ UNCHANGED <<fileSize, byte, dataLen, reachedEOF>>
    BY DEF EndBlock, file, block
<1>2. i = ValueCount /\ ValueCount \in Nat /\ ValueCount > 0 /\ initialized /\ Scanned = pos + i
      /\ ValueCount <= dataLen
    BY <1>1, ScanFacts, InBlock
<1>3. CASE FinishChunk(dataLen) /\ UNCHANGED blockOffset
  <2>1. dataLen \in 0 .. dataLen
    BY <1>1, InBlock
  <2>2. ScanTypeOK'
    BY <1>1, <1>3, ScanTypeKept
  <2> QED
    BY <1>1, <1>3, <2>1, <2>2, FinishIInv
<1>4. CASE blockOffset' = blockOffset + ValueCount /\ ConsumeBlock(ValueCount)
  <2>1. /\ ownedChunk' = ownedChunk + ValueCount
        /\ previousChunkSizeBytes' = previousChunkSizeBytes
        /\ DiscardOrFail(ValueCount, pc' = "peek" /\ UNCHANGED <<result, handedOut>>)
    BY <1>4 DEF ConsumeBlock
  <2>2. ScanTypeOK'
    <3>1. MaximumValue' = MaximumValue
      BY <1>1, SameValues
    <3>2. blockOffset' \in Nat
      BY <1>1, <1>2, <1>4, InBlock
    <3> QED
      BY <1>1, <3>1, <3>2 DEF IInv, TypeOK, ScanTypeOK
  <2>3. CASE pos' = pos + ValueCount /\ UNCHANGED faults /\ pc' = "peek"
             /\ UNCHANGED <<result, handedOut>>
    <3>1. TypeOK'
      <4>1. BlocksTypeOK'
        BY <1>1, <1>2, <2>1, <2>3, InBlock DEF IInv, TypeOK, BlocksTypeOK
      <4> QED
        BY <2>2, <2>3, <4>1 DEF TypeOK, ScanTypeOK
    <3>2. BlocksAreAligned' /\ BlockIsOfFile'
      BY <1>1, <1>2, <2>1, <2>3, InBlock DEF BlocksAreAligned, BlockIsOfFile
    <3>3. ScanIsAligned' /\ CandidateStarts'
      <4>1. blockOffset' = ownedChunk' /\ ownedChunk' > 0
        BY <1>1, <1>2, <1>4, <2>1, InBlock
      <4> QED
        BY <1>1, <1>2, <2>3, <4>1 DEF ScanIsAligned, CandidateStarts
    <3>4. Scanned' = Scanned
      BY <1>1, <1>2, <2>3 DEF Scanned
    <3>5. CandidateIsRecord' /\ NoEarlierExtremum'
      BY <1>1, <2>3, <3>4, SameScan
    <3> QED
      BY <3>1, <3>2, <3>3, <3>5 DEF IInv
  <2>4. CASE /\ faults < MaxFaults /\ faults' = faults + 1
             /\ \E discarded \in 0 .. (ValueCount - 1) : pos' = pos + discarded
             /\ Return("error") /\ UNCHANGED handedOut
    <3>1. PICK discarded \in 0 .. (ValueCount - 1) : pos' = pos + discarded
      BY <2>4
    <3>2. TypeOK'
      <4>1. BlocksTypeOK'
        BY <1>1, <1>2, <2>1, <2>4, <3>1, InBlock DEF IInv, TypeOK, BlocksTypeOK, Return
      <4> QED
        BY <2>2, <2>4, <4>1 DEF TypeOK, ScanTypeOK, Return
    <3>3. BlocksAreAligned'
      BY <1>1, <1>2, <2>1, <2>4, <3>1, InBlock DEF BlocksAreAligned, Return
    <3> QED
      BY <2>4, <3>2, <3>3, IdleIInv DEF Return
  <2> QED
    BY <2>1, <2>3, <2>4 DEF DiscardOrFail
<1> QED
    BY <1>3, <1>4 DEF EndBlock

\* Every step preserves the invariant.
LEMMA NextIInv ==
    ASSUME IInv, [Next]_vars
    PROVE  IInv'
<1>1. CASE UNCHANGED vars
  <2>1. UNCHANGED <<fileSize, byte, pos, faults, previousChunkSizeBytes, ownedChunk, pc, result,
                    dataLen, reachedEOF, begin, handedOut, regionSize, maximum,
                    candidateOffset, blockOffset, initialized, i, end>>
    BY <1>1 DEF vars, file, peeker, blocks, block, history, scan
  <2>2. (\A o : ValueAt(o)' = ValueAt(o)) /\ MaximumValue' = MaximumValue
        /\ ValueCount' = ValueCount /\ Scanned' = Scanned /\ Candidate' = Candidate
    BY <2>1, SameValues DEF ValueCount, Scanned, Candidate
  <2>3. TypeOK' /\ BlocksAreAligned' /\ BlockIsOfFile'
    BY <2>1, <2>2 DEF IInv, TypeOK, BlocksTypeOK, BlocksAreAligned, BlockIsOfFile
  <2>4. ScanIsAligned' /\ CandidateStarts'
    BY <2>1, <2>2 DEF IInv, ScanIsAligned, CandidateStarts
  <2>5. CandidateIsRecord' /\ NoEarlierExtremum'
    BY <2>1, <2>2 DEF IInv, CandidateIsRecord, NoEarlierExtremum
  <2> QED
    BY <2>3, <2>4, <2>5 DEF IInv
<1> QED
    BY <1>1, BeginIInv, BlockStepIInv, StartBlockIInv, SkipToDeadlineIInv, SkipToTopIInv,
       StartStretchIInv, ScanValueIInv, EndStretchIInv, EndBlockIInv DEF Next

-----------------------------------------------------------------------------
\* A chunk is the one of the rule

\* The records that stand: one of the sets that RuleChunkSize looks at.
Extrema(start) ==
    {c \in start .. (fileSize - regionSize - WindowSize) :
        /\ \A o \in start .. (c - 1) : ValueAt(o) < ValueAt(c)
        /\ \A o \in (c + 1) .. (c + WindowSize) : ValueAt(o) <= ValueAt(c)}

\* The rule by the values that stand up to their deadline.
LEMMA RuleIs ==
    ASSUME NEW start
    PROVE  RuleChunkSize(start)
             = IF Extrema(start) = {} THEN fileSize - start
               ELSE Min(Extrema(start)) + WindowSize + 1 - start
BY DEF RuleChunkSize, Extrema

\* Nothing before the candidate is among them.
LEMMA NoneBeforeCandidate ==
    ASSUME IInv, pc # "idle", initialized,
           NEW c \in Extrema(begin), c < Candidate
    PROVE  FALSE
<1>1. /\ begin \in Nat /\ candidateOffset \in Nat /\ fileSize \in Nat /\ regionSize \in Nat
      /\ WindowSize \in Nat
    BY RegionSizesAssumption, WindowAssumption, FilesAssumption DEF IInv, TypeOK, BlocksTypeOK
<1>2. /\ c \in begin .. (fileSize - regionSize - WindowSize)
      /\ \A o \in begin .. (c - 1) : ValueAt(o) < ValueAt(c)
      /\ \A o \in (c + 1) .. (c + WindowSize) : ValueAt(o) <= ValueAt(c)
    BY DEF Extrema
<1>3. c \in begin .. (Candidate - 1)
    BY <1>1, <1>2 DEF Candidate
<1>4. PICK o \in (c + 1) .. (c + WindowSize) : o <= Candidate /\ ValueAt(c) < ValueAt(o)
    BY <1>2, <1>3 DEF IInv, NoEarlierExtremum
<1>5. ValueAt(o) \in Nat /\ ValueAt(c) \in Nat
  <2>1. /\ o \in Nat /\ c \in Nat /\ o + regionSize <= fileSize /\ c + regionSize <= fileSize
    BY <1>1, <1>2, <1>4
  <2>2. MaximumValue \in Nat
    BY <1>1, LittleEndianIsMonotone DEF MaximumValue
  <2> QED
    BY <2>1, <2>2, ValuesAreBounded DEF IInv
<1> QED
    BY <1>2, <1>4, <1>5

\* A chunk that ends at the candidate's deadline.
LEMMA DeadlineRuleHolds ==
    ASSUME IInv, pc \in {"stretch", "values"},
           Candidate + WindowSize + regionSize <= fileSize,
           \A o \in (Candidate + 1) .. (Candidate + WindowSize) : ValueAt(o) <= maximum
    PROVE  RuleChunkSize(begin) = Candidate + WindowSize + 1 - begin
<1>1. Candidate \in Extrema(begin)
    BY ScanFacts, InBlock DEF Extrema, Candidate
<1>2. Extrema(begin) \in SUBSET Int
    BY InBlock DEF Extrema
<1>3. \A c \in Extrema(begin) : Candidate <= c
    BY <1>2, NoneBeforeCandidate, ScanFacts
<1>4. Min(Extrema(begin)) = Candidate
    BY <1>1, <1>2, <1>3, MinimumIs
<1> QED
    BY <1>1, <1>4, RuleIs

\* A file whose values are all scanned ends with a chunk.
LEMMA FileRuleHolds ==
    ASSUME IInv, pc \in {"block", "stretch", "values"},
           \/ initialized /\ fileSize - regionSize < Scanned
           \/ ~ initialized /\ fileSize - regionSize < begin
    PROVE  RuleChunkSize(begin) = fileSize - begin
<1>1. Extrema(begin) = {}
  <2> SUFFICES ASSUME NEW c \in Extrema(begin) PROVE FALSE
    OBVIOUS
  <2>1. /\ c \in begin .. (fileSize - regionSize - WindowSize)
        /\ \A o \in begin .. (c - 1) : ValueAt(o) < ValueAt(c)
    BY DEF Extrema
  <2>2. CASE initialized
    <3>1. /\ Candidate < Scanned /\ Scanned <= Candidate + WindowSize
          /\ maximum = ValueAt(Candidate)
          /\ \A o \in (Candidate + 1) .. (Scanned - 1) : ValueAt(o) <= maximum
      BY <2>2 DEF IInv, CandidateIsRecord
    <3>2. Candidate \in Nat /\ begin <= Candidate
      BY InBlock DEF Candidate
    <3>3. Scanned \in Int
      BY <2>2, InBlock, ScanFacts DEF Scanned
    <3>4. ~ (c < Candidate)
      BY <2>2, NoneBeforeCandidate
    <3>5. c # Candidate
      BY <2>1, <2>2, <3>1, <3>2, <3>3, InBlock
    <3>6. c \in (Candidate + 1) .. (Scanned - 1) /\ Candidate \in begin .. (c - 1)
      BY <2>1, <2>2, <3>2, <3>3, <3>4, <3>5, InBlock
    <3>7. ValueAt(c) <= ValueAt(Candidate) /\ ValueAt(Candidate) < ValueAt(c)
      BY <2>1, <3>1, <3>6
    <3>8. ValueAt(c) \in Nat /\ ValueAt(Candidate) \in Nat
      <4>1. /\ c \in Nat /\ c + regionSize <= fileSize /\ Candidate + regionSize <= fileSize
        BY <2>1, <3>2, <3>6, InBlock
      <4>2. MaximumValue \in Nat
        <5>1. regionSize \in Nat
          BY <2>1, InBlock
        <5> QED
          BY <5>1, TopAssumption, LittleEndianIsMonotone DEF MaximumValue
      <4> QED
        BY <3>2, <4>1, <4>2, ValuesAreBounded DEF IInv
    <3> QED
      BY <3>7, <3>8
  <2>3. CASE ~ initialized
    BY <2>1, <2>3, InBlock
  <2> QED
    BY <2>2, <2>3
<1> QED
    BY <1>1, RuleIs

\* What a finished chunk adds to what was handed out.
LEMMA FinishedSize ==
    ASSUME IInv, pc \in {"block", "stretch", "values"}, NEW n \in 0 .. dataLen,
           FinishChunk(n), handedOut' # handedOut
    PROVE  handedOut' - handedOut = ownedChunk + n
<1>1. CASE ownedChunk = 0
    BY <1>1, InBlock DEF FinishChunk
<1>2. CASE ownedChunk > 0
  <2>1. ownedChunk' = ownedChunk + n
        /\ DiscardOrFail(n, Return("chunk") /\ handedOut' = handedOut + ownedChunk')
    BY <1>2 DEF FinishChunk
  <2>2. handedOut' = handedOut + ownedChunk'
    BY <2>1 DEF DiscardOrFail
  <2> QED
    BY <2>1, <2>2, InBlock
<1> QED
    BY <1>1, <1>2, InBlock

\* A finished chunk is no end of the file.
LEMMA FinishedIsChunk ==
    ASSUME NEW n, FinishChunk(n)
    PROVE  result' # "eof"
BY DEF FinishChunk, DiscardOrFail, Return

\* A chunk that ends within the block follows the rule if its size does.
LEMMA FinishFollowsRule ==
    ASSUME IInv, pc \in {"block", "stretch", "values"}, NEW n \in 0 .. dataLen,
           FinishChunk(n), RuleChunkSize(begin) = pos + n - begin
    PROVE  FollowsRule
<1>1. RuleChunkSize(begin) = ownedChunk + n
    BY InBlock
<1> QED
    BY <1>1, FinishedSize, FinishedIsChunk DEF FollowsRule

\* A file that ends with the block before.
LEMMA EmptyBlockFollowsRule ==
    ASSUME IInv, EmptyBlock
    PROVE  FollowsRule
<1>1. pc = "block" /\ dataLen = 0
    BY DEF EmptyBlock
<1>2. pos = fileSize
    BY <1>1, InBlock DEF IInv, BlockIsOfFile
<1>3. CASE ownedChunk = 0 /\ handedOut' = handedOut
    BY <1>1, <1>2, <1>3, InBlock DEF FollowsRule
<1>4. CASE ownedChunk > 0 /\ FinishChunk(0)
  <2>1. initialized /\ Scanned = pos /\ fileSize - regionSize < Scanned
    BY <1>1, <1>2, <1>4, InBlock DEF IInv, ScanIsAligned, Scanned
  <2>2. RuleChunkSize(begin) = pos + 0 - begin
    BY <1>1, <1>2, <2>1, InBlock, FileRuleHolds
  <2>3. 0 \in 0 .. dataLen
    BY <1>1, InBlock
  <2> QED
    BY <1>1, <1>4, <2>2, <2>3, FinishFollowsRule
<1> QED
    BY <1>3, <1>4 DEF EmptyBlock

\* A file that ends within a region.
LEMMA ShortBlockFollowsRule ==
    ASSUME IInv, ShortBlock
    PROVE  FollowsRule
<1>1. pc = "block" /\ dataLen > 0 /\ ValueCount <= 0 /\ reachedEOF /\ FinishChunk(dataLen)
    BY DEF ShortBlock
<1>2. pos + dataLen = fileSize
    BY <1>1, InBlock DEF IInv, BlockIsOfFile
<1>3. Scanned = pos /\ fileSize - regionSize < pos
    BY <1>1, <1>2, InBlock DEF Scanned
<1>4. ~ initialized => begin = pos
    BY <1>1, InBlock DEF IInv, ScanIsAligned
<1>5. RuleChunkSize(begin) = pos + dataLen - begin
    BY <1>1, <1>2, <1>3, <1>4, InBlock, FileRuleHolds
<1>6. dataLen \in 0 .. dataLen
    BY <1>1, InBlock
<1> QED
    BY <1>1, <1>5, <1>6, FinishFollowsRule

\* The deadline of the largest value, reached at once.
LEMMA SkipToDeadlineFollowsRule ==
    ASSUME IInv, SkipToDeadline
    PROVE  FollowsRule
<1>1. pc = "stretch" /\ i < ValueCount /\ maximum = MaximumValue
    BY DEF SkipToDeadline
<1>2. CASE handedOut' = handedOut
    BY <1>1, <1>2 DEF FollowsRule
<1>3. CASE StretchEnd - i = ValuesThroughDeadline /\ FinishChunk(StretchEnd)
  <2>1. /\ StretchEnd \in (i + 1) .. ValueCount
        /\ pos + StretchEnd = Candidate + WindowSize + 1
    BY <1>1, <1>3, StretchBounds
  <2>2. StretchEnd \in Nat /\ StretchEnd <= ValueCount /\ i <= StretchEnd
        /\ StretchEnd \in 0 .. dataLen /\ pos + StretchEnd - 1 = Candidate + WindowSize
    BY <1>1, <2>1, ScanFacts, InBlock
  <2>3. \A o \in (Candidate + 1) .. (Candidate + WindowSize) : ValueAt(o) <= maximum
    BY <1>1, <2>2, MaximumStays, Skipped
  <2>4. Candidate + WindowSize + regionSize <= fileSize
    BY <1>1, <2>2, ScanFacts, InBlock
  <2>5. RuleChunkSize(begin) = pos + StretchEnd - begin
    <3>1. RuleChunkSize(begin) = Candidate + WindowSize + 1 - begin
      BY <1>1, <2>3, <2>4, DeadlineRuleHolds
    <3>2. /\ pos \in Int /\ begin \in Int /\ Candidate \in Int /\ WindowSize \in Int
          /\ StretchEnd \in Int
      BY <1>1, <2>2, ScanFacts, InBlock
    <3> QED
      BY <2>1, <3>1, <3>2
  <2> QED
    BY <1>1, <1>3, <2>2, <2>5, FinishFollowsRule
<1> QED
    BY <1>2, <1>3 DEF SkipToDeadline

\* The deadline of the candidate, reached value by value.
LEMMA ScanValueFollowsRule ==
    ASSUME IInv, ScanValue
    PROVE  FollowsRule
<1>1. pc = "values" /\ i < end
    BY DEF ScanValue
<1>2. CASE handedOut' = handedOut
    BY <1>1, <1>2 DEF FollowsRule
<1>3. CASE /\ ~ IsRecord(ValueAt(pos + i)) /\ DistanceFromCandidate = WindowSize
           /\ FinishChunk(i + 1)
  <2>1. /\ i < ValueCount /\ i \in Nat /\ Scanned = pos + i /\ maximum \in Nat
        /\ ValueAt(pos + i) \in Nat /\ Scanned = Candidate + WindowSize
    BY <1>1, <1>3, ValueFacts, ScanFacts, InBlock
  <2>2. ValueAt(pos + i) <= maximum
    BY <1>3, <2>1 DEF IsRecord
  <2>3. \A o \in Scanned .. (pos + (i + 1) - 1) : ValueAt(o) <= maximum
    <3>1. \A o \in Scanned .. (pos + (i + 1) - 1) : o = pos + i
      BY <1>1, <2>1, InBlock
    <3> QED
      BY <2>2, <3>1
  <2>4. i + 1 \in Nat /\ i <= i + 1 /\ i + 1 <= ValueCount /\ i + 1 \in 0 .. dataLen
        /\ pos + (i + 1) - 1 = Candidate + WindowSize
    BY <1>1, <2>1, InBlock
  <2>5. \A o \in (Candidate + 1) .. (Candidate + WindowSize) : ValueAt(o) <= maximum
    BY <1>1, <2>3, <2>4, Skipped
  <2>6. Candidate + WindowSize + regionSize <= fileSize
        /\ Candidate + WindowSize + 1 = pos + (i + 1)
    BY <1>1, <2>1, ScanFacts, InBlock
  <2>7. RuleChunkSize(begin) = pos + (i + 1) - begin
    <3>1. RuleChunkSize(begin) = Candidate + WindowSize + 1 - begin
      BY <1>1, <2>5, <2>6, DeadlineRuleHolds
    <3>2. /\ pos \in Int /\ begin \in Int /\ Candidate \in Int /\ WindowSize \in Int
          /\ i \in Int
      BY <1>1, <2>1, ScanFacts, InBlock
    <3> QED
      BY <2>6, <3>1, <3>2
  <2> QED
    BY <1>1, <1>3, <2>4, <2>7, FinishFollowsRule
<1> QED
    BY <1>2, <1>3 DEF ScanValue

\* A file that ends before the deadline.
LEMMA EndBlockFollowsRule ==
    ASSUME IInv, EndBlock
    PROVE  FollowsRule
<1>1. pc = "stretch" /\ i >= ValueCount
    BY DEF EndBlock
<1>2. CASE reachedEOF /\ FinishChunk(dataLen)
  <2>1. pos + dataLen = fileSize
    BY <1>1, <1>2, InBlock DEF IInv, BlockIsOfFile
  <2>2. initialized /\ fileSize - regionSize < Scanned
    BY <1>1, <2>1, ScanFacts, InBlock
  <2>3. RuleChunkSize(begin) = pos + dataLen - begin
    <3>1. pc \in {"block", "stretch", "values"}
      BY <1>1
    <3>2. RuleChunkSize(begin) = fileSize - begin
      BY <2>2, <3>1, FileRuleHolds
    <3>3. pos \in Int /\ dataLen \in Int /\ fileSize \in Int /\ begin \in Int
      BY <1>1, InBlock
    <3> QED
      BY <2>1, <3>2, <3>3
  <2>4. dataLen \in 0 .. dataLen
    BY <1>1, InBlock
  <2> QED
    BY <1>1, <1>2, <2>3, <2>4, FinishFollowsRule
<1>3. ConsumeBlock(ValueCount) => handedOut' = handedOut
    BY DEF ConsumeBlock, DiscardOrFail
<1> QED
    BY <1>1, <1>2, <1>3 DEF EndBlock, FollowsRule

\* Every step hands out the chunk of the rule or none.
LEMMA NextFollowsRule ==
    ASSUME IInv, [Next]_vars
    PROVE  [FollowsRule]_vars
<1>1. CASE Begin
    BY <1>1 DEF Begin, BeginRead, FollowsRule
<1>2. CASE BeginFails
    BY <1>2 DEF BeginFails, history, FollowsRule
<1>3. CASE PeekFails
    BY <1>3 DEF PeekFails, history, FollowsRule
<1>4. CASE PeekBlock
    BY <1>4 DEF PeekBlock, history, FollowsRule
<1>5. CASE StartBlock \/ SkipToTop \/ StartStretch \/ EndStretch
    BY <1>5 DEF StartBlock, SkipToTop, StartStretch, EndStretch, history, FollowsRule
<1> QED
    BY <1>1, <1>2, <1>3, <1>4, <1>5, EmptyBlockFollowsRule, ShortBlockFollowsRule,
       SkipToDeadlineFollowsRule, ScanValueFollowsRule, EndBlockFollowsRule
    DEF Next, BlockStep

-----------------------------------------------------------------------------
\* The inductive invariant of the RAM readers

\* A block is what the Peeker has at the position, and shorter than asked for
\* only at the end of the file.
RAMBlockIsOfFile ==
    pc \in {"block", "bytes"} =>
        /\ dataLen = (IF fileSize - pos < RAMPeekSize THEN fileSize - pos ELSE RAMPeekSize)
        /\ reachedEOF <=> (fileSize - pos < RAMPeekSize)

\* The blocks before this one were copied; the chunk has not reached its limit.
RAMScanIsAligned ==
    /\ pc # "idle" => /\ blockOffset = ownedChunk
                      /\ initialized <=> (ownedChunk > 0 \/ pc = "bytes")
    /\ pc \in {"peek", "block"} /\ RAM!IsLimited => ownedChunk < maximumChunkSize
    /\ pc = "bytes" =>
          /\ dataLen > 0
          /\ end = dataLen \/ (RAM!IsLimited /\ ownedChunk + end = maximumChunkSize)
          /\ RAM!IsLimited => ownedChunk + end <= maximumChunkSize

\* The first byte that was not compared with the maximum.
RAMScanned == IF pc = "bytes" THEN pos + i ELSE pos

\* The maximum is that of the bytes of the window, wherever they were read.
RAMWindowIsSeen ==
    pc # "idle" /\ initialized =>
        /\ begin + WindowSize <= RAMScanned
        /\ \A w \in begin .. (begin + WindowSize - 1) : byte[w] <= maximum
        /\ \E w \in begin .. (begin + WindowSize - 1) : byte[w] = maximum

\* No byte from the window up to there ends the chunk.
RAMNoEndYet ==
    pc # "idle" /\ initialized =>
        \A o \in (begin + WindowSize) .. (RAMScanned - 1) : byte[o] < maximum

RAMIInv ==
    /\ RAM!TypeOK
    /\ RAM!BlocksAreAligned
    /\ RAMBlockIsOfFile
    /\ RAMScanIsAligned
    /\ RAMWindowIsSeen
    /\ RAMNoEndYet

USE RAMConstants

-----------------------------------------------------------------------------
\* Smallest and largest members

\* There is one smallest member.
LEMMA SameMin ==
    ASSUME NEW S
    PROVE  RAM!Min(S) = Min(S)
BY DEF Min, RAM!Min

\* What holds of one smallest member holds of the other.
LEMMA RAMMinimum ==
    ASSUME NEW S \in SUBSET Nat, S # {}
    PROVE  RAM!Min(S) \in S /\ \A y \in S : RAM!Min(S) <= y
<1>1. RAM!Min(S) = Min(S)
    BY SameMin
<1>2. Min(S) \in S /\ \A y \in S : Min(S) <= y
    BY Minimum
<1> QED
    BY <1>1, <1>2

\* The smallest member is the one that is.
LEMMA RAMMinimumIs ==
    ASSUME NEW S \in SUBSET Int, NEW x \in S, \A y \in S : x <= y
    PROVE  RAM!Min(S) = x
<1>1. RAM!Min(S) = Min(S)
    BY SameMin
<1>2. Min(S) = x
    BY MinimumIs
<1> QED
    BY <1>1, <1>2

\* Bytes have a largest one: the smallest bound of all of them is among them.
LEMMA RAMMaximum ==
    ASSUME NEW S \in SUBSET (0 .. Top), S # {}
    PROVE  RAM!Max(S) \in S /\ \A y \in S : y <= RAM!Max(S)
<1> DEFINE D == {b \in 0 .. Top : \A y \in S : y <= b}
           m == RAM!Min(D)
<1>1. D # {} /\ D \in SUBSET Nat
  <2>1. Top \in D
    OBVIOUS
  <2> QED
    BY <2>1
<1>2. m \in D /\ \A b \in D : m <= b
  <2> HIDE DEF D
  <2> QED
    BY <1>1, RAMMinimum
<1>3. m \in S
  <2> HIDE DEF m
  <2> SUFFICES ASSUME m \notin S PROVE FALSE
    OBVIOUS
  <2>1. \A y \in S : y <= m - 1
    BY <1>2
  <2>2. PICK y \in S : TRUE
    OBVIOUS
  <2>3. m - 1 \in 0 .. Top
    BY <1>2, <2>1, <2>2
  <2>4. m - 1 \in D
    BY <2>1, <2>3
  <2> QED
    BY <1>2, <2>4
<1>4. \A y \in S : m >= y
    BY <1>2
<1> HIDE DEF m
<1>5. RAM!Max(S) \in S /\ \A y \in S : RAM!Max(S) >= y
    BY <1>3, <1>4 DEF RAM!Max
<1> QED
    BY <1>5

-----------------------------------------------------------------------------
\* The scan of a block and the end of a chunk

\* What a block is scanned to.
LEMMA RAMEndOfScanBounds ==
    ASSUME RAMIInv, pc = "block", dataLen > 0
    PROVE  /\ RAM!EndOfScan \in 1 .. dataLen
           /\ \/ RAM!EndOfScan = dataLen
              \/ RAM!IsLimited /\ ownedChunk + RAM!EndOfScan = maximumChunkSize
           /\ RAM!IsLimited => ownedChunk + RAM!EndOfScan <= maximumChunkSize
<1>1. /\ dataLen \in Nat /\ ownedChunk \in Nat /\ maximumChunkSize \in Nat
      /\ blockOffset = ownedChunk
      /\ RAM!IsLimited => ownedChunk < maximumChunkSize
    BY DEF RAM!RAMAssumption, RAMIInv, RAM!TypeOK, RAM!BlocksTypeOK, RAMScanIsAligned
<1>2. CASE ~ RAM!IsLimited
    BY <1>1, <1>2 DEF RAM!EndOfScan
<1>3. CASE RAM!IsLimited
  <2> DEFINE rest == maximumChunkSize - blockOffset
             S == {dataLen, rest}
  <2>1. RAM!EndOfScan = RAM!Min(S)
    BY <1>3 DEF RAM!EndOfScan
  <2>2. rest \in Nat /\ rest > 0
    BY <1>1, <1>3
  <2>3. CASE dataLen <= rest
    <3>1. RAM!Min(S) = dataLen
      BY <1>1, <2>2, <2>3, RAMMinimumIs
    <3> QED
      BY <1>1, <2>1, <2>3, <3>1
  <2>4. CASE ~ (dataLen <= rest)
    <3>1. RAM!Min(S) = rest
      BY <1>1, <2>2, <2>4, RAMMinimumIs
    <3> QED
      BY <1>1, <1>3, <2>1, <2>2, <2>4, <3>1
  <2> QED
    BY <2>3, <2>4
<1> QED
    BY <1>2, <1>3

\* The bytes that are as large as all of the window are those that reach the
\* maximum.
LEMMA RAMLargestReachMaximum ==
    ASSUME RAMIInv, pc # "idle", initialized,
           NEW o \in (begin + WindowSize) .. (fileSize - 1)
    PROVE  (\A w \in begin .. (begin + WindowSize - 1) : byte[w] <= byte[o])
           <=> maximum <= byte[o]
<1>1. /\ \A w \in begin .. (begin + WindowSize - 1) : byte[w] <= maximum
      /\ \E w \in begin .. (begin + WindowSize - 1) : byte[w] = maximum
    BY DEF RAMIInv, RAMWindowIsSeen
<1>2. /\ begin \in Nat /\ WindowSize \in Nat /\ fileSize \in Nat /\ maximum \in Nat
      /\ \A p \in 0 .. (fileSize - 1) : byte[p] \in Nat
    BY DEF RAM!RAMAssumption, RAMIInv, RAM!TypeOK, RAM!BlocksTypeOK
<1>3. /\ byte[o] \in Nat
      /\ \A w \in begin .. (begin + WindowSize - 1) : byte[w] \in Nat
    BY <1>2
<1> QED
    BY <1>1, <1>2, <1>3

\* A size that a byte, the limit or the file allows, and before which no byte
\* ends the chunk, is the one of the rule.
LEMMA RAMRuleHolds ==
    ASSUME RAMIInv, pc # "idle", initialized, NEW n \in Nat,
           begin + n <= fileSize, n >= WindowSize,
           RAM!IsLimited => n <= maximumChunkSize,
           \A o \in (begin + WindowSize) .. (begin + n - 2) : byte[o] < maximum,
           \/ n > WindowSize /\ maximum <= byte[begin + n - 1]
           \/ begin + n = fileSize /\ (n > WindowSize => byte[begin + n - 1] < maximum)
           \/ /\ RAM!IsLimited /\ n = maximumChunkSize
              /\ n > WindowSize => byte[begin + n - 1] < maximum
    PROVE  n = RAM!RuleChunkSize(begin)
<1> DEFINE largest(o) == \A w \in begin .. (begin + WindowSize - 1) : byte[w] <= byte[o]
           ends == {o \in (begin + WindowSize) .. (fileSize - 1) : largest(o)}
           sizes == {fileSize - begin} \cup {o + 1 - begin : o \in ends}
                      \cup IF RAM!IsLimited THEN {maximumChunkSize} ELSE {}
<1>1. /\ begin \in Nat /\ WindowSize \in Nat /\ fileSize \in Nat /\ maximum \in Nat
      /\ maximumChunkSize \in Nat /\ WindowSize > 0
      /\ \A p \in 0 .. (fileSize - 1) : byte[p] \in Nat
    BY DEF RAM!RAMAssumption, RAMIInv, RAM!TypeOK, RAM!BlocksTypeOK
<1>2. \A o \in (begin + WindowSize) .. (fileSize - 1) : largest(o) <=> maximum <= byte[o]
    BY RAMLargestReachMaximum
<1> HIDE DEF largest
<1>3. \A o \in ends : n <= o + 1 - begin
  <2> SUFFICES ASSUME NEW o \in ends, ~ (n <= o + 1 - begin) PROVE FALSE
    OBVIOUS
  <2>1. /\ o \in (begin + WindowSize) .. (fileSize - 1) /\ maximum <= byte[o]
        /\ byte[o] \in Nat
    BY <1>1, <1>2
  <2>2. o \in (begin + WindowSize) .. (begin + n - 2)
    BY <1>1, <2>1
  <2> QED
    BY <1>1, <2>1, <2>2
<1>4. sizes \in SUBSET Int
    BY <1>1
<1>5. n \in sizes
  <2>1. CASE n > WindowSize /\ maximum <= byte[begin + n - 1]
    <3>1. begin + n - 1 \in (begin + WindowSize) .. (fileSize - 1)
      BY <1>1, <2>1
    <3>2. begin + n - 1 \in ends
      BY <1>2, <2>1, <3>1
    <3>3. n = (begin + n - 1) + 1 - begin
      BY <1>1
    <3> HIDE DEF ends
    <3> QED
      BY <3>2, <3>3
  <2>2. CASE begin + n = fileSize
    BY <1>1, <2>2
  <2>3. CASE RAM!IsLimited /\ n = maximumChunkSize
    BY <2>3
  <2> QED
    BY <2>1, <2>2, <2>3
<1>6. \A y \in sizes : n <= y
    BY <1>1, <1>3
<1>7. RAM!RuleChunkSize(begin) = RAM!Min(sizes)
    BY DEF RAM!RuleChunkSize, largest
<1> HIDE DEF sizes
<1> QED
    BY <1>4, <1>5, <1>6, <1>7, RAMMinimumIs

\* A file that ends within the window is a chunk.
LEMMA RAMShortRuleHolds ==
    ASSUME RAMIInv, begin + WindowSize >= fileSize
    PROVE  fileSize - begin = RAM!RuleChunkSize(begin)
<1> DEFINE n == fileSize - begin
           sizes == {n} \cup IF RAM!IsLimited THEN {maximumChunkSize} ELSE {}
<1>1. /\ begin \in Nat /\ WindowSize \in Nat /\ fileSize \in Nat /\ WindowSize > 0
      /\ begin <= fileSize
      /\ RAM!IsLimited => maximumChunkSize = 4 * WindowSize
    BY DEF RAM!RAMAssumption, RAMIInv, RAM!TypeOK, RAM!BlocksTypeOK, RAM!IsLimited
<1>2. (begin + WindowSize) .. (fileSize - 1) = {}
    BY <1>1
<1>3. RAM!RuleChunkSize(begin) = RAM!Min(sizes)
  <2>1. {o \in (begin + WindowSize) .. (fileSize - 1) :
           \A w \in begin .. (begin + WindowSize - 1) : byte[w] <= byte[o]} = {}
    BY <1>2
  <2> QED
    BY <2>1 DEF RAM!RuleChunkSize
<1>4. sizes \in SUBSET Int /\ n \in sizes /\ \A y \in sizes : n <= y
    BY <1>1
<1> HIDE DEF sizes, n
<1>5. RAM!Min(sizes) = n
    BY <1>4, RAMMinimumIs
<1> QED
    BY <1>3, <1>5 DEF n

-----------------------------------------------------------------------------
\* The steps

\* The invariant holds at the start.
LEMMA RAMInitIInv == RAM!Init => RAMIInv
<1> SUFFICES ASSUME RAM!Init PROVE RAMIInv
    OBVIOUS
<1>1. fileSize \in Nat /\ byte \in [0 .. (fileSize - 1) -> 0 .. Top]
    BY DEF RAM!Init, RAM!RAMAssumption
<1>2. RAM!TypeOK
  <2>1. reachedEOF \in BOOLEAN /\ initialized \in BOOLEAN
    BY Zenon DEF RAM!Init, RAM!InitBlocks
  <2>2. RAM!BlocksTypeOK
    BY <1>1, <2>1 DEF RAM!Init, RAM!InitBlocks, RAM!BlocksTypeOK
  <2>3. maximumChunkSize \in MaximumChunkSizes /\ maximum = 0 /\ blockOffset = 0 /\ pc = "idle"
    BY DEF RAM!Init, RAM!InitBlocks
  <2> QED
    BY <2>1, <2>2, <2>3 DEF RAM!TypeOK
<1>3. RAM!BlocksAreAligned /\ RAMBlockIsOfFile /\ RAMScanIsAligned /\ RAMWindowIsSeen /\ RAMNoEndYet
    BY DEF RAM!Init, RAM!InitBlocks, RAM!BlocksAreAligned, RAMBlockIsOfFile, RAMScanIsAligned,
       RAMWindowIsSeen,
       RAMNoEndYet
<1> QED
    BY <1>2, <1>3 DEF RAMIInv

\* Between calls only the alignment matters.
LEMMA RAMIdleIInv ==
    ASSUME pc' = "idle", RAM!TypeOK', RAM!BlocksAreAligned'
    PROVE  RAMIInv'
BY DEF RAMIInv, RAMBlockIsOfFile, RAMScanIsAligned, RAMWindowIsSeen, RAMNoEndYet

\* The bytes that are discarded are in the file.
LEMMA RAMInBlock ==
    ASSUME RAMIInv, pc \in {"block", "bytes"}
    PROVE  /\ pos \in Nat /\ dataLen \in Nat /\ pos + dataLen <= fileSize /\ fileSize \in Nat
           /\ ownedChunk \in Nat /\ begin \in Nat /\ handedOut \in Nat
           /\ pos = begin + ownedChunk /\ previousChunkSizeBytes = 0
           /\ faults \in 0 .. MaxFaults
           /\ faults = 0 => pos = handedOut + ownedChunk
BY DEF RAMIInv, RAM!TypeOK, RAM!BlocksTypeOK, RAMBlockIsOfFile, RAM!BlocksAreAligned

\* A chunk that ends within the block, or a fault on the way, leaves the reader
\* aligned.
LEMMA RAMFinishIInv ==
    ASSUME RAMIInv, pc \in {"block", "bytes"}, NEW n \in 0 .. dataLen, RAM!FinishChunk(n),
           UNCHANGED <<RAM!file, RAM!block, begin, maximumChunkSize>>,
           maximum' \in 0 .. Top, blockOffset' \in Nat, initialized' \in BOOLEAN
    PROVE  RAMIInv'
<1>0. UNCHANGED <<fileSize, byte, dataLen, reachedEOF, begin, maximumChunkSize>>
    BY DEF RAM!file, RAM!block
<1>1. CASE ownedChunk = 0
  <2>1. /\ previousChunkSizeBytes' = n /\ handedOut' = handedOut + n
        /\ pc' = "idle" /\ result' = "chunk" /\ UNCHANGED <<pos, faults, ownedChunk>>
    BY <1>1, RAMInBlock DEF RAM!FinishChunk, RAM!Return, RAM!peeker
  <2>2. RAM!TypeOK'
    BY <1>0, <2>1, RAMInBlock DEF RAMIInv, RAM!TypeOK, RAM!BlocksTypeOK
  <2>3. RAM!BlocksAreAligned'
    BY <1>0, <1>1, <2>1, RAMInBlock DEF RAM!BlocksAreAligned
  <2> QED
    BY <2>1, <2>2, <2>3, RAMIdleIInv
<1>2. CASE ownedChunk > 0
  <2>1. /\ ownedChunk' = ownedChunk + n /\ previousChunkSizeBytes' = previousChunkSizeBytes
        /\ RAM!DiscardOrFail(n, RAM!Return("chunk") /\ handedOut' = handedOut + ownedChunk')
    BY <1>2 DEF RAM!FinishChunk
  <2>2. CASE pos' = pos + n /\ UNCHANGED faults /\ RAM!Return("chunk")
             /\ handedOut' = handedOut + ownedChunk'
    <3>1. RAM!TypeOK'
      BY <1>0, <2>1, <2>2, RAMInBlock DEF RAMIInv, RAM!TypeOK, RAM!BlocksTypeOK, RAM!Return
    <3>2. RAM!BlocksAreAligned'
      BY <1>0, <2>1, <2>2, RAMInBlock DEF RAM!BlocksAreAligned, RAM!Return
    <3> QED
      BY <2>2, <3>1, <3>2, RAMIdleIInv DEF RAM!Return
  <2>3. CASE /\ faults < MaxFaults /\ faults' = faults + 1
             /\ \E discarded \in 0 .. (n - 1) : pos' = pos + discarded
             /\ RAM!Return("error") /\ UNCHANGED handedOut
    <3>1. RAM!TypeOK'
      BY <1>0, <2>1, <2>3, RAMInBlock DEF RAMIInv, RAM!TypeOK, RAM!BlocksTypeOK, RAM!Return
    <3>2. RAM!BlocksAreAligned'
      BY <1>0, <2>1, <2>3, RAMInBlock DEF RAM!BlocksAreAligned, RAM!Return
    <3> QED
      BY <2>3, <3>1, <3>2, RAMIdleIInv DEF RAM!Return
  <2> QED
    BY <2>1, <2>2, <2>3 DEF RAM!DiscardOrFail
<1> QED
    BY <1>1, <1>2, RAMInBlock

\* A call discards the last chunk and starts a scan of its own.
LEMMA RAMBeginIInv ==
    ASSUME RAMIInv, RAM!Begin
    PROVE  RAMIInv'
<1>1. /\ pc = "idle" /\ pos' = pos + previousChunkSizeBytes /\ begin' = pos'
      /\ previousChunkSizeBytes' = 0 /\ ownedChunk' = 0 /\ pc' = "peek"
      /\ maximum' = 0 /\ blockOffset' = 0 /\ initialized' = FALSE
      /\ UNCHANGED <<fileSize, byte, faults, result, dataLen, reachedEOF, handedOut,
                     maximumChunkSize, i, end>>
    BY DEF RAM!Begin, RAM!BeginRead, RAM!file, RAM!block
<1>2. pos \in Nat /\ previousChunkSizeBytes \in Nat /\ fileSize \in Nat
      /\ pos + previousChunkSizeBytes <= fileSize
    BY <1>1 DEF RAMIInv, RAM!TypeOK, RAM!BlocksTypeOK, RAM!BlocksAreAligned
<1>3. RAM!TypeOK'
  <2>1. RAM!BlocksTypeOK'
    BY <1>1, <1>2 DEF RAMIInv, RAM!TypeOK, RAM!BlocksTypeOK
  <2>2. maximumChunkSize' \in MaximumChunkSizes
    BY <1>1 DEF RAMIInv, RAM!TypeOK
  <2>3. initialized' \in BOOLEAN
    BY <1>1, Zenon
  <2>4. maximum' = 0 /\ blockOffset' = 0 /\ pc' = "peek"
    BY <1>1
  <2> QED
    BY <2>1, <2>2, <2>3, <2>4 DEF RAM!TypeOK
<1>4. RAM!BlocksAreAligned'
    BY <1>1, <1>2 DEF RAMIInv, RAM!BlocksAreAligned
<1>5. RAMBlockIsOfFile' /\ RAMWindowIsSeen' /\ RAMNoEndYet'
    BY <1>1 DEF RAMBlockIsOfFile, RAMWindowIsSeen, RAMNoEndYet
<1>6. RAMScanIsAligned'
    BY <1>1 DEF RAMIInv, RAM!TypeOK, RAMScanIsAligned, RAM!IsLimited, RAM!RAMAssumption
<1> QED
    BY <1>3, <1>4, <1>5, <1>6 DEF RAMIInv

\* The steps that leave the scan as it is: faults, the next block, an end.
LEMMA RAMBlockStepIInv ==
    ASSUME RAMIInv, RAM!BlockStep
    PROVE  RAMIInv'
<1>0. UNCHANGED <<maximumChunkSize, maximum, blockOffset, initialized, i, end>>
    BY DEF RAM!BlockStep, RAM!scan
<1>1. CASE RAM!BeginFails
  <2>1. PICK discarded \in 0 .. (previousChunkSizeBytes - 1) :
            pos' = pos + discarded
            /\ previousChunkSizeBytes' = previousChunkSizeBytes - discarded
    BY <1>1 DEF RAM!BeginFails, RAM!RemainderOf
  <2>2. /\ pc = "idle" /\ pc' = "idle" /\ result' = "error"
        /\ faults < MaxFaults /\ faults' = faults + 1
        /\ UNCHANGED <<fileSize, byte, ownedChunk, dataLen, reachedEOF, begin, handedOut>>
    BY <1>1 DEF RAM!BeginFails, RAM!Return, RAM!file, RAM!block, RAM!history
  <2>3. pos \in Nat /\ previousChunkSizeBytes \in Nat /\ fileSize \in Nat /\ faults \in Nat
        /\ pos + previousChunkSizeBytes <= fileSize
    BY <2>2 DEF RAMIInv, RAM!TypeOK, RAM!BlocksTypeOK, RAM!BlocksAreAligned
  <2>4. RAM!TypeOK'
    BY <1>0, <2>1, <2>2, <2>3 DEF RAMIInv, RAM!TypeOK, RAM!BlocksTypeOK
  <2>5. RAM!BlocksAreAligned'
    BY <2>1, <2>2, <2>3 DEF RAM!BlocksAreAligned
  <2> QED
    BY <2>2, <2>4, <2>5, RAMIdleIInv
<1>2. CASE RAM!PeekFails
  <2>1. /\ pc = "peek" /\ pc' = "idle" /\ result' = "error"
        /\ faults < MaxFaults /\ faults' = faults + 1
        /\ UNCHANGED <<fileSize, byte, pos, previousChunkSizeBytes, ownedChunk, dataLen,
                       reachedEOF, begin, handedOut>>
    BY <1>2 DEF RAM!PeekFails, RAM!Return, RAM!file, RAM!blocks, RAM!block, RAM!history
  <2>2. RAM!TypeOK'
    BY <1>0, <2>1 DEF RAMIInv, RAM!TypeOK, RAM!BlocksTypeOK
  <2>3. RAM!BlocksAreAligned'
    BY <2>1 DEF RAMIInv, RAM!TypeOK, RAM!BlocksTypeOK, RAM!BlocksAreAligned
  <2> QED
    BY <2>1, <2>2, <2>3, RAMIdleIInv
<1>3. CASE RAM!PeekBlock
  <2>1. /\ pc = "peek" /\ pc' = "block"
        /\ dataLen' = (IF fileSize - pos < RAMPeekSize THEN fileSize - pos ELSE RAMPeekSize)
        /\ reachedEOF' = (fileSize - pos < RAMPeekSize)
        /\ UNCHANGED <<fileSize, byte, pos, faults, previousChunkSizeBytes, ownedChunk,
                       result, begin, handedOut>>
    BY <1>3 DEF RAM!PeekBlock, RAM!file, RAM!peeker, RAM!blocks, RAM!history
  <2>2. pos \in Nat /\ fileSize \in Nat /\ pos <= fileSize
    BY DEF RAMIInv, RAM!TypeOK, RAM!BlocksTypeOK
  <2>3. RAM!TypeOK'
    BY <1>0, <2>1, <2>2 DEF RAMIInv, RAM!TypeOK, RAM!BlocksTypeOK
  <2>4. RAM!BlocksAreAligned'
    <3>1. /\ pos = begin + ownedChunk /\ previousChunkSizeBytes = 0
          /\ faults = 0 => pos + previousChunkSizeBytes = handedOut + ownedChunk
      BY <2>1 DEF RAMIInv, RAM!BlocksAreAligned
    <3>2. pos + dataLen' <= fileSize
      BY <2>1, <2>2
    <3> QED
      BY <2>1, <3>1, <3>2 DEF RAM!BlocksAreAligned
  <2>7. RAMBlockIsOfFile'
    BY <2>1 DEF RAMBlockIsOfFile
  <2>5. RAMScanIsAligned'
    BY <1>0, <2>1 DEF RAMIInv, RAMScanIsAligned, RAM!IsLimited
  <2>6. RAMWindowIsSeen' /\ RAMNoEndYet'
    BY <1>0, <2>1 DEF RAMIInv, RAMWindowIsSeen, RAMNoEndYet, RAMScanned
  <2> QED
    BY <2>3, <2>4, <2>5, <2>6, <2>7 DEF RAMIInv
<1>4. CASE RAM!EmptyBlock /\ UNCHANGED <<RAM!file, RAM!block, begin>>
  <2>1. pc = "block" /\ dataLen = 0
    BY <1>4 DEF RAM!EmptyBlock
  <2>2. CASE RAM!Return("eof") /\ UNCHANGED <<RAM!peeker, RAM!blocks, handedOut>> /\ ownedChunk = 0
    <3>1. /\ pc' = "idle" /\ result' = "eof"
          /\ UNCHANGED <<fileSize, byte, pos, faults, previousChunkSizeBytes, ownedChunk,
                         dataLen, reachedEOF, begin, handedOut>>
      BY <1>4, <2>2 DEF RAM!Return, RAM!file, RAM!peeker, RAM!blocks, RAM!block
    <3>2. RAM!TypeOK'
      BY <1>0, <3>1 DEF RAMIInv, RAM!TypeOK, RAM!BlocksTypeOK
    <3>3. RAM!BlocksAreAligned'
      BY <2>1, <2>2, <3>1 DEF RAMIInv, RAM!BlocksAreAligned
    <3> QED
      BY <3>1, <3>2, <3>3, RAMIdleIInv
  <2>3. CASE RAM!FinishChunk(0)
    <3>1. maximum' \in 0 .. Top /\ blockOffset' \in Nat /\ initialized' \in BOOLEAN
      BY <1>0 DEF RAMIInv, RAM!TypeOK
    <3> QED
      BY <1>0, <1>4, <2>1, <2>3, <3>1, RAMFinishIInv
  <2> QED
    BY <1>4, <2>2, <2>3 DEF RAM!EmptyBlock
<1>5. CASE RAM!FinishShort
  <2>1. /\ pc = "block" /\ dataLen > 0 /\ RAM!FinishChunk(RAM!EndOfScan)
        /\ UNCHANGED <<RAM!file, RAM!block, begin>>
    BY <1>5 DEF RAM!FinishShort
  <2>2. RAM!EndOfScan \in 0 .. dataLen
    BY <2>1, RAMEndOfScanBounds, RAMInBlock
  <2>3. maximum' \in 0 .. Top /\ blockOffset' \in Nat /\ initialized' \in BOOLEAN
    BY <1>0 DEF RAMIInv, RAM!TypeOK
  <2> QED
    BY <1>0, <2>1, <2>2, <2>3, RAMFinishIInv
<1> QED
    BY <1>1, <1>2, <1>3, <1>4, <1>5 DEF RAM!BlockStep

\* The bytes of the first block's window: its maximum is the largest of them.
LEMMA RAMWindowMaximum ==
    ASSUME RAM!TypeOK, pos + WindowSize <= fileSize,
           maximum' = RAM!Max({byte[pos + j] : j \in 0 .. (WindowSize - 1)})
    PROVE  /\ maximum' \in 0 .. Top
           /\ \A w \in pos .. (pos + WindowSize - 1) : byte[w] <= maximum'
           /\ \E w \in pos .. (pos + WindowSize - 1) : byte[w] = maximum'
<1> DEFINE S == {byte[pos + j] : j \in 0 .. (WindowSize - 1)}
<1>1. /\ pos \in Nat /\ fileSize \in Nat /\ WindowSize \in Nat /\ WindowSize > 0
      /\ \A p \in 0 .. (fileSize - 1) : byte[p] \in 0 .. Top
    BY DEF RAM!RAMAssumption, RAM!TypeOK, RAM!BlocksTypeOK
<1>2. \A j \in 0 .. (WindowSize - 1) : pos + j \in 0 .. (fileSize - 1)
    BY <1>1
<1>3. S \in SUBSET (0 .. Top)
    BY <1>1, <1>2
<1>4. S # {}
  <2>1. 0 \in 0 .. (WindowSize - 1)
    BY <1>1
  <2>2. byte[pos + 0] \in S
    BY <2>1
  <2> QED
    BY <2>2
<1>5. ASSUME NEW w \in pos .. (pos + WindowSize - 1) PROVE byte[w] \in S
  <2>1. w - pos \in 0 .. (WindowSize - 1) /\ pos + (w - pos) = w
    BY <1>1
  <2>2. byte[pos + (w - pos)] \in S
    BY <2>1
  <2> QED
    BY <2>1, <2>2
<1>6. ASSUME NEW v \in S PROVE \E w \in pos .. (pos + WindowSize - 1) : byte[w] = v
  <2>1. PICK j \in 0 .. (WindowSize - 1) : v = byte[pos + j]
    OBVIOUS
  <2>2. pos + j \in pos .. (pos + WindowSize - 1)
    BY <1>1
  <2> QED
    BY <2>1, <2>2
<1>7. maximum' = RAM!Max(S)
    OBVIOUS
<1> HIDE DEF S
<1>8. RAM!Max(S) \in S /\ \A v \in S : v <= RAM!Max(S)
    BY <1>3, <1>4, RAMMaximum
<1> QED
    BY <1>3, <1>5, <1>6, <1>7, <1>8

\* The first block gives the maximum of the window, a later one goes on.
LEMMA RAMStartBlockIInv ==
    ASSUME RAMIInv, RAM!StartBlock
    PROVE  RAMIInv'
<1>1. /\ pc = "block" /\ dataLen > 0 /\ pc' = "bytes" /\ end' = RAM!EndOfScan
      /\ initialized \/ RAM!EndOfScan > WindowSize
      /\ UNCHANGED <<fileSize, byte, pos, faults, previousChunkSizeBytes, ownedChunk, result,
                     dataLen, reachedEOF, begin, handedOut, maximumChunkSize, blockOffset>>
    BY DEF RAM!StartBlock, RAM!file, RAM!peeker, RAM!blocks, RAM!block, RAM!history
<1>2. /\ RAM!EndOfScan \in 1 .. dataLen
      /\ RAM!EndOfScan = dataLen \/ (RAM!IsLimited /\ ownedChunk + RAM!EndOfScan = maximumChunkSize)
      /\ RAM!IsLimited => ownedChunk + RAM!EndOfScan <= maximumChunkSize
    BY <1>1, RAMEndOfScanBounds
<1>3. WindowSize \in Nat /\ WindowSize > 0
    BY DEF RAM!RAMAssumption
<1>4. /\ maximum' \in 0 .. Top /\ initialized' = TRUE
      /\ i' \in 0 .. RAM!EndOfScan
      /\ RAMWindowIsSeen' /\ RAMNoEndYet'
  <2>1. CASE initialized
    <3>1. i' = 0 /\ maximum' = maximum /\ initialized' = initialized
      BY <2>1 DEF RAM!StartBlock
    <3>2. RAMScanned' = RAMScanned
      BY <1>1, <3>1, RAMInBlock DEF RAMScanned
    <3>3. RAMWindowIsSeen' /\ RAMNoEndYet'
      BY <1>1, <2>1, <3>1, <3>2 DEF RAMIInv, RAMWindowIsSeen, RAMNoEndYet
    <3>4. initialized' = TRUE /\ maximum \in 0 .. Top
      BY <2>1, <3>1 DEF RAMIInv, RAM!TypeOK
    <3> QED
      BY <1>2, <3>1, <3>3, <3>4, RAMInBlock
  <2>2. CASE ~ initialized
    <3>1. /\ i' = WindowSize /\ initialized' = TRUE
          /\ maximum' = RAM!Max({byte[pos + j] : j \in 0 .. (WindowSize - 1)})
          /\ RAM!EndOfScan > WindowSize
      BY <1>1, <2>2 DEF RAM!StartBlock
    <3>2. pos = begin /\ pos + WindowSize <= fileSize
      <4>1. ownedChunk = 0
        BY <1>1, <2>2, RAMInBlock DEF RAMIInv, RAMScanIsAligned
      <4> QED
        BY <1>1, <1>2, <1>3, <3>1, <4>1, RAMInBlock
    <3>3. /\ maximum' \in 0 .. Top
          /\ \A w \in pos .. (pos + WindowSize - 1) : byte[w] <= maximum'
          /\ \E w \in pos .. (pos + WindowSize - 1) : byte[w] = maximum'
      BY <3>1, <3>2, RAMWindowMaximum DEF RAMIInv
    <3>4. RAMScanned' = begin + WindowSize /\ begin \in Nat
      BY <1>1, <3>1, <3>2, RAMInBlock DEF RAMScanned
    <3>5. RAMWindowIsSeen'
      BY <1>1, <1>3, <3>2, <3>3, <3>4 DEF RAMWindowIsSeen
    <3>6. RAMNoEndYet'
      BY <1>1, <1>3, <3>4 DEF RAMNoEndYet
    <3> QED
      BY <1>2, <1>3, <3>1, <3>3, <3>5, <3>6, RAMInBlock
  <2> QED
    BY <2>1, <2>2
<1>5. RAM!TypeOK'
  <2>1. end' \in 0 .. dataLen' /\ i' \in 0 .. end'
    BY <1>1, <1>2, <1>4, RAMInBlock
  <2>2. initialized' \in BOOLEAN
    BY <1>4, Zenon
  <2>3. RAM!BlocksTypeOK' /\ maximumChunkSize' \in MaximumChunkSizes /\ blockOffset' \in Nat
    BY <1>1 DEF RAMIInv, RAM!TypeOK, RAM!BlocksTypeOK
  <2>4. maximum' \in 0 .. Top /\ pc' = "bytes"
    BY <1>1, <1>4
  <2> QED
    BY <2>1, <2>2, <2>3, <2>4 DEF RAM!TypeOK
<1>6. RAM!BlocksAreAligned' /\ RAMBlockIsOfFile'
    BY <1>1 DEF RAMIInv, RAM!BlocksAreAligned, RAMBlockIsOfFile
<1>7. RAMScanIsAligned'
  <2>1. blockOffset' = ownedChunk' /\ dataLen' > 0
    BY <1>1 DEF RAMIInv, RAMScanIsAligned
  <2>2. RAM!IsLimited' <=> RAM!IsLimited
    BY <1>1 DEF RAM!IsLimited
  <2> QED
    BY <1>1, <1>2, <1>4, <2>1, <2>2 DEF RAMScanIsAligned
<1> QED
    BY <1>4, <1>5, <1>6, <1>7 DEF RAMIInv

\* A byte below the maximum does not end the chunk.
LEMMA RAMScanByteIInv ==
    ASSUME RAMIInv, RAM!ScanByte
    PROVE  RAMIInv'
<1>1. /\ pc = "bytes" /\ i < end
      /\ UNCHANGED <<fileSize, byte, dataLen, reachedEOF, begin, maximumChunkSize, maximum,
                     blockOffset, initialized, end>>
    BY DEF RAM!ScanByte, RAM!file, RAM!block
<1>2. i \in Nat /\ end \in Nat /\ end <= dataLen /\ maximum \in Nat
    BY <1>1, RAMInBlock DEF RAMIInv, RAM!TypeOK
<1>3. CASE RAM!FinishChunk(i + 1)
  <2>1. i + 1 \in 0 .. dataLen
    BY <1>1, <1>2, RAMInBlock
  <2>2. maximum' \in 0 .. Top /\ blockOffset' \in Nat /\ initialized' \in BOOLEAN
    BY <1>1 DEF RAMIInv, RAM!TypeOK
  <2>3. UNCHANGED <<RAM!file, RAM!block, begin, maximumChunkSize>>
    BY <1>1 DEF RAM!file, RAM!block
  <2> QED
    BY <1>1, <1>3, <2>1, <2>2, <2>3, RAMFinishIInv
<1>4. CASE ~ RAM!EndsChunk(byte[pos + i]) /\ i' = i + 1
           /\ UNCHANGED <<RAM!peeker, RAM!blocks, pc, result, handedOut>>
  <2>1. /\ byte[pos + i] < maximum
    <3>1. pos + i \in 0 .. (fileSize - 1)
      BY <1>1, <1>2, RAMInBlock
    <3>2. byte[pos + i] \in Nat
      BY <3>1 DEF RAMIInv, RAM!TypeOK, RAM!BlocksTypeOK
    <3> QED
      BY <1>2, <1>4, <3>2 DEF RAM!EndsChunk
  <2>2. UNCHANGED <<pos, faults, previousChunkSizeBytes, ownedChunk, pc, result, handedOut>>
    BY <1>4 DEF RAM!peeker, RAM!blocks
  <2>3. RAM!TypeOK'
    <3>1. i' \in 0 .. end' /\ end' \in 0 .. dataLen'
      BY <1>1, <1>2, <1>4, RAMInBlock
    <3>2. RAM!BlocksTypeOK' /\ maximumChunkSize' \in MaximumChunkSizes /\ blockOffset' \in Nat
          /\ maximum' \in 0 .. Top /\ initialized' \in BOOLEAN /\ pc' = "bytes"
      BY <1>1, <2>2 DEF RAMIInv, RAM!TypeOK, RAM!BlocksTypeOK
    <3> QED
      BY <3>1, <3>2 DEF RAM!TypeOK
  <2>4. RAM!BlocksAreAligned' /\ RAMBlockIsOfFile' /\ RAMScanIsAligned'
    BY <1>1, <2>2 DEF RAMIInv, RAM!BlocksAreAligned, RAMBlockIsOfFile, RAMScanIsAligned,
       RAM!IsLimited
  <2>5. RAMScanned' = RAMScanned + 1 /\ RAMScanned = pos + i /\ RAMScanned \in Nat /\ begin \in Nat
        /\ WindowSize \in Nat
    BY SMTT(30), <1>1, <1>2, <1>4, <2>2, RAMInBlock DEF RAMScanned, RAM!RAMAssumption
  <2>6. RAMWindowIsSeen'
    BY <1>1, <2>2, <2>5 DEF RAMIInv, RAMWindowIsSeen
  <2>7. RAMNoEndYet'
    <3> SUFFICES ASSUME initialized, NEW o \in (begin + WindowSize) .. (RAMScanned' - 1)
                 PROVE  byte[o] < maximum
      BY <1>1, <2>2 DEF RAMNoEndYet
    <3>1. o = pos + i \/ o \in (begin + WindowSize) .. (RAMScanned - 1)
      BY <2>5
    <3> QED
      BY <1>1, <2>1, <3>1 DEF RAMIInv, RAMNoEndYet
  <2> QED
    BY <2>3, <2>4, <2>6, <2>7 DEF RAMIInv
<1> QED
    BY <1>3, <1>4 DEF RAM!ScanByte

\* A block is consumed, or ends the chunk.
LEMMA RAMEndBlockIInv ==
    ASSUME RAMIInv, RAM!EndBlock
    PROVE  RAMIInv'
<1>1. /\ pc = "bytes" /\ i >= end
      /\ UNCHANGED <<fileSize, byte, dataLen, reachedEOF, begin, maximumChunkSize, maximum,
                     initialized, i, end>>
      /\ UNCHANGED <<RAM!file, RAM!block, begin, maximumChunkSize>>
    BY DEF RAM!EndBlock, RAM!file, RAM!block
<1>2. /\ i \in Nat /\ end \in 0 .. dataLen /\ i = end /\ maximum \in 0 .. Top
      /\ blockOffset \in Nat /\ initialized \in BOOLEAN /\ blockOffset = ownedChunk
      /\ initialized
    BY <1>1, RAMInBlock DEF RAMIInv, RAM!TypeOK, RAMScanIsAligned
<1>3. CASE RAM!FinishChunk(end) /\ UNCHANGED blockOffset
    BY <1>1, <1>2, <1>3, RAMFinishIInv
<1>4. CASE RAM!FinishChunk(dataLen) /\ UNCHANGED blockOffset
  <2>1. dataLen \in 0 .. dataLen
    BY <1>1, RAMInBlock
  <2> QED
    BY <1>1, <1>2, <1>4, <2>1, RAMFinishIInv
<1>5. CASE /\ ~ (RAM!IsLimited /\ blockOffset + end = maximumChunkSize)
           /\ ~ reachedEOF
           /\ blockOffset' = blockOffset + dataLen
           /\ RAM!ConsumeBlock(dataLen)
  <2>1. /\ ownedChunk' = ownedChunk + dataLen /\ previousChunkSizeBytes' = previousChunkSizeBytes
        /\ RAM!DiscardOrFail(dataLen, pc' = "peek" /\ UNCHANGED <<result, handedOut>>)
    BY <1>5 DEF RAM!ConsumeBlock
  <2>2. end = dataLen /\ dataLen > 0 /\ (RAM!IsLimited => ownedChunk + dataLen < maximumChunkSize)
    <3>1. /\ end = dataLen \/ (RAM!IsLimited /\ ownedChunk + end = maximumChunkSize)
          /\ RAM!IsLimited => ownedChunk + end <= maximumChunkSize
          /\ dataLen > 0
      BY <1>1 DEF RAMIInv, RAMScanIsAligned
    <3>2. RAM!IsLimited => maximumChunkSize \in Nat
      BY DEF RAM!RAMAssumption, RAMIInv, RAM!TypeOK
    <3> QED
      BY <1>1, <1>2, <1>5, <3>1, <3>2, RAMInBlock
  <2>3. CASE pos' = pos + dataLen /\ UNCHANGED faults /\ pc' = "peek"
             /\ UNCHANGED <<result, handedOut>>
    <3>1. RAM!TypeOK'
      <4>1. RAM!BlocksTypeOK'
        BY <1>1, <2>1, <2>3, RAMInBlock DEF RAMIInv, RAM!TypeOK, RAM!BlocksTypeOK
      <4>2. blockOffset' \in Nat
        BY <1>1, <1>2, <1>5, RAMInBlock
      <4>3. maximumChunkSize' \in MaximumChunkSizes /\ maximum' \in 0 .. Top
            /\ initialized' \in BOOLEAN
        BY <1>1, <1>2 DEF RAMIInv, RAM!TypeOK
      <4> QED
        BY <2>3, <4>1, <4>2, <4>3 DEF RAM!TypeOK
    <3>2. RAM!BlocksAreAligned' /\ RAMBlockIsOfFile'
      BY <1>1, <2>1, <2>3, RAMInBlock DEF RAM!BlocksAreAligned, RAMBlockIsOfFile
    <3>3. RAMScanIsAligned'
      <4>1. blockOffset' = ownedChunk' /\ ownedChunk' > 0
        BY <1>1, <1>2, <1>5, <2>1, <2>2, RAMInBlock
      <4>2. RAM!IsLimited' => ownedChunk' < maximumChunkSize'
        BY <1>1, <2>1, <2>2 DEF RAM!IsLimited
      <4> QED
        BY <1>1, <1>2, <2>3, <4>1, <4>2 DEF RAMScanIsAligned
    <3>4. RAMScanned' = RAMScanned
      BY <1>1, <1>2, <2>2, <2>3 DEF RAMScanned
    <3>5. RAMWindowIsSeen' /\ RAMNoEndYet'
      BY <1>1, <1>2, <3>4 DEF RAMIInv, RAMWindowIsSeen, RAMNoEndYet
    <3> QED
      BY <3>1, <3>2, <3>3, <3>5 DEF RAMIInv
  <2>4. CASE /\ faults < MaxFaults /\ faults' = faults + 1
             /\ \E discarded \in 0 .. (dataLen - 1) : pos' = pos + discarded
             /\ RAM!Return("error") /\ UNCHANGED handedOut
    <3>1. PICK discarded \in 0 .. (dataLen - 1) : pos' = pos + discarded
      BY <2>4
    <3>2. RAM!TypeOK'
      <4>1. RAM!BlocksTypeOK'
        BY <1>1, <2>1, <2>4, <3>1, RAMInBlock DEF RAMIInv, RAM!TypeOK, RAM!BlocksTypeOK, RAM!Return
      <4>2. blockOffset' \in Nat
        BY <1>1, <1>2, <1>5, RAMInBlock
      <4>3. maximumChunkSize' \in MaximumChunkSizes /\ maximum' \in 0 .. Top
            /\ initialized' \in BOOLEAN
        BY <1>1, <1>2 DEF RAMIInv, RAM!TypeOK
      <4> QED
        BY <2>4, <4>1, <4>2, <4>3 DEF RAM!TypeOK, RAM!Return
    <3>3. RAM!BlocksAreAligned'
      BY <1>1, <2>1, <2>4, <3>1, RAMInBlock DEF RAM!BlocksAreAligned, RAM!Return
    <3> QED
      BY <2>4, <3>2, <3>3, RAMIdleIInv DEF RAM!Return
  <2> QED
    BY <2>1, <2>3, <2>4 DEF RAM!DiscardOrFail
<1> QED
    BY <1>3, <1>4, <1>5 DEF RAM!EndBlock

\* Every step preserves the invariant.
LEMMA RAMNextIInv ==
    ASSUME RAMIInv, [RAM!Next]_(RAM!vars)
    PROVE  RAMIInv'
<1>1. CASE RAM!Begin
    BY <1>1, RAMBeginIInv
<1>2. CASE RAM!BlockStep
    BY <1>2, RAMBlockStepIInv
<1>3. CASE RAM!StartBlock
    BY <1>3, RAMStartBlockIInv
<1>4. CASE RAM!ScanByte
    BY <1>4, RAMScanByteIInv
<1>5. CASE RAM!EndBlock
    BY <1>5, RAMEndBlockIInv
<1>6. CASE UNCHANGED RAM!vars
  <2>1. UNCHANGED <<fileSize, byte, pos, faults, previousChunkSizeBytes, ownedChunk, pc, result,
                    dataLen, reachedEOF, begin, handedOut, maximumChunkSize, maximum,
                    blockOffset, initialized, i, end>>
    BY <1>6 DEF RAM!vars, RAM!file, RAM!peeker, RAM!blocks, RAM!block, RAM!history, RAM!scan
  <2>2. RAM!TypeOK' /\ RAM!BlocksAreAligned' /\ RAMBlockIsOfFile'
    BY <2>1 DEF RAMIInv, RAM!TypeOK, RAM!BlocksTypeOK, RAM!BlocksAreAligned, RAMBlockIsOfFile
  <2>3. RAMScanIsAligned' /\ RAMWindowIsSeen' /\ RAMNoEndYet'
    BY <2>1 DEF RAMIInv, RAMScanIsAligned, RAMWindowIsSeen, RAMNoEndYet, RAMScanned, RAM!IsLimited
  <2> QED
    BY <2>2, <2>3 DEF RAMIInv
<1> QED
    BY <1>1, <1>2, <1>3, <1>4, <1>5, <1>6 DEF RAM!Next

-----------------------------------------------------------------------------
\* A chunk is the one of the rule

\* What a finished chunk adds to what was handed out.
LEMMA RAMFinishedSize ==
    ASSUME RAMIInv, pc \in {"block", "bytes"}, NEW n \in 0 .. dataLen, RAM!FinishChunk(n),
           handedOut' # handedOut
    PROVE  handedOut' - handedOut = ownedChunk + n
<1>1. CASE ownedChunk = 0
    BY <1>1, RAMInBlock DEF RAM!FinishChunk
<1>2. CASE ownedChunk > 0
  <2>1. ownedChunk' = ownedChunk + n
        /\ RAM!DiscardOrFail(n, RAM!Return("chunk") /\ handedOut' = handedOut + ownedChunk')
    BY <1>2 DEF RAM!FinishChunk
  <2>2. handedOut' = handedOut + ownedChunk'
    BY <2>1 DEF RAM!DiscardOrFail
  <2> QED
    BY <2>1, <2>2, RAMInBlock
<1> QED
    BY <1>1, <1>2, RAMInBlock

\* A finished chunk is no end of the file.
LEMMA RAMFinishedIsChunk ==
    ASSUME NEW n, RAM!FinishChunk(n)
    PROVE  result' # "eof"
BY DEF RAM!FinishChunk, RAM!DiscardOrFail, RAM!Return

\* A chunk that ends with the file, or with the block before it.
LEMMA RAMFinishShortFollowsRule ==
    ASSUME RAMIInv, RAM!FinishShort
    PROVE  RAM!FollowsRule
<1>1. /\ pc = "block" /\ dataLen > 0 /\ ~ initialized /\ RAM!EndOfScan <= WindowSize
      /\ RAM!FinishChunk(RAM!EndOfScan)
    BY DEF RAM!FinishShort
<1>2. /\ RAM!EndOfScan \in 1 .. dataLen
      /\ RAM!EndOfScan = dataLen \/ (RAM!IsLimited /\ ownedChunk + RAM!EndOfScan = maximumChunkSize)
    BY <1>1, RAMEndOfScanBounds
<1>3. ownedChunk = 0 /\ begin = pos
    BY <1>1, RAMInBlock DEF RAMIInv, RAMScanIsAligned
<1>4. RAM!EndOfScan = dataLen /\ pos + dataLen = fileSize
  <2>1. /\ WindowSize \in Nat /\ WindowSize > 0 /\ RAMPeekSize > WindowSize
        /\ RAM!IsLimited => maximumChunkSize = 4 * WindowSize
    BY DEF RAM!RAMAssumption, RAMIInv, RAM!TypeOK, RAM!IsLimited
  <2>2. RAM!EndOfScan = dataLen
    BY <1>1, <1>2, <1>3, <2>1, RAMInBlock
  <2> QED
    BY <1>1, <2>1, <2>2, RAMInBlock DEF RAMIInv, RAMBlockIsOfFile
<1>5. fileSize - begin = RAM!RuleChunkSize(begin)
  <2>1. begin + WindowSize >= fileSize
    BY <1>1, <1>3, <1>4, RAMInBlock DEF RAM!RAMAssumption
  <2> QED
    BY <2>1, RAMShortRuleHolds
<1>6. handedOut' # handedOut => handedOut' - handedOut = fileSize - begin
    BY <1>1, <1>2, <1>3, <1>4, RAMFinishedSize, RAMInBlock
<1>7. result' # "eof"
    BY <1>1, RAMFinishedIsChunk
<1> QED
    BY <1>5, <1>6, <1>7 DEF RAM!FollowsRule

\* A file that ends with the block before.
LEMMA RAMEmptyBlockFollowsRule ==
    ASSUME RAMIInv, RAM!EmptyBlock
    PROVE  RAM!FollowsRule
<1>1. pc = "block" /\ dataLen = 0
    BY DEF RAM!EmptyBlock
<1>2. pos = fileSize
    BY <1>1, RAMInBlock DEF RAMIInv, RAMBlockIsOfFile
<1>3. CASE ownedChunk = 0 /\ handedOut' = handedOut
    BY <1>1, <1>2, <1>3, RAMInBlock DEF RAM!FollowsRule
<1>4. CASE ownedChunk > 0 /\ RAM!FinishChunk(0)
  <2>1. /\ initialized /\ blockOffset = ownedChunk
        /\ RAM!IsLimited => ownedChunk < maximumChunkSize
    BY <1>1, <1>4 DEF RAMIInv, RAMScanIsAligned
  <2>2. /\ begin + WindowSize <= RAMScanned /\ RAMScanned = pos
        /\ \A o \in (begin + WindowSize) .. (RAMScanned - 1) : byte[o] < maximum
    BY <1>1, <2>1 DEF RAMIInv, RAMWindowIsSeen, RAMNoEndYet, RAMScanned
  <2>3. begin + ownedChunk = fileSize /\ ownedChunk \in Nat /\ begin \in Nat
        /\ WindowSize \in Nat /\ ownedChunk >= WindowSize /\ maximumChunkSize \in Nat
    BY <1>1, <1>2, <2>2, RAMInBlock DEF RAM!RAMAssumption, RAMIInv, RAM!TypeOK
  <2>4. \A o \in (begin + WindowSize) .. (begin + ownedChunk - 2) : byte[o] < maximum
    BY <1>2, <2>2, <2>3
  <2>5. ownedChunk > WindowSize => byte[begin + ownedChunk - 1] < maximum
    <3> SUFFICES ASSUME ownedChunk > WindowSize
                 PROVE  byte[begin + ownedChunk - 1] < maximum
      OBVIOUS
    <3>1. begin + ownedChunk - 1 \in (begin + WindowSize) .. (RAMScanned - 1)
      BY <1>2, <2>2, <2>3
    <3> QED
      BY <2>2, <3>1
  <2>6. RAM!IsLimited => ownedChunk <= maximumChunkSize
    BY <2>1, <2>3
  <2>7. ownedChunk = RAM!RuleChunkSize(begin)
    BY <1>1, <2>1, <2>3, <2>4, <2>5, <2>6, RAMRuleHolds
  <2>8. handedOut' # handedOut => handedOut' - handedOut = ownedChunk
    BY <1>1, <1>4, RAMFinishedSize, RAMInBlock
  <2>9. result' # "eof"
    BY <1>4, RAMFinishedIsChunk
  <2> QED
    BY <2>7, <2>8, <2>9 DEF RAM!FollowsRule
<1> QED
    BY <1>3, <1>4 DEF RAM!EmptyBlock

\* A byte that ends the chunk.
LEMMA RAMScanByteFollowsRule ==
    ASSUME RAMIInv, RAM!ScanByte
    PROVE  RAM!FollowsRule
<1>1. pc = "bytes" /\ i < end
    BY DEF RAM!ScanByte
<1>2. CASE handedOut' = handedOut
    BY <1>1, <1>2 DEF RAM!FollowsRule
<1>3. CASE RAM!EndsChunk(byte[pos + i]) /\ RAM!FinishChunk(i + 1)
  <2> DEFINE n == ownedChunk + i + 1
  <2>1. /\ initialized /\ blockOffset = ownedChunk
        /\ RAM!IsLimited => ownedChunk + end <= maximumChunkSize
    BY <1>1 DEF RAMIInv, RAMScanIsAligned
  <2>2. /\ begin + WindowSize <= RAMScanned /\ RAMScanned = pos + i
        /\ \A o \in (begin + WindowSize) .. (RAMScanned - 1) : byte[o] < maximum
    BY <1>1, <2>1 DEF RAMIInv, RAMWindowIsSeen, RAMNoEndYet, RAMScanned
  <2>3. /\ i \in Nat /\ end \in Nat /\ end <= dataLen /\ WindowSize \in Nat
        /\ maximumChunkSize \in Nat /\ maximum \in Nat
    BY <1>1, RAMInBlock DEF RAM!RAMAssumption, RAMIInv, RAM!TypeOK
  <2>4. /\ n \in Nat /\ begin + n - 1 = pos + i /\ begin + n - 2 = RAMScanned - 1
        /\ begin + n <= fileSize /\ n > WindowSize /\ n >= WindowSize
    BY <1>1, <2>2, <2>3, RAMInBlock
  <2>5. RAM!IsLimited => n <= maximumChunkSize
    BY <1>1, <2>1, <2>3, RAMInBlock
  <2>6. maximum <= byte[begin + n - 1]
    <3>1. pos + i \in 0 .. (fileSize - 1)
      BY <1>1, <2>3, RAMInBlock
    <3>2. byte[pos + i] \in Nat
      BY <3>1 DEF RAMIInv, RAM!TypeOK, RAM!BlocksTypeOK
    <3>3. maximum <= byte[pos + i]
      BY <1>3, <2>3, <3>2 DEF RAM!EndsChunk
    <3> QED
      BY <2>4, <3>3
  <2>7. \A o \in (begin + WindowSize) .. (begin + n - 2) : byte[o] < maximum
    BY <2>2, <2>4
  <2>8. handedOut' # handedOut => handedOut' - handedOut = n
    BY <1>1, <1>3, <2>3, RAMFinishedSize, RAMInBlock
  <2>9. result' # "eof"
    BY <1>3, RAMFinishedIsChunk
  <2> HIDE DEF n
  <2>10. n = RAM!RuleChunkSize(begin)
    BY <1>1, <2>1, <2>4, <2>5, <2>6, <2>7, RAMRuleHolds
  <2> QED
    BY <2>8, <2>9, <2>10 DEF RAM!FollowsRule
<1> QED
    BY <1>2, <1>3 DEF RAM!ScanByte

\* The limit, or a file that ends before any byte ends the chunk.
LEMMA RAMEndBlockFollowsRule ==
    ASSUME RAMIInv, RAM!EndBlock
    PROVE  RAM!FollowsRule
<1>1. pc = "bytes" /\ i >= end
    BY DEF RAM!EndBlock
<1>2. /\ i = end /\ end \in 0 .. dataLen /\ WindowSize \in Nat
      /\ maximumChunkSize \in Nat /\ maximum \in Nat
    BY <1>1, RAMInBlock DEF RAM!RAMAssumption, RAMIInv, RAM!TypeOK
<1>3. /\ initialized /\ blockOffset = ownedChunk
      /\ end = dataLen \/ (RAM!IsLimited /\ ownedChunk + end = maximumChunkSize)
      /\ RAM!IsLimited => ownedChunk + end <= maximumChunkSize
    BY <1>1 DEF RAMIInv, RAMScanIsAligned
<1>4. /\ begin + WindowSize <= RAMScanned /\ RAMScanned = pos + end
      /\ \A o \in (begin + WindowSize) .. (RAMScanned - 1) : byte[o] < maximum
    BY <1>1, <1>2, <1>3 DEF RAMIInv, RAMWindowIsSeen, RAMNoEndYet, RAMScanned
<1>5. ASSUME RAM!FinishChunk(end),
             \/ begin + (ownedChunk + end) = fileSize
             \/ RAM!IsLimited /\ ownedChunk + end = maximumChunkSize
      PROVE  RAM!FollowsRule
  <2> DEFINE n == ownedChunk + end
  <2>1. /\ n \in Nat /\ begin + n = RAMScanned /\ begin + n <= fileSize /\ n >= WindowSize
        /\ begin + n - 1 = RAMScanned - 1 /\ begin + n - 2 = RAMScanned - 2 /\ RAMScanned \in Nat
    BY <1>1, <1>2, <1>4, RAMInBlock
  <2>2. RAM!IsLimited => n <= maximumChunkSize
    BY <1>3
  <2>3. begin + n = fileSize \/ (RAM!IsLimited /\ n = maximumChunkSize)
    BY <1>5
  <2>4. handedOut' # handedOut => handedOut' - handedOut = n
    BY <1>1, <1>2, <1>5, RAMFinishedSize, RAMInBlock
  <2> HIDE DEF n
  <2>5. \A o \in (begin + WindowSize) .. (begin + n - 2) : byte[o] < maximum
    BY <1>1, <1>2, <1>4, <2>1, RAMInBlock
  <2>6. n > WindowSize => byte[begin + n - 1] < maximum
    <3> SUFFICES ASSUME n > WindowSize PROVE byte[begin + n - 1] < maximum
      OBVIOUS
    <3>1. begin + n - 1 \in (begin + WindowSize) .. (RAMScanned - 1)
      BY <1>1, <1>2, <2>1, RAMInBlock
    <3> QED
      BY <1>4, <3>1
  <2>7. n = RAM!RuleChunkSize(begin)
    BY <1>1, <1>3, <2>1, <2>2, <2>3, <2>5, <2>6, RAMRuleHolds
  <2>8. result' # "eof"
    BY <1>5, RAMFinishedIsChunk
  <2> QED
    BY <2>4, <2>7, <2>8 DEF RAM!FollowsRule
<1>6. CASE RAM!IsLimited /\ blockOffset + end = maximumChunkSize /\ RAM!FinishChunk(end)
    BY <1>3, <1>5, <1>6
<1>7. CASE ~ (RAM!IsLimited /\ blockOffset + end = maximumChunkSize) /\ reachedEOF
           /\ RAM!FinishChunk(dataLen)
  <2>1. end = dataLen
    BY <1>3, <1>7
  <2>2. begin + (ownedChunk + end) = fileSize
    BY <1>1, <1>7, <2>1, RAMInBlock DEF RAMIInv, RAMBlockIsOfFile
  <2> QED
    BY <1>5, <1>7, <2>1, <2>2
<1>8. CASE handedOut' = handedOut
    BY <1>1, <1>8 DEF RAM!FollowsRule
<1>9. RAM!ConsumeBlock(dataLen) => handedOut' = handedOut
    BY DEF RAM!ConsumeBlock, RAM!DiscardOrFail
<1> QED
    BY <1>6, <1>7, <1>8, <1>9 DEF RAM!EndBlock

\* Every step hands out the chunk of the rule or none.
LEMMA RAMNextFollowsRule ==
    ASSUME RAMIInv, [RAM!Next]_(RAM!vars)
    PROVE  [RAM!FollowsRule]_(RAM!vars)
<1>1. CASE RAM!Begin
    BY <1>1 DEF RAM!Begin, RAM!BeginRead, RAM!FollowsRule
<1>2. CASE RAM!BeginFails
    BY <1>2 DEF RAM!BeginFails, RAM!history, RAM!FollowsRule
<1>3. CASE RAM!PeekFails
    BY <1>3 DEF RAM!PeekFails, RAM!history, RAM!FollowsRule
<1>4. CASE RAM!PeekBlock
    BY <1>4 DEF RAM!PeekBlock, RAM!history, RAM!FollowsRule
<1>5. CASE RAM!StartBlock
    BY <1>5 DEF RAM!StartBlock, RAM!history, RAM!FollowsRule
<1>6. CASE UNCHANGED RAM!vars
    BY <1>6
<1> QED
    BY <1>1, <1>2, <1>3, <1>4, <1>5, <1>6, RAMEmptyBlockFollowsRule, RAMFinishShortFollowsRule,
       RAMScanByteFollowsRule, RAMEndBlockFollowsRule DEF RAM!Next, RAM!BlockStep

-----------------------------------------------------------------------------
\* The theorems

\* The invariant of the reader that the behavior is about.
ReadersInv ==
    /\ reader \in {"AE", "RAM"}
    /\ reader = "AE" => IInv
    /\ reader = "RAM" => RAMIInv

\* The strengthened invariants hold in every reachable state.  For the Asymmetric
\* Extremum readers: the candidate is the last record of what was scanned, nothing
\* since exceeds it, and no record before it stands up to its deadline.  For RAM:
\* the maximum is that of the window, and no byte scanned since ends the chunk.
THEOREM Invariance == ReadersSpec => []ReadersInv
<1>1. ReadersInit => ReadersInv
    BY InitIInv, RAMInitIInv DEF ReadersInit, ReadersInv
<1>2. ReadersInv /\ [ReadersNext]_readers => ReadersInv'
  <2> SUFFICES ASSUME ReadersInv, [ReadersNext]_readers PROVE ReadersInv'
    OBVIOUS
  <2>1. CASE reader = "AE" /\ Next /\ UNCHANGED <<reader, maximumChunkSize>>
    BY <2>1, NextIInv DEF ReadersInv
  <2>2. CASE reader = "RAM" /\ RAM!Next /\ UNCHANGED <<reader, regionSize, candidateOffset>>
    BY <2>2, RAMNextIInv DEF ReadersInv
  <2>3. CASE UNCHANGED readers
    <3>1. UNCHANGED vars /\ UNCHANGED RAM!vars /\ UNCHANGED reader
      BY <2>3 DEF readers, vars, RAM!vars, file, peeker, blocks, block, history, scan,
         RAM!file, RAM!peeker, RAM!blocks, RAM!block, RAM!history, RAM!scan
    <3> QED
      BY <3>1, NextIInv, RAMNextIInv DEF ReadersInv
  <2> QED
    BY <2>1, <2>2, <2>3 DEF ReadersNext
<1> QED
    BY <1>1, <1>2, PTL DEF ReadersSpec

\* Every variable of either reader has its type, and no index leaves the block.
THEOREM ReadersTypeCorrect == ReadersSpec => []ReadersTypeOK
<1>1. ReadersInv => ReadersTypeOK
    BY DEF ReadersInv, ReadersTypeOK, IInv, RAMIInv
<1> QED
    BY <1>1, Invariance, PTL

\* What was copied is what was discarded since the chunk began, and once a chunk
\* is returned the next one begins where it ends.
THEOREM BlocksAreAlignedCorrect == ReadersSpec => []BlocksAreAligned
<1>1. ReadersInv => BlocksAreAligned
    BY DEF ReadersInv, IInv, RAMIInv, BlocksAreAligned, RAM!BlocksAreAligned
<1> QED
    BY <1>1, Invariance, PTL

\* However a chunk is spread over blocks it ends where its reader's rule says, and
\* io.EOF comes only at the end of the file.
THEOREM ChunksFollowRuleCorrect == ReadersSpec => ChunksFollowRule
<1>1. ReadersInv /\ [ReadersNext]_readers
         => [IF reader = "AE" THEN FollowsRule ELSE RAM!FollowsRule]_readers
  <2> SUFFICES ASSUME ReadersInv, ReadersNext, ~ UNCHANGED readers
               PROVE  IF reader = "AE" THEN FollowsRule ELSE RAM!FollowsRule
    OBVIOUS
  <2>1. CASE reader = "AE" /\ Next /\ UNCHANGED <<reader, maximumChunkSize>>
    <3>1. [FollowsRule]_vars
      BY <2>1, NextFollowsRule DEF ReadersInv
    <3>2. ~ UNCHANGED vars
      BY <2>1 DEF readers
    <3> QED
      BY <2>1, <3>1, <3>2
  <2>2. CASE reader = "RAM" /\ RAM!Next /\ UNCHANGED <<reader, regionSize, candidateOffset>>
    <3>1. [RAM!FollowsRule]_(RAM!vars)
      BY <2>2, RAMNextFollowsRule DEF ReadersInv
    <3>2. ~ UNCHANGED RAM!vars
      BY <2>2 DEF readers, vars, RAM!vars, file, peeker, blocks, block, history, scan,
         RAM!file, RAM!peeker, RAM!blocks, RAM!block, RAM!history, RAM!scan
    <3> QED
      BY <2>2, <3>1, <3>2
  <2> QED
    BY <2>1, <2>2 DEF ReadersNext
<1> QED
    BY <1>1, Invariance, PTL DEF ReadersSpec, ChunksFollowRule

-----------------------------------------------------------------------------
\* Every call comes to an end

\* The bytes after the position and what is scanned of the block.
Within == IF pc \in {"stretch", "values", "bytes"} THEN i ELSE 0
Unscanned == fileSize - (pos + Within)

\* The steps between two values or bytes that are scanned.
Phase == CASE pc = "peek" -> 6
           [] pc = "block" -> 5
           [] pc = "stretch" -> IF i < ValueCount THEN 4 ELSE 7
           [] pc = "values" -> IF i < end THEN 3 ELSE 8
           [] pc = "bytes" -> IF i < end THEN 4 ELSE 7

\* The steps that a call has left, at most.
StepsLeft == IF pc = "idle" THEN 0 ELSE 8 * Unscanned + Phase

\* The calls that can still end otherwise than at the end of the file, at most: a
\* chunk that was copied counts from where it begins.
CallsLeft ==
    (IF pc = "idle" THEN fileSize - (pos + previousChunkSizeBytes) ELSE fileSize - begin)
        + (MaxFaults - faults)

\* A step of a call can be taken: its guards, where they are not the negations of
\* one another.  A block without a whole region is the last one.
CanGoOn ==
    \/ pc \in {"peek", "stretch", "values", "bytes"}
    \/ pc = "block" /\ reader = "RAM"
    \/ pc = "block" /\ (dataLen = 0 \/ ValueCount > 0 \/ reachedEOF)

\* What is known of the numbers that are counted, whichever the reader.
Counted ==
    /\ fileSize \in Nat /\ pos \in 0 .. fileSize /\ faults \in Nat /\ faults <= MaxFaults
    /\ previousChunkSizeBytes \in Nat /\ ownedChunk \in Nat /\ begin \in Nat /\ begin <= fileSize
    /\ dataLen \in Nat
    /\ pc = "idle" => pos + previousChunkSizeBytes <= fileSize
    /\ pc # "idle" => pos = begin + ownedChunk /\ previousChunkSizeBytes = 0
    /\ pc \in {"block", "stretch", "values", "bytes"} => pos + dataLen <= fileSize
    /\ pc \in {"stretch", "values", "bytes"} => i \in Nat /\ i <= dataLen

LEMMA CountedFacts == ReadersInv => Counted
<1> SUFFICES ASSUME ReadersInv PROVE Counted
    OBVIOUS
<1>1. CASE reader = "AE"
  <2>1. TypeOK /\ BlocksAreAligned /\ BlockIsOfFile
    BY <1>1 DEF ReadersInv, IInv
  <2> QED
    BY <2>1 DEF TypeOK, BlocksTypeOK, BlocksAreAligned, BlockIsOfFile, Counted
<1>2. CASE reader = "RAM"
  <2>1. RAM!TypeOK /\ RAM!BlocksAreAligned /\ RAMBlockIsOfFile
    BY <1>2 DEF ReadersInv, RAMIInv
  <2> QED
    BY <2>1 DEF RAM!TypeOK, RAM!BlocksTypeOK, RAM!BlocksAreAligned, RAMBlockIsOfFile, Counted
<1> QED
    BY <1>1, <1>2 DEF ReadersInv

\* What is left is a number of steps, one at least, and one of them can be taken.
LEMMA CountedSteps ==
    ReadersInv =>
        /\ CallsLeft \in Nat /\ StepsLeft \in Nat
        /\ pc # "idle" => /\ Unscanned \in Nat /\ Phase \in 3 .. 8
                          /\ StepsLeft > 0 /\ CanGoOn
<1> SUFFICES ASSUME ReadersInv
             PROVE  /\ CallsLeft \in Nat /\ StepsLeft \in Nat
                    /\ pc # "idle" => /\ Unscanned \in Nat /\ Phase \in 3 .. 8
                                      /\ StepsLeft > 0 /\ CanGoOn
    OBVIOUS
<1>1. CallsLeft \in Nat
  <2>1. /\ fileSize \in Nat /\ pos \in Nat /\ faults \in Nat /\ faults <= MaxFaults
        /\ MaxFaults \in Nat /\ begin \in Nat /\ begin <= fileSize
        /\ previousChunkSizeBytes \in Nat
        /\ pc = "idle" => pos + previousChunkSizeBytes <= fileSize
    BY MaxFaultsAssumption, CountedFacts DEF Counted
  <2>2. CASE pc = "idle"
    BY <2>1, <2>2 DEF CallsLeft
  <2>3. CASE pc # "idle"
    BY <2>1, <2>3 DEF CallsLeft
  <2> QED
    BY <2>2, <2>3
<1>2. CASE pc = "idle"
    BY <1>1, <1>2 DEF StepsLeft
<1>3. CASE pc # "idle"
  <2>1. pc \in {"peek", "block", "stretch", "values", "bytes"}
    BY <1>3 DEF ReadersInv, IInv, RAMIInv, TypeOK, RAM!TypeOK
  <2>2. Phase \in 3 .. 8
    BY <2>1 DEF Phase
  <2>3. Unscanned \in Nat
    <3>1. CASE pc \in {"stretch", "values", "bytes"}
      BY <3>1, CountedFacts DEF Counted, Unscanned, Within
    <3>2. CASE pc \in {"peek", "block"}
      BY <3>2, CountedFacts DEF Counted, Unscanned, Within
    <3> QED
      BY <2>1, <3>1, <3>2
  <2>4. CanGoOn
    <3>1. CASE pc = "block" /\ reader = "AE"
      <4>1. /\ dataLen = (IF fileSize - pos < PeekSize THEN fileSize - pos ELSE PeekSize)
            /\ reachedEOF <=> (fileSize - pos < PeekSize)
        BY <3>1 DEF ReadersInv, IInv, BlockIsOfFile
      <4>2. PeekSize >= WindowSize + regionSize /\ WindowSize \in Nat /\ regionSize \in Nat
        BY <3>1, WindowAssumption, RegionSizesAssumption DEF ReadersInv, IInv, TypeOK
      <4>3. ASSUME ~ reachedEOF PROVE ValueCount > 0
        BY <4>1, <4>2, <4>3 DEF ValueCount
      <4> QED
        BY <3>1, <4>3 DEF CanGoOn
    <3> QED
      BY <2>1, <3>1 DEF CanGoOn, ReadersInv
  <2>5. StepsLeft = 8 * Unscanned + Phase
    BY <1>3 DEF StepsLeft
  <2>6. StepsLeft \in Nat /\ StepsLeft > 0
    BY ONLY <2>2, <2>3, <2>5
  <2> QED
    BY <1>1, <2>2, <2>3, <2>4, <2>6
<1> QED
    BY <1>2, <1>3

LEMMA CountedStepsNext ==
    ReadersInv' =>
        (/\ CallsLeft \in Nat /\ StepsLeft \in Nat
         /\ pc # "idle" => /\ Unscanned \in Nat /\ Phase \in 3 .. 8
                           /\ StepsLeft > 0 /\ CanGoOn)'
BY CountedSteps, PTL

\* A call that goes on scans more, or goes on to the next phase.
LEMMA GoesOnCounts ==
    ASSUME ReadersInv, ReadersInv', pc # "idle", pc' # "idle",
           \/ Unscanned' < Unscanned /\ Phase' < Phase + 8
           \/ Unscanned' = Unscanned /\ Phase' < Phase
    PROVE  StepsLeft' < StepsLeft
<1> DEFINE u == Unscanned
           v == Unscanned'
           p == Phase
           q == Phase'
<1>1. u \in Nat /\ p \in 3 .. 8
    BY CountedSteps
<1>2. v \in Nat /\ q \in 3 .. 8
    BY CountedStepsNext
<1>3. (v < u /\ q < p + 8) \/ (v = u /\ q < p)
    OBVIOUS
<1>4. StepsLeft = 8 * u + p /\ StepsLeft' = 8 * v + q
    BY DEF StepsLeft
<1> HIDE DEF u, v, p, q
<1> QED
    BY ONLY <1>1, <1>2, <1>3, <1>4

\* A call that ends has no steps left.
LEMMA EndCounts ==
    ASSUME ReadersInv, pc # "idle", pc' = "idle"
    PROVE  StepsLeft' < StepsLeft
<1>1. StepsLeft' = 0
    BY DEF StepsLeft
<1> QED
    BY <1>1, CountedSteps

\* A chunk that is finished ends the call, and one that is consumed ends it or has
\* the next block read.
LEMMA FinishEnds == ASSUME NEW n, FinishChunk(n) PROVE pc' = "idle"
BY DEF FinishChunk, DiscardOrFail, Return

LEMMA ConsumeGoesOn ==
    ASSUME NEW n, ConsumeBlock(n)
    PROVE  \/ pc' = "idle"
           \/ pc' = "peek" /\ pos' = pos + n /\ UNCHANGED faults
<1>1. DiscardOrFail(n, pc' = "peek" /\ UNCHANGED <<result, handedOut>>)
    BY DEF ConsumeBlock
<1> QED
    BY <1>1 DEF DiscardOrFail, Return

\* The blocks of the RAM readers are the same ones.
LEMMA SameFinish ==
    ASSUME NEW n
    PROVE  /\ RAM!FinishChunk(n) => FinishChunk(n)
           /\ RAM!ConsumeBlock(n) => ConsumeBlock(n)
BY DEF RAM!FinishChunk, FinishChunk, RAM!ConsumeBlock, ConsumeBlock, RAM!DiscardOrFail,
   DiscardOrFail, RAM!Return, Return, RAM!peeker, peeker

\* Each step of a call of an Asymmetric Extremum reader.
LEMMA AEStepCounts ==
    ASSUME ReadersInv, ReadersInv', reader = "AE", Next, pc # "idle"
    PROVE  StepsLeft' < StepsLeft
<1>0. CASE pc' = "idle"
    BY <1>0, EndCounts
<1> SUFFICES ASSUME pc' # "idle" PROVE StepsLeft' < StepsLeft
    BY <1>0
<1>1. IInv
    BY DEF ReadersInv
<1>2. CASE Begin
    BY <1>2 DEF Begin, BeginRead
<1>3. CASE BlockStep
  <2>1. CASE PeekBlock
    <3>1. pc = "peek" /\ pc' = "block" /\ fileSize' = fileSize /\ pos' = pos
      BY <2>1 DEF PeekBlock, file, peeker
    <3>2. Unscanned' = Unscanned /\ Phase = 6 /\ Phase' = 5
      BY <3>1 DEF Unscanned, Within, Phase
    <3> QED
      BY <3>2, GoesOnCounts
  <2>2. CASE BeginFails \/ PeekFails \/ EmptyBlock \/ ShortBlock
    BY <2>2, FinishEnds DEF BeginFails, PeekFails, EmptyBlock, ShortBlock, Return
  <2> QED
    BY <1>3, <2>1, <2>2 DEF BlockStep
<1>4. CASE StartBlock
  <2>1. /\ pc = "block" /\ pc' = "stretch" /\ ValueCount > 0 /\ i' \in {0, 1}
        /\ fileSize' = fileSize /\ pos' = pos /\ ValueCount' = ValueCount
    BY <1>4 DEF StartBlock, file, peeker, block, ValueCount
  <2>2. pos \in Nat /\ fileSize \in Nat
    BY CountedFacts DEF Counted
  <2>3. Unscanned = fileSize - pos /\ Unscanned' = fileSize - (pos + i')
    BY <2>1, <2>2 DEF Unscanned, Within
  <2>4. Phase = 5 /\ Phase' = IF i' < ValueCount THEN 4 ELSE 7
    BY <2>1 DEF Phase
  <2>5. CASE i' = 0
    <3>1. Unscanned' = Unscanned /\ Phase' = 4
      BY <2>1, <2>2, <2>3, <2>4, <2>5
    <3> QED
      BY <2>4, <3>1, GoesOnCounts
  <2>6. CASE i' = 1
    <3>1. Unscanned' < Unscanned /\ Phase' \in {4, 7}
      BY <2>2, <2>3, <2>4, <2>6
    <3> QED
      BY <2>4, <3>1, GoesOnCounts
  <2> QED
    BY <2>1, <2>5, <2>6
<1>5. CASE SkipToDeadline
  <2>1. pc = "stretch" /\ i < ValueCount /\ i' = StretchEnd /\ pc' = pc
        /\ fileSize' = fileSize /\ pos' = pos
    BY <1>5, FinishEnds DEF SkipToDeadline, file, peeker
  <2>2. StretchEnd \in Int /\ StretchEnd > i
    BY <1>1, <2>1, StretchBounds, ScanFacts, InBlock
  <2>3. pos \in Nat /\ fileSize \in Nat /\ i \in Nat
    BY <2>1, CountedFacts DEF Counted
  <2>4. Unscanned' < Unscanned
    BY <2>1, <2>2, <2>3 DEF Unscanned, Within
  <2>5. Phase = 4 /\ Phase' \in {4, 7}
    BY <2>1 DEF Phase
  <2> QED
    BY <2>4, <2>5, GoesOnCounts
<1>6. CASE SkipToTop
  <2>1. /\ pc = "stretch" /\ i < ValueCount /\ TopBytes # {} /\ i' = Min(TopBytes) + 1
        /\ pc' = pc /\ fileSize' = fileSize /\ pos' = pos
    BY <1>6 DEF SkipToTop, file, peeker
  <2>2. StretchEnd \in Int /\ i \in Nat
    BY <1>1, <2>1, StretchBounds, ScanFacts, InBlock
  <2>3. TopBytes \subseteq i .. (StretchEnd - 1)
    BY DEF TopBytes
  <2>4. Min(TopBytes) \in TopBytes
    <3>1. TopBytes \in SUBSET Nat
      BY <2>2, <2>3
    <3> QED
      BY <2>1, <3>1, Minimum
  <2>5. i' \in Int /\ i' > i
    <3> DEFINE m == Min(TopBytes)
    <3>1. m \in i .. (StretchEnd - 1) /\ i' = m + 1
      BY <2>1, <2>3, <2>4
    <3> HIDE DEF m
    <3> QED
      BY ONLY <2>2, <3>1
  <2>6. pos \in Nat /\ fileSize \in Nat
    BY CountedFacts DEF Counted
  <2>7. Unscanned' < Unscanned
    BY <2>1, <2>2, <2>5, <2>6 DEF Unscanned, Within
  <2>8. Phase = 4 /\ Phase' \in {4, 7}
    BY <2>1 DEF Phase
  <2> QED
    BY <2>7, <2>8, GoesOnCounts
<1>7. CASE StartStretch
  <2>1. /\ pc = "stretch" /\ pc' = "values" /\ i < ValueCount /\ end' = StretchEnd /\ i' = i
        /\ fileSize' = fileSize /\ pos' = pos
    BY <1>7 DEF StartStretch, file, peeker
  <2>2. i < StretchEnd
    BY <1>1, <2>1, StretchBounds, ScanFacts, InBlock
  <2>3. Unscanned' = Unscanned /\ Phase = 4 /\ Phase' = 3
    BY <2>1, <2>2 DEF Unscanned, Within, Phase
  <2> QED
    BY <2>3, GoesOnCounts
<1>8. CASE ScanValue
  <2>1. /\ pc = "values" /\ i < end /\ i' = i + 1 /\ pc' = pc
        /\ fileSize' = fileSize /\ pos' = pos
    BY <1>8, FinishEnds DEF ScanValue, file, peeker
  <2>2. pos \in Nat /\ fileSize \in Nat /\ i \in Nat
    BY <2>1, CountedFacts DEF Counted
  <2>3. Unscanned' < Unscanned
    BY <2>1, <2>2 DEF Unscanned, Within
  <2>4. Phase = 3 /\ Phase' \in {3, 8}
    BY <2>1 DEF Phase
  <2> QED
    BY <2>3, <2>4, GoesOnCounts
<1>9. CASE EndStretch
  <2>1. /\ pc = "values" /\ i >= end /\ pc' = "stretch" /\ i' = i /\ end' = end
        /\ fileSize' = fileSize /\ pos' = pos
    BY <1>9 DEF EndStretch, file, peeker, scan
  <2>2. i \in Int /\ end \in Int
    BY <1>1, <2>1, ScanFacts DEF IInv, TypeOK
  <2>3. Unscanned' = Unscanned
    BY <2>1 DEF Unscanned, Within
  <2>4. Phase = 8 /\ Phase' \in {4, 7}
    BY <2>1, <2>2 DEF Phase
  <2> QED
    BY <2>3, <2>4, GoesOnCounts
<1>10. CASE EndBlock
  <2>1. /\ pc = "stretch" /\ i >= ValueCount /\ ConsumeBlock(ValueCount)
        /\ fileSize' = fileSize
    BY <1>10, FinishEnds DEF EndBlock, file
  <2>2. pc' = "peek" /\ pos' = pos + ValueCount
    BY <2>1, ConsumeGoesOn
  <2>3. i = ValueCount /\ i \in Nat
    BY <1>1, <2>1, ScanFacts, InBlock
  <2>4. Unscanned' = Unscanned /\ pos \in Nat
    BY <2>1, <2>2, <2>3, CountedFacts DEF Counted, Unscanned, Within
  <2>5. Phase = 7 /\ Phase' = 6
    BY <2>1, <2>2, <2>3 DEF Phase
  <2> QED
    BY <2>4, <2>5, GoesOnCounts
<1> QED
    BY <1>2, <1>3, <1>4, <1>5, <1>6, <1>7, <1>8, <1>9, <1>10 DEF Next

\* Each step of a call of a RAM reader.
LEMMA RAMStepCounts ==
    ASSUME ReadersInv, ReadersInv', reader = "RAM", RAM!Next, pc # "idle"
    PROVE  StepsLeft' < StepsLeft
<1>0. CASE pc' = "idle"
    BY <1>0, EndCounts
<1> SUFFICES ASSUME pc' # "idle" PROVE StepsLeft' < StepsLeft
    BY <1>0
<1>1. RAMIInv
    BY DEF ReadersInv
<1>2. CASE RAM!Begin
    BY <1>2 DEF RAM!Begin, RAM!BeginRead
<1>3. CASE RAM!BlockStep
  <2>1. CASE RAM!PeekBlock
    <3>1. pc = "peek" /\ pc' = "block" /\ fileSize' = fileSize /\ pos' = pos
      BY <2>1 DEF RAM!PeekBlock, RAM!file, RAM!peeker
    <3>2. Unscanned' = Unscanned /\ Phase = 6 /\ Phase' = 5
      BY <3>1 DEF Unscanned, Within, Phase
    <3> QED
      BY <3>2, GoesOnCounts
  <2>2. CASE RAM!BeginFails \/ RAM!PeekFails \/ RAM!EmptyBlock \/ RAM!FinishShort
    BY <2>2, FinishEnds, SameFinish
    DEF RAM!BeginFails, RAM!PeekFails, RAM!EmptyBlock, RAM!FinishShort, RAM!Return
  <2> QED
    BY <1>3, <2>1, <2>2 DEF RAM!BlockStep
<1>4. CASE RAM!StartBlock
  <2>1. /\ pc = "block" /\ pc' = "bytes" /\ dataLen > 0 /\ i' \in {0, WindowSize}
        /\ end' = RAM!EndOfScan /\ fileSize' = fileSize /\ pos' = pos
    BY <1>4 DEF RAM!StartBlock, RAM!file, RAM!peeker
  <2>2. pos \in Nat /\ fileSize \in Nat /\ WindowSize \in Nat \ {0}
    BY RAMConstants, CountedFacts DEF Counted, RAM!RAMAssumption
  <2>3. Unscanned = fileSize - pos /\ Unscanned' = fileSize - (pos + i')
    BY <2>1, <2>2 DEF Unscanned, Within
  <2>4. Phase = 5 /\ Phase' = IF i' < end' THEN 4 ELSE 7
    BY <2>1 DEF Phase
  <2>5. CASE i' = 0
    <3>1. end' \in Nat /\ end' > 0
      BY <1>1, <2>1, RAMEndOfScanBounds, CountedFacts DEF Counted
    <3>2. Unscanned' = Unscanned /\ Phase' = 4
      BY <2>2, <2>3, <2>4, <2>5, <3>1
    <3> QED
      BY <2>4, <3>2, GoesOnCounts
  <2>6. CASE i' = WindowSize
    <3>1. Unscanned' < Unscanned /\ Phase' \in {4, 7}
      BY <2>2, <2>3, <2>4, <2>6
    <3> QED
      BY <2>4, <3>1, GoesOnCounts
  <2> QED
    BY <2>1, <2>5, <2>6
<1>5. CASE RAM!ScanByte
  <2>1. /\ pc = "bytes" /\ i < end /\ i' = i + 1 /\ pc' = pc
        /\ fileSize' = fileSize /\ pos' = pos
    BY <1>5, FinishEnds, SameFinish DEF RAM!ScanByte, RAM!file, RAM!peeker
  <2>2. pos \in Nat /\ fileSize \in Nat /\ i \in Nat
    BY <2>1, CountedFacts DEF Counted
  <2>3. Unscanned' < Unscanned
    BY <2>1, <2>2 DEF Unscanned, Within
  <2>4. Phase = 4 /\ Phase' \in {4, 7}
    BY <2>1 DEF Phase
  <2> QED
    BY <2>3, <2>4, GoesOnCounts
<1>6. CASE RAM!EndBlock
  <2>1. /\ pc = "bytes" /\ i >= end /\ fileSize' = fileSize /\ RAM!ConsumeBlock(dataLen)
        /\ ~ (RAM!IsLimited /\ blockOffset + end = maximumChunkSize)
    BY <1>6, FinishEnds, SameFinish DEF RAM!EndBlock, RAM!file
  <2>2. pc' = "peek" /\ pos' = pos + dataLen
    BY <2>1, ConsumeGoesOn, SameFinish
  <2>3. i = dataLen /\ i \in Nat /\ end \in Nat
    BY <1>1, <2>1 DEF RAMIInv, RAM!TypeOK, RAM!BlocksTypeOK, RAMScanIsAligned
  <2>4. Unscanned' = Unscanned
    BY <2>1, <2>2, <2>3, CountedFacts DEF Counted, Unscanned, Within
  <2>5. Phase = 7 /\ Phase' = 6
    BY <2>1, <2>2, <2>3 DEF Phase
  <2> QED
    BY <2>4, <2>5, GoesOnCounts
<1> QED
    BY <1>2, <1>3, <1>4, <1>5, <1>6 DEF RAM!Next

\* The end of every call is counted down to: while ReadNextChunk of either reader
\* runs, each step scans a value or a byte, or leads to one, and no block is looked
\* at twice, the bytes of the last region that are kept included.
THEOREM ReadersStepsCount == ReadersSpec => [][pc # "idle" => StepsLeft' < StepsLeft]_readers
<1>1. ReadersInv /\ ReadersInv' /\ [ReadersNext]_readers
         => [pc # "idle" => StepsLeft' < StepsLeft]_readers
  <2> SUFFICES ASSUME ReadersInv, ReadersInv', ReadersNext, pc # "idle"
               PROVE  StepsLeft' < StepsLeft
    OBVIOUS
  <2> QED
    BY AEStepCounts, RAMStepCounts DEF ReadersNext
<1> QED
    BY <1>1, Invariance, PTL DEF ReadersSpec

\* A call is never stuck, and the steps and the calls that are left are numbers.
ReaderGoesOn == /\ StepsLeft \in Nat /\ CallsLeft \in Nat
                /\ pc # "idle" => CanGoOn

\* ReadNextChunk of either reader is never stuck: a block that is not the last one
\* holds a whole region, so that there is something in it to scan.
THEOREM ReadersNeverStuck == ReadersSpec => []ReaderGoesOn
<1>1. ReadersInv => ReaderGoesOn
    BY CountedSteps DEF ReaderGoesOn
<1> QED
    BY <1>1, Invariance, PTL

\* What a step does to the calls that are left.
CallsCount == /\ CallsLeft' <= CallsLeft
              /\ pc' = "idle" => CallsLeft' < CallsLeft \/ result' = "eof"

\* A chunk that is finished, whether it was copied or not, is one call less, and so
\* is a fault on the way.
LEMMA FinishCounts ==
    ASSUME ReadersInv, NEW n \in Nat, pc # "idle", FinishChunk(n), UNCHANGED <<file, begin>>,
           n > 0 \/ ownedChunk > 0
    PROVE  CallsCount
<1>1. /\ fileSize \in Nat /\ begin \in Nat /\ faults \in Nat /\ MaxFaults \in Nat
      /\ ownedChunk \in Nat /\ pos = begin + ownedChunk /\ previousChunkSizeBytes = 0
      /\ fileSize' = fileSize /\ begin' = begin
    BY MaxFaultsAssumption, CountedFacts DEF Counted, file
<1>2. CallsLeft = (fileSize - begin) + (MaxFaults - faults)
    BY DEF CallsLeft
<1>3. pc' = "idle"
    BY FinishEnds
<1>4. CallsLeft' = (fileSize - (pos' + previousChunkSizeBytes')) + (MaxFaults - faults')
    BY <1>1, <1>3 DEF CallsLeft
<1>5. CASE ownedChunk = 0
  <2>1. previousChunkSizeBytes' = n /\ pos' = pos /\ faults' = faults
    BY <1>5 DEF FinishChunk, peeker
  <2> QED
    BY <1>1, <1>2, <1>4, <1>5, <2>1 DEF CallsCount
<1>6. CASE ownedChunk > 0
  <2>1. /\ previousChunkSizeBytes' = 0
        /\ DiscardOrFail(n, Return("chunk") /\ handedOut' = handedOut + ownedChunk')
    BY <1>1, <1>6 DEF FinishChunk
  <2>2. CASE pos' = pos + n /\ UNCHANGED faults
    BY <1>1, <1>2, <1>4, <1>6, <2>1, <2>2 DEF CallsCount
  <2>3. CASE faults' = faults + 1 /\ \E discarded \in 0 .. (n - 1) : pos' = pos + discarded
    BY <1>1, <1>2, <1>4, <2>1, <2>3 DEF CallsCount
  <2> QED
    BY <2>1, <2>2, <2>3 DEF DiscardOrFail
<1> QED
    BY <1>1, <1>5, <1>6

\* A block that is consumed leaves as many calls, unless there is a fault.
LEMMA ConsumeCounts ==
    ASSUME ReadersInv, NEW n \in Nat, pc # "idle", ConsumeBlock(n), UNCHANGED <<file, begin>>
    PROVE  CallsCount
<1>1. /\ fileSize \in Nat /\ begin \in Nat /\ faults \in Nat /\ MaxFaults \in Nat
      /\ ownedChunk \in Nat /\ pos = begin + ownedChunk /\ previousChunkSizeBytes = 0
      /\ fileSize' = fileSize /\ begin' = begin
    BY MaxFaultsAssumption, CountedFacts DEF Counted, file
<1>2. CallsLeft = (fileSize - begin) + (MaxFaults - faults)
    BY DEF CallsLeft
<1>3. /\ previousChunkSizeBytes' = 0
      /\ DiscardOrFail(n, pc' = "peek" /\ UNCHANGED <<result, handedOut>>)
    BY <1>1 DEF ConsumeBlock
<1>4. CASE pc' = "peek" /\ UNCHANGED faults
  <2>1. CallsLeft' = CallsLeft
    BY <1>1, <1>2, <1>4 DEF CallsLeft
  <2> QED
    BY <1>1, <1>2, <1>4, <2>1 DEF CallsCount
<1>5. CASE /\ pc' = "idle" /\ faults' = faults + 1
           /\ \E discarded \in 0 .. (n - 1) : pos' = pos + discarded
  <2>1. CallsLeft' = (fileSize - pos') + (MaxFaults - (faults + 1))
    <3>1. PICK discarded \in 0 .. (n - 1) : pos' = pos + discarded
      BY <1>5
    <3>2. pos' \in Nat
      BY <1>1, <3>1
    <3> QED
      BY <1>1, <1>3, <1>5, <3>2 DEF CallsLeft
  <2>2. CallsLeft' < CallsLeft
    BY <1>1, <1>2, <1>5, <2>1
  <2>3. CallsLeft' \in Int /\ CallsLeft \in Int
    BY <1>1, <1>2, <1>5, <2>1
  <2> QED
    BY <2>2, <2>3 DEF CallsCount
<1> QED
    BY <1>3, <1>4, <1>5 DEF DiscardOrFail, Return

\* A step within a call that copies nothing leaves as many calls.
LEMMA SameCalls ==
    ASSUME ReadersInv, pc # "idle", pc' # "idle", UNCHANGED <<fileSize, begin, faults>>
    PROVE  CallsCount
<1>1. CallsLeft \in Nat
    BY CountedSteps
<1>2. CallsLeft' = CallsLeft
    BY DEF CallsLeft
<1> QED
    BY <1>1, <1>2 DEF CallsCount

\* The next call begins where the last one left off.
LEMMA BeginCounts ==
    ASSUME ReadersInv, BeginRead \/ BeginFails
    PROVE  CallsCount
<1>1. /\ pc = "idle" /\ fileSize \in Nat /\ pos \in Nat /\ previousChunkSizeBytes \in Nat
      /\ faults \in Nat /\ MaxFaults \in Nat /\ fileSize' = fileSize
    BY MaxFaultsAssumption, CountedFacts DEF Counted, BeginRead, BeginFails, file
<1>2. CallsLeft = (fileSize - (pos + previousChunkSizeBytes)) + (MaxFaults - faults)
    BY <1>1 DEF CallsLeft
<1>3. CASE BeginRead
  <2>1. /\ pc' = "peek" /\ begin' = pos + previousChunkSizeBytes /\ faults' = faults
    BY <1>3 DEF BeginRead
  <2>2. CallsLeft' = CallsLeft
    BY <1>1, <1>2, <2>1 DEF CallsLeft
  <2> QED
    BY <1>1, <1>2, <2>1, <2>2 DEF CallsCount
<1>4. CASE BeginFails
  <2>1. PICK discarded \in 0 .. (previousChunkSizeBytes - 1) :
            pos' = pos + discarded
            /\ previousChunkSizeBytes' = previousChunkSizeBytes - discarded
    BY <1>4 DEF BeginFails, RemainderOf
  <2>2. pc' = "idle" /\ faults' = faults + 1
    BY <1>4 DEF BeginFails, Return
  <2>3. pos' + previousChunkSizeBytes' = pos + previousChunkSizeBytes
    BY <1>1, <2>1
  <2>4. CallsLeft' = CallsLeft - 1
    BY <1>1, <1>2, <2>2, <2>3 DEF CallsLeft
  <2> QED
    BY <1>1, <1>2, <2>4 DEF CallsCount
<1> QED
    BY <1>3, <1>4

\* The steps of a call that scan nothing.
LEMMA BlockCounts ==
    ASSUME ReadersInv, PeekFails \/ (EmptyBlock /\ UNCHANGED <<file, begin>>)
    PROVE  CallsCount
<1>1. /\ pc # "idle" /\ fileSize \in Nat /\ begin \in Nat /\ faults \in Nat
      /\ MaxFaults \in Nat /\ fileSize' = fileSize /\ begin' = begin
      /\ ownedChunk \in Nat /\ pos = begin + ownedChunk /\ previousChunkSizeBytes = 0
    BY MaxFaultsAssumption, CountedFacts DEF Counted, PeekFails, EmptyBlock, file, history
<1>2. CallsLeft = (fileSize - begin) + (MaxFaults - faults)
    BY <1>1 DEF CallsLeft
<1>3. CASE PeekFails
  <2>1. /\ pc' = "idle" /\ faults' = faults + 1 /\ pos' = pos
        /\ previousChunkSizeBytes' = previousChunkSizeBytes
    BY <1>3 DEF PeekFails, Return, blocks
  <2>2. CallsLeft' = (fileSize - pos) + (MaxFaults - (faults + 1))
    BY <1>1, <2>1 DEF CallsLeft
  <2> QED
    BY <1>1, <1>2, <2>2 DEF CallsCount
<1>4. CASE EmptyBlock /\ UNCHANGED <<file, begin>>
  <2>1. CASE ownedChunk > 0 /\ FinishChunk(0)
    BY <1>1, <1>4, <2>1, FinishCounts
  <2>2. CASE ownedChunk = 0 /\ Return("eof") /\ UNCHANGED <<peeker, blocks, handedOut>>
    <3>1. /\ pc' = "idle" /\ result' = "eof" /\ pos' = pos /\ faults' = faults
          /\ previousChunkSizeBytes' = previousChunkSizeBytes
      BY <2>2 DEF Return, peeker, blocks
    <3>2. CallsLeft' = CallsLeft
      BY <1>1, <1>2, <2>2, <3>1 DEF CallsLeft
    <3> QED
      BY <1>1, <1>2, <3>1, <3>2 DEF CallsCount
  <2> QED
    BY <1>4, <2>1, <2>2 DEF EmptyBlock
<1> QED
    BY <1>3, <1>4

\* The steps of the Asymmetric Extremum readers.
LEMMA AECallsCount == ASSUME ReadersInv, reader = "AE", Next PROVE CallsCount
<1>1. IInv
    BY DEF ReadersInv
<1>2. CASE Begin
    BY <1>2, BeginCounts DEF Begin
<1>3. CASE BlockStep
  <2>1. CASE BeginFails \/ PeekFails \/ (EmptyBlock /\ UNCHANGED <<file, block, begin>>)
    BY <2>1, BeginCounts, BlockCounts
  <2>2. CASE PeekBlock
    BY <2>2, SameCalls DEF PeekBlock, file, peeker, history
  <2>3. CASE ShortBlock
    BY <2>3, FinishCounts, CountedFacts DEF ShortBlock, Counted
  <2> QED
    BY <1>3, <2>1, <2>2, <2>3 DEF BlockStep
<1>4. CASE StartBlock \/ SkipToTop \/ StartStretch \/ EndStretch
    BY <1>4, SameCalls
    DEF StartBlock, SkipToTop, StartStretch, EndStretch, file, peeker, history
<1>5. CASE SkipToDeadline
  <2>1. /\ pc = "stretch" /\ i < ValueCount /\ UNCHANGED <<file, begin>>
        /\ FinishChunk(StretchEnd) \/ UNCHANGED <<peeker, pc>>
    BY <1>5 DEF SkipToDeadline
  <2>2. StretchEnd \in Nat /\ StretchEnd > 0
    BY <1>1, <2>1, StretchBounds, ScanFacts, InBlock
  <2>3. CASE FinishChunk(StretchEnd)
    BY <2>1, <2>2, <2>3, FinishCounts
  <2>4. CASE UNCHANGED <<peeker, pc>>
    BY <2>1, <2>4, SameCalls DEF file, peeker
  <2> QED
    BY <2>1, <2>3, <2>4
<1>6. CASE ScanValue
  <2>1. /\ pc = "values" /\ UNCHANGED <<file, begin>>
        /\ FinishChunk(i + 1) \/ UNCHANGED <<peeker, pc>>
    BY <1>6 DEF ScanValue
  <2>2. i + 1 \in Nat /\ i + 1 > 0
    BY <2>1, CountedFacts DEF Counted
  <2>3. CASE FinishChunk(i + 1)
    BY <2>1, <2>2, <2>3, FinishCounts
  <2>4. CASE UNCHANGED <<peeker, pc>>
    BY <2>1, <2>4, SameCalls DEF file, peeker
  <2> QED
    BY <2>1, <2>3, <2>4
<1>7. CASE EndBlock
  <2>1. /\ pc = "stretch" /\ UNCHANGED <<file, begin>>
        /\ FinishChunk(dataLen) \/ ConsumeBlock(ValueCount)
    BY <1>7 DEF EndBlock
  <2>2. ValueCount \in Nat /\ dataLen \in Nat /\ dataLen > 0
    BY <1>1, <2>1, ScanFacts, InBlock
  <2> QED
    BY <2>1, <2>2, FinishCounts, ConsumeCounts
<1> QED
    BY <1>2, <1>3, <1>4, <1>5, <1>6, <1>7 DEF Next

\* The blocks of the RAM readers begin, fail and end as the others.
LEMMA SameBlocks ==
    /\ RAM!BeginRead => BeginRead
    /\ RAM!BeginFails => BeginFails
    /\ RAM!PeekFails => PeekFails
    /\ RAM!EmptyBlock => EmptyBlock
<1>1. RAM!BeginRead => BeginRead
    BY DEF RAM!BeginRead, BeginRead, RAM!file, file, RAM!block, block
<1>2. RAM!BeginFails => BeginFails
    BY DEF RAM!BeginFails, BeginFails, RAM!RemainderOf, RemainderOf, RAM!Return, Return,
       RAM!file, file, RAM!block, block, RAM!history, history
<1>3. RAM!PeekFails => PeekFails
    BY DEF RAM!PeekFails, PeekFails, RAM!Return, Return, RAM!file, file, RAM!blocks, blocks,
       RAM!block, block, RAM!history, history
<1>4. RAM!EmptyBlock => EmptyBlock
    BY SameFinish DEF RAM!EmptyBlock, EmptyBlock, RAM!Return, Return, RAM!peeker, peeker,
       RAM!blocks, blocks
<1> QED
    BY <1>1, <1>2, <1>3, <1>4

\* The steps of the RAM readers: the limit of a chunk leaves a byte of it, whether
\* it falls within the first block or a later one.
LEMMA RAMCallsCount == ASSUME ReadersInv, reader = "RAM", RAM!Next PROVE CallsCount
<1>1. RAMIInv
    BY DEF ReadersInv
<1>2. CASE RAM!Begin
    BY <1>2, BeginCounts, SameBlocks DEF RAM!Begin
<1>3. CASE RAM!BlockStep
  <2>1. CASE \/ RAM!BeginFails \/ RAM!PeekFails
             \/ (RAM!EmptyBlock /\ UNCHANGED <<RAM!file, RAM!block, begin>>)
    BY <2>1, BeginCounts, BlockCounts, SameBlocks DEF RAM!file, file
  <2>2. CASE RAM!PeekBlock
    BY <2>2, SameCalls DEF RAM!PeekBlock, RAM!file, RAM!peeker, RAM!history
  <2>3. CASE RAM!FinishShort
    <3>1. /\ pc = "block" /\ dataLen > 0 /\ FinishChunk(RAM!EndOfScan)
          /\ UNCHANGED <<file, begin>>
      BY <2>3, SameFinish DEF RAM!FinishShort, RAM!file, file
    <3>2. RAM!EndOfScan \in Nat /\ RAM!EndOfScan > 0
      BY <1>1, <3>1, RAMEndOfScanBounds, CountedFacts DEF Counted
    <3> QED
      BY <3>1, <3>2, FinishCounts
  <2> QED
    BY <1>3, <2>1, <2>2, <2>3 DEF RAM!BlockStep
<1>4. CASE RAM!StartBlock
    BY <1>4, SameCalls DEF RAM!StartBlock, RAM!file, RAM!peeker, RAM!history
<1>5. CASE RAM!ScanByte
  <2>1. /\ pc = "bytes" /\ UNCHANGED <<file, begin>>
        /\ FinishChunk(i + 1) \/ UNCHANGED <<peeker, pc>>
    BY <1>5, SameFinish DEF RAM!ScanByte, RAM!file, file, RAM!peeker, peeker
  <2>2. i + 1 \in Nat /\ i + 1 > 0
    BY <2>1, CountedFacts DEF Counted
  <2>3. CASE FinishChunk(i + 1)
    BY <2>1, <2>2, <2>3, FinishCounts
  <2>4. CASE UNCHANGED <<peeker, pc>>
    BY <2>1, <2>4, SameCalls DEF file, peeker
  <2> QED
    BY <2>1, <2>3, <2>4
<1>6. CASE RAM!EndBlock
  <2>1. /\ pc = "bytes" /\ UNCHANGED <<file, begin>>
        /\ \/ FinishChunk(end) /\ RAM!IsLimited /\ blockOffset + end = maximumChunkSize
           \/ FinishChunk(dataLen) \/ ConsumeBlock(dataLen)
    BY <1>6, SameFinish DEF RAM!EndBlock, RAM!file, file
  <2>2. dataLen \in Nat /\ dataLen > 0 /\ end \in Nat /\ ownedChunk \in Nat
        /\ blockOffset = ownedChunk /\ maximumChunkSize \in Nat
    BY <1>1, <2>1, RAMConstants
    DEF RAM!RAMAssumption, RAMIInv, RAM!TypeOK, RAM!BlocksTypeOK, RAMScanIsAligned
  <2>3. ASSUME RAM!IsLimited, blockOffset + end = maximumChunkSize
        PROVE  end > 0 \/ ownedChunk > 0
    BY <2>2, <2>3 DEF RAM!IsLimited
  <2> QED
    BY <2>1, <2>2, <2>3, FinishCounts, ConsumeCounts
<1> QED
    BY <1>2, <1>3, <1>4, <1>5, <1>6 DEF RAM!Next

\* There are only so many calls: each one that ends otherwise than with io.EOF
\* leaves fewer, a Discard or a Peek that fails included, and no step leaves more.
\* No call of either reader hands out an empty chunk.
THEOREM ReadersCallsCount == ReadersSpec => [][CallsCount]_readers
<1>1. ReadersInv /\ [ReadersNext]_readers => [CallsCount]_readers
    BY AECallsCount, RAMCallsCount DEF ReadersNext
<1> QED
    BY <1>1, Invariance, PTL DEF ReadersSpec

=============================================================================
