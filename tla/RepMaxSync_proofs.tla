-------------------------- MODULE RepMaxSync_proofs --------------------------
(***************************************************************************)
(* Proofs about DiscardUpToGuaranteedChunk, for every minimum size, window,*)
(* file and position of the stream: the streaming hash never leaves a gap, *)
(* and the search only stops at a point whose score stands out from all    *)
(* points less than MinSize away, which is a boundary of the whole file.   *)
(* Pieces of a file that begin at such boundaries have the chunks that the *)
(* file has.                                                               *)
(***************************************************************************)
EXTENDS RepMaxSync, TLAPS

\* What is proved of the cutting rule holds with the chunker's horizon, which is a
\* natural number like the constant it stands for.
RuleProofs == INSTANCE RepMaxRule_proofs WITH Horizon <- horizon

-----------------------------------------------------------------------------
\* The inductive invariant

\* Where the current region begins: its MinSize - 1 points come after here.
RegionStart == pos + bytesUntilNextRegion - (MinSize - 1)

\* The point is the end of a whole window of the stream.
IsSeen(p) == p >= start + Window

\* The two maxima bound the scores of their regions, as far as they are
\* scanned.  A maximum below the initial one is of a region seen whole.
MaximaBound ==
    /\ \A p \in (RegionStart - MinSize + 2) .. RegionStart :
          IsSeen(p) => score[p] <= maximumCurrent
    /\ \A p \in (RegionStart + 1) .. hashed : IsSeen(p) => score[p] <= maximumNext
    /\ maximumCurrent < MaxHash => IsSeen(RegionStart - MinSize + 2)
    /\ maximumNext < MaxHash => IsSeen(RegionStart + 1)
    /\ IsSeen(pos + bytesUntilNextRegion + 1)
    /\ maximumCurrent < MaxHash => bytesUntilNextRegion <= MinSize - 2

\* While the current region's maximum exceeds the region before, the stream
\* stands at the point that has it, and nothing earlier in the region has.
CandidateIsFirst ==
    maximumNext > maximumCurrent =>
        /\ IsSeen(pos) /\ pos > RegionStart
        /\ score[pos] = maximumNext
        /\ \A p \in (RegionStart + 1) .. (pos - 1) : score[p] < score[pos]

\* In the leading portion maximumCurrent is the candidate's score, and
\* maximumNext bounds what was scanned of the region after it.
CandidateStandsOut ==
    /\ IsSeen(pos - (MinSize - 1))
    /\ score[pos] = maximumCurrent
    /\ maximumNext <= maximumCurrent
    /\ \A p \in (pos - (MinSize - 1)) .. (pos - 1) : score[p] < score[pos]
    /\ \A p \in (pos + 1) .. hashed : score[p] <= score[pos]
    /\ \A p \in (pos + bytesUntilNextRegion + 1) .. hashed : score[p] <= maximumNext
    /\ \A p \in (RegionStart + 1) .. (pos + bytesUntilNextRegion) :
          IsSeen(p) => score[p] <= maximumCurrent
    /\ IsSeen(RegionStart + 1)

IInv ==
    /\ TypeOK
    /\ HashIsAligned
    /\ FoundIsLocalMaximum
    /\ pc \in {"peek", "trailing"} => MaximaBound /\ CandidateIsFirst
    /\ pc = "leading" => CandidateStandsOut

-----------------------------------------------------------------------------
\* The steps

\* The initial states satisfy the invariant: no search is under way.
LEMMA InitIInv == Init => IInv
<1> SUFFICES ASSUME Init PROVE IInv
    OBVIOUS
<1>1. TypeOK
    BY WindowAssumption, MinSizeAssumption, MaxHashAssumption, FilesAssumption,
       MaxFaultsAssumption DEF Init, TypeOK
<1> QED
    BY <1>1 DEF Init, IInv, HashIsAligned, FoundIsLocalMaximum

\* A call begins with maxima that nothing exceeds and a window yet to be filled.
LEMMA CallIInv ==
    ASSUME IInv, Call PROVE IInv'
<1>1. TypeOK'
    BY WindowAssumption, MinSizeAssumption, MaxHashAssumption
    DEF IInv, TypeOK, Call, chunker, peeker
<1>2. HashIsAligned'
    BY WindowAssumption, MinSizeAssumption DEF IInv, TypeOK, HashIsAligned, Call, chunker, peeker
<1>3. (MaximaBound /\ CandidateIsFirst)'
    BY WindowAssumption, MinSizeAssumption, MaxHashAssumption
    DEF IInv, TypeOK, MaximaBound, CandidateIsFirst, RegionStart, IsSeen, Call,
        chunker, peeker
<1> QED
    BY <1>1, <1>2, <1>3 DEF IInv, FoundIsLocalMaximum, Call

\* The returns leave the search as it is.
LEMMA ReturnIInv ==
    ASSUME IInv, PeekFails \/ PeekShort \/ Found PROVE IInv'
<1>1. TypeOK'
    BY MaxFaultsAssumption
    DEF IInv, TypeOK, PeekFails, PeekShort, Found, Return, chunker, peeker, search
<1>2. HashIsAligned'
    BY DEF IInv, HashIsAligned, PeekFails, PeekShort, Found, Return, chunker, peeker, search
<1>3. FoundIsLocalMaximum'
  <2>1. CASE PeekFails \/ PeekShort
    BY <2>1 DEF PeekFails, PeekShort, Return, FoundIsLocalMaximum
  <2>2. CASE Found
    <3>1. scanned = MinSize - 1 /\ hashed = pos + MinSize - 1
      BY <2>2, MinSizeAssumption DEF IInv, TypeOK, HashIsAligned, Found
    <3>2. CandidateStandsOut
      BY <2>2 DEF IInv, Found
    <3> QED
      BY <2>2, <3>1, <3>2, MinSizeAssumption, WindowAssumption
      DEF IInv, TypeOK, CandidateStandsOut, IsSeen, FoundIsLocalMaximum, Found, Return,
          chunker, peeker, search
  <2> QED
    BY <2>1, <2>2
<1> QED
    BY <1>1, <1>2, <1>3 DEF IInv, PeekFails, PeekShort, Found, Return

\* The next round begins where the last one discarded to.
LEMMA PeekFullIInv ==
    ASSUME IInv, PeekFull PROVE IInv'
<1>1. TypeOK'
    BY DEF IInv, TypeOK, PeekFull, chunker, peeker
<1>2. HashIsAligned'
    BY MinSizeAssumption DEF IInv, TypeOK, HashIsAligned, PeekFull, chunker, peeker
<1>3. (MaximaBound /\ CandidateIsFirst)'
    BY DEF IInv, MaximaBound, CandidateIsFirst, RegionStart, IsSeen, PeekFull,
           chunker, peeker
<1> QED
    BY <1>1, <1>2, <1>3 DEF IInv, FoundIsLocalMaximum, PeekFull

-----------------------------------------------------------------------------
\* The three scans.  In each the hash moves to the next point, and where that
\* point is seen its value is the score there.

LEMMA HashedPoint ==
    ASSUME IInv, pc \in {"trailing", "leading"}, AddByte,
           scanned < MinSize, UNCHANGED <<chunker, start>>,
           NEW value \in ValuesAt(hashed')
    PROVE  /\ hashed' = hashed + 1 /\ hashed' = pos + scanned'
           /\ scanned' \in Nat /\ scanned' = scanned + 1
           /\ hashed' <= fileSize
           /\ value \in 0 .. MaxHash
           /\ IsSeen(hashed') => /\ value = score[hashed']
                                /\ score[hashed'] \in 0 .. MaxHash
           /\ scanned \in Nat /\ hashed \in Int /\ pos \in Nat /\ start \in Nat
           /\ bytesUntilNextRegion \in 0 .. (MinSize - 1)
           /\ maximumCurrent \in 0 .. MaxHash /\ maximumNext \in 0 .. MaxHash
           /\ fileSize \in Nat
           /\ \A p \in Int : IsSeen(p) /\ p <= hashed' => score[p] \in 0 .. MaxHash
<1>0. /\ scanned \in Nat /\ hashed \in Int /\ pos \in Nat /\ start \in Nat
      /\ maximumCurrent \in 0 .. MaxHash /\ maximumNext \in 0 .. MaxHash
      /\ fileSize \in Nat /\ MinSize \in Nat
      /\ hashed = pos + scanned /\ pos + MinSize <= fileSize
      /\ bytesUntilNextRegion \in 0 .. (MinSize - 1)
    BY MinSizeAssumption DEF IInv, TypeOK, HashIsAligned
<1>1. hashed' = hashed + 1 /\ scanned' = scanned + 1 /\ hashed' <= fileSize
    BY <1>0 DEF AddByte
<1>2. \A p \in Int : IsSeen(p) /\ p <= hashed' => score[p] \in 0 .. MaxHash
    BY <1>1, WindowAssumption, MinSizeAssumption DEF IInv, TypeOK, IsSeen
<1>3. value \in 0 .. MaxHash
    BY <1>1, <1>2, MinSizeAssumption, WindowAssumption DEF IInv, TypeOK, ValuesAt, IsSeen
<1>4. IsSeen(hashed') => value = score[hashed']
    BY <1>1, WindowAssumption, MinSizeAssumption DEF IInv, TypeOK, ValuesAt, IsSeen
<1> QED
    BY <1>0, <1>1, <1>2, <1>3, <1>4

\* A discard that fails ends the call.
LEMMA FailedIInv ==
    ASSUME IInv, pc' = "idle", result' = "error", TypeOK', HashIsAligned'
    PROVE  IInv'
BY DEF IInv, FoundIsLocalMaximum

\* A byte of the trailing portion, with or without a new candidate.
LEMMA ScanTrailingIInv ==
    ASSUME IInv, ScanTrailing PROVE IInv'
<1> PICK value \in ValuesAt(hashed') :
        /\ maximumNext' = Larger(maximumNext, value)
        /\ IF Exceeds(value)
           THEN /\ DiscardScanned(scanned')
                /\ bytesUntilNextRegion' = bytesUntilNextRegion - scanned'
           ELSE UNCHANGED <<pos, faults, bytesUntilNextRegion, pc, result>>
    BY DEF ScanTrailing
<1>0. /\ pc = "trailing" /\ scanned < bytesUntilNextRegion /\ AddByte
      /\ UNCHANGED <<chunker, start, maximumCurrent>>
      /\ scanned < MinSize /\ MinSize \in Nat /\ MinSize > 1
      /\ MaxHash \in Nat /\ Window \in Nat
    BY MinSizeAssumption, MaxHashAssumption, WindowAssumption
    DEF ScanTrailing, IInv, TypeOK, HashIsAligned
<1>1. /\ hashed' = hashed + 1 /\ hashed' = pos + scanned'
      /\ scanned' \in Nat /\ scanned' = scanned + 1
      /\ hashed' <= fileSize
      /\ value \in 0 .. MaxHash
      /\ IsSeen(hashed') => /\ value = score[hashed']
                           /\ score[hashed'] \in 0 .. MaxHash
      /\ scanned \in Nat /\ hashed \in Int /\ pos \in Nat /\ start \in Nat
      /\ bytesUntilNextRegion \in 0 .. (MinSize - 1)
      /\ maximumCurrent \in 0 .. MaxHash /\ maximumNext \in 0 .. MaxHash
      /\ fileSize \in Nat
      /\ \A p \in Int : IsSeen(p) /\ p <= hashed' => score[p] \in 0 .. MaxHash
    BY <1>0, HashedPoint
<1>2. maximumNext' \in 0 .. MaxHash /\ maximumNext' >= maximumNext /\ maximumNext' >= value
    BY <1>0, <1>1 DEF Larger
<1>3. MaximaBound /\ CandidateIsFirst
    BY <1>0 DEF IInv
<1>4. CASE ~ Exceeds(value)
  <2>1. TypeOK' /\ HashIsAligned'
    BY <1>0, <1>1, <1>2, <1>4 DEF IInv, TypeOK, HashIsAligned, chunker
  <2>2. MaximaBound'
    BY <1>0, <1>1, <1>2, <1>3, <1>4 DEF MaximaBound, RegionStart, IsSeen, chunker
  <2>3. CandidateIsFirst'
    BY <1>0, <1>1, <1>3, <1>4
    DEF CandidateIsFirst, RegionStart, IsSeen, Exceeds, Larger, chunker
  <2> QED
    BY <1>0, <1>4, <2>1, <2>2, <2>3 DEF IInv, FoundIsLocalMaximum
<1>5. CASE Exceeds(value)
  \* The maxima were below MaxHash, so both regions are seen whole.
  <2>1. /\ IsSeen(RegionStart - MinSize + 2) /\ IsSeen(RegionStart + 1)
        /\ IsSeen(hashed') /\ value = score[hashed'] /\ maximumNext' = value
    BY <1>0, <1>1, <1>3, <1>5
    DEF MaximaBound, Exceeds, Larger, RegionStart, IsSeen, IInv, TypeOK, HashIsAligned
  <2>2. CASE pc' = "peek" /\ pos' = pos + scanned' /\ UNCHANGED <<faults, result>>
    <3>1. RegionStart' = RegionStart /\ pos' = hashed'
      BY <1>0, <1>1, <1>5, <2>2 DEF RegionStart
    <3>2. TypeOK' /\ HashIsAligned'
      BY <1>0, <1>1, <1>2, <1>5, <2>2 DEF IInv, TypeOK, HashIsAligned, chunker
    <3>3. MaximaBound'
      BY <1>0, <1>1, <1>2, <1>3, <1>5, <2>1, <2>2, <3>1
      DEF MaximaBound, RegionStart, IsSeen, chunker
    <3>4. CandidateIsFirst'
      BY <1>0, <1>1, <1>3, <1>5, <2>1, <2>2, <3>1
      DEF CandidateIsFirst, MaximaBound, RegionStart, IsSeen, Exceeds, chunker
    <3> QED
      BY <2>2, <3>2, <3>3, <3>4 DEF IInv, FoundIsLocalMaximum
  <2>3. CASE /\ faults < MaxFaults /\ faults' = faults + 1
             /\ \E discarded \in 0 .. (scanned' - 1) : pos' = pos + discarded
             /\ pc' = "idle" /\ result' = "error"
    <3>1. TypeOK' /\ HashIsAligned'
      BY <1>0, <1>1, <1>2, <1>5, <2>3, MaxFaultsAssumption
      DEF IInv, TypeOK, HashIsAligned, chunker
    <3> QED
      BY <2>3, <3>1, FailedIInv
  <2> QED
    BY <1>5, <2>2, <2>3 DEF DiscardScanned, Return
<1> QED
    BY <1>4, <1>5

\* The first byte of the next region: the candidate is kept or left behind.
LEMMA EnterRegionIInv ==
    ASSUME IInv, EnterRegion PROVE IInv'
<1> PICK value \in ValuesAt(hashed') :
        /\ maximumCurrent' = maximumNext
        /\ maximumNext' = value
        /\ IF NotGuaranteed(maximumCurrent, maximumNext, value)
           THEN /\ DiscardScanned(bytesUntilNextRegion + 1)
                /\ bytesUntilNextRegion' = MinSize - 2
           ELSE /\ pc' = "leading"
                /\ UNCHANGED <<pos, faults, bytesUntilNextRegion, result>>
    BY DEF EnterRegion
<1>0. /\ pc = "trailing" /\ scanned = bytesUntilNextRegion /\ AddByte
      /\ UNCHANGED <<chunker, start>>
      /\ scanned < MinSize /\ MinSize \in Nat /\ MinSize > 1
      /\ MaxHash \in Nat /\ Window \in Nat
    BY MinSizeAssumption, MaxHashAssumption, WindowAssumption
    DEF EnterRegion, IInv, TypeOK, HashIsAligned
<1>1. /\ hashed' = hashed + 1 /\ hashed' = pos + scanned'
      /\ scanned' \in Nat /\ scanned' = scanned + 1
      /\ hashed' <= fileSize
      /\ value \in 0 .. MaxHash
      /\ IsSeen(hashed') => /\ value = score[hashed']
                           /\ score[hashed'] \in 0 .. MaxHash
      /\ scanned \in Nat /\ hashed \in Int /\ pos \in Nat /\ start \in Nat
      /\ bytesUntilNextRegion \in 0 .. (MinSize - 1)
      /\ maximumCurrent \in 0 .. MaxHash /\ maximumNext \in 0 .. MaxHash
      /\ fileSize \in Nat
      /\ \A p \in Int : IsSeen(p) /\ p <= hashed' => score[p] \in 0 .. MaxHash
    BY <1>0, HashedPoint
<1>2. MaximaBound /\ CandidateIsFirst
    BY <1>0 DEF IInv
<1>3. IsSeen(hashed') /\ value = score[hashed']
    BY <1>0, <1>1, <1>2 DEF MaximaBound, IsSeen
<1>4. CASE NotGuaranteed(maximumCurrent, maximumNext, value)
  <2>1. CASE pc' = "peek" /\ pos' = pos + scanned' /\ UNCHANGED <<faults, result>>
    <3>1. RegionStart' = pos + bytesUntilNextRegion /\ pos' = hashed'
      BY <1>0, <1>1, <1>4, <2>1 DEF RegionStart
    <3>2. TypeOK' /\ HashIsAligned'
      BY <1>0, <1>1, <1>4, <2>1 DEF IInv, TypeOK, HashIsAligned, chunker
    <3>3. MaximaBound'
      BY <1>0, <1>1, <1>2, <1>3, <1>4, <2>1, <3>1
      DEF MaximaBound, RegionStart, IsSeen, chunker
    <3>4. CandidateIsFirst'
      BY <1>0, <1>1, <1>2, <1>3, <1>4, <2>1, <3>1
      DEF CandidateIsFirst, RegionStart, IsSeen, chunker
    <3> QED
      BY <2>1, <3>2, <3>3, <3>4 DEF IInv, FoundIsLocalMaximum
  <2>2. CASE /\ faults < MaxFaults /\ faults' = faults + 1
             /\ \E discarded \in 0 .. (scanned' - 1) : pos' = pos + discarded
             /\ pc' = "idle" /\ result' = "error"
    <3>1. TypeOK' /\ HashIsAligned'
      BY <1>0, <1>1, <1>4, <2>2, MaxFaultsAssumption
      DEF IInv, TypeOK, HashIsAligned, chunker
    <3> QED
      BY <2>2, <3>1, FailedIInv
  <2> QED
    BY <1>0, <1>1, <1>4, <2>1, <2>2 DEF DiscardScanned, Return
<1>5. CASE ~ NotGuaranteed(maximumCurrent, maximumNext, value)
  \* The candidate exceeds the region before, which is therefore seen whole.
  <2>1. /\ maximumNext > maximumCurrent /\ value <= maximumNext
        /\ IsSeen(RegionStart - MinSize + 2)
        /\ score[pos] = maximumNext /\ IsSeen(pos) /\ pos > RegionStart
        /\ bytesUntilNextRegion <= MinSize - 2
    BY <1>0, <1>1, <1>2, <1>5 DEF NotGuaranteed, MaximaBound, CandidateIsFirst
  <2>2. TypeOK' /\ HashIsAligned'
    BY <1>0, <1>1, <1>5, <2>1 DEF IInv, TypeOK, HashIsAligned, chunker
  <2>3. \A p \in (pos - (MinSize - 1)) .. (pos - 1) : score[p] < score[pos]
    <3> SUFFICES ASSUME NEW p \in (pos - (MinSize - 1)) .. (pos - 1)
                 PROVE  score[p] < score[pos]
        OBVIOUS
    <3>1. IsSeen(p) /\ score[p] \in 0 .. MaxHash
      BY <1>0, <1>1, <2>1 DEF IsSeen, RegionStart
    <3>2. CASE p <= RegionStart
      BY <1>0, <1>1, <1>2, <2>1, <3>1, <3>2 DEF MaximaBound, RegionStart
    <3>3. CASE p > RegionStart
      BY <1>0, <1>1, <1>2, <2>1, <3>1, <3>3 DEF CandidateIsFirst, RegionStart
    <3> QED
      BY <1>0, <1>1, <3>2, <3>3 DEF RegionStart
  <2>4. CandidateStandsOut'
    BY <1>0, <1>1, <1>2, <1>3, <1>5, <2>1, <2>3
    DEF CandidateStandsOut, MaximaBound, RegionStart, IsSeen, HashIsAligned, IInv, chunker
  <2> QED
    BY <1>0, <1>5, <2>2, <2>4 DEF IInv, FoundIsLocalMaximum
<1> QED
    BY <1>4, <1>5

\* A byte of the leading portion, which may exceed the candidate.
LEMMA ScanLeadingIInv ==
    ASSUME IInv, ScanLeading PROVE IInv'
<1> PICK value \in ValuesAt(hashed') :
        /\ maximumNext' = Larger(maximumNext, value)
        /\ IF Exceeds(value)
           THEN /\ DiscardScanned(scanned')
                /\ bytesUntilNextRegion' =
                      LeftOfNextRegion(scanned' - bytesUntilNextRegion - 1)
           ELSE UNCHANGED <<pos, faults, bytesUntilNextRegion, pc, result>>
    BY DEF ScanLeading
<1>0. /\ pc = "leading" /\ scanned < MinSize - 1 /\ AddByte
      /\ UNCHANGED <<chunker, start, maximumCurrent>>
      /\ scanned < MinSize /\ MinSize \in Nat /\ MinSize > 1
      /\ MaxHash \in Nat /\ Window \in Nat
      /\ scanned \in (bytesUntilNextRegion + 1) .. (MinSize - 1)
    BY MinSizeAssumption, MaxHashAssumption, WindowAssumption
    DEF ScanLeading, IInv, TypeOK, HashIsAligned
<1>1. /\ hashed' = hashed + 1 /\ hashed' = pos + scanned'
      /\ scanned' \in Nat /\ scanned' = scanned + 1
      /\ hashed' <= fileSize
      /\ value \in 0 .. MaxHash
      /\ IsSeen(hashed') => /\ value = score[hashed']
                           /\ score[hashed'] \in 0 .. MaxHash
      /\ scanned \in Nat /\ hashed \in Int /\ pos \in Nat /\ start \in Nat
      /\ bytesUntilNextRegion \in 0 .. (MinSize - 1)
      /\ maximumCurrent \in 0 .. MaxHash /\ maximumNext \in 0 .. MaxHash
      /\ fileSize \in Nat
      /\ \A p \in Int : IsSeen(p) /\ p <= hashed' => score[p] \in 0 .. MaxHash
    BY <1>0, HashedPoint
<1>2. CandidateStandsOut
    BY <1>0 DEF IInv
<1>3. IsSeen(hashed') /\ value = score[hashed'] /\ IsSeen(pos)
    BY <1>0, <1>1, <1>2 DEF CandidateStandsOut, IsSeen
<1>4. CASE ~ Exceeds(value)
  <2>1. TypeOK' /\ HashIsAligned'
    BY <1>0, <1>1, <1>4 DEF IInv, TypeOK, HashIsAligned, Larger, chunker
  <2>2. /\ maximumNext' \in 0 .. MaxHash
        /\ maximumNext' <= maximumCurrent /\ maximumNext' >= maximumNext
        /\ value <= maximumNext'
    BY <1>0, <1>1, <1>2, <1>4 DEF Exceeds, Larger, CandidateStandsOut
  <2>3. UNCHANGED <<score, pos, start, bytesUntilNextRegion, maximumCurrent>>
    BY <1>0, <1>4 DEF chunker
  <2>4. \A p \in (pos + 1) .. hashed' : score[p] <= score[pos]
    BY <1>0, <1>1, <1>2, <1>3, <2>2 DEF CandidateStandsOut
  <2>5. \A p \in (pos + bytesUntilNextRegion + 1) .. hashed' : score[p] <= maximumNext'
    <3> SUFFICES ASSUME NEW p \in (pos + bytesUntilNextRegion + 1) .. hashed'
                 PROVE  score[p] <= maximumNext'
        OBVIOUS
    <3>1. CASE p = hashed'
      BY <1>3, <2>2, <3>1
    <3>2. CASE p # hashed'
      <4>1. score[p] <= maximumNext /\ score[p] \in 0 .. MaxHash
        BY <1>0, <1>1, <1>2, <1>3, <3>2 DEF CandidateStandsOut, IsSeen
      <4> QED
        BY <1>0, <1>1, <1>3, <2>2, <4>1 DEF Larger
    <3> QED
      BY <3>1, <3>2
  <2>6. CandidateStandsOut'
    BY <1>0, <1>1, <1>2, <2>2, <2>3, <2>4, <2>5
    DEF CandidateStandsOut, RegionStart, IsSeen
  <2> QED
    BY <1>0, <1>4, <2>1, <2>6 DEF IInv, FoundIsLocalMaximum
<1>5. CASE Exceeds(value)
  <2>1. maximumNext' = value /\ value > maximumNext /\ value > maximumCurrent
    BY <1>0, <1>1, <1>5 DEF Exceeds, Larger
  <2>2. CASE pc' = "peek" /\ pos' = pos + scanned' /\ UNCHANGED <<faults, result>>
    <3>1. /\ bytesUntilNextRegion' = MinSize - scanned' + bytesUntilNextRegion - 1
          /\ RegionStart' = pos + bytesUntilNextRegion /\ pos' = hashed'
      BY <1>0, <1>1, <1>5, <2>2 DEF RegionStart, LeftOfNextRegion
    <3>2. TypeOK' /\ HashIsAligned'
      BY <1>0, <1>1, <1>5, <2>1, <2>2, <3>1 DEF IInv, TypeOK, HashIsAligned, chunker
    <3>3. MaximaBound'
      BY <1>0, <1>1, <1>2, <1>3, <1>5, <2>1, <2>2, <3>1
      DEF MaximaBound, CandidateStandsOut, RegionStart, IsSeen, chunker
    <3>4. CandidateIsFirst'
      BY <1>0, <1>1, <1>2, <1>3, <1>5, <2>1, <2>2, <3>1
      DEF CandidateIsFirst, CandidateStandsOut, RegionStart, IsSeen, chunker
    <3> QED
      BY <2>2, <3>2, <3>3, <3>4 DEF IInv, FoundIsLocalMaximum
  <2>3. CASE /\ faults < MaxFaults /\ faults' = faults + 1
             /\ \E discarded \in 0 .. (scanned' - 1) : pos' = pos + discarded
             /\ pc' = "idle" /\ result' = "error"
    <3>1. TypeOK' /\ HashIsAligned'
      BY <1>0, <1>1, <1>5, <2>1, <2>3, MaxFaultsAssumption
      DEF IInv, TypeOK, HashIsAligned, LeftOfNextRegion, chunker
    <3> QED
      BY <2>3, <3>1, FailedIInv
  <2> QED
    BY <1>5, <2>2, <2>3 DEF DiscardScanned, Return
<1> QED
    BY <1>4, <1>5

-----------------------------------------------------------------------------
\* The theorems

\* The invariant only speaks of the variables.
LEMMA StutterIInv ==
    ASSUME IInv, UNCHANGED vars PROVE IInv'
BY DEF IInv, vars, chunker, peeker, search, TypeOK, HashIsAligned,
       FoundIsLocalMaximum, MaximaBound, CandidateIsFirst, CandidateStandsOut,
       RegionStart, IsSeen

\* Every step preserves the invariant.
LEMMA NextIInv ==
    ASSUME IInv, [Next]_vars PROVE IInv'
BY CallIInv, ReturnIInv, PeekFullIInv, ScanTrailingIInv, EnterRegionIInv,
   ScanLeadingIInv, StutterIInv DEF Next

\* The invariant holds throughout, from which the properties follow.
THEOREM Invariance == Spec => []IInv
<1>1. Init => IInv
    BY InitIInv
<1>2. IInv /\ [Next]_vars => IInv'
    BY NextIInv
<1> QED
    BY <1>1, <1>2, PTL DEF Spec

\* Every variable keeps its type.
THEOREM TypeCorrect == Spec => []TypeOK
<1>1. IInv => TypeOK
    BY DEF IInv
<1> QED
    BY <1>1, Invariance, PTL

\* Across every discard and error the streaming hash covers exactly the bytes
\* of the stream before the next one to hash.
THEOREM AlignmentCorrect == Spec => []HashIsAligned
<1>1. IInv => HashIsAligned
    BY DEF IInv
<1> QED
    BY <1>1, Invariance, PTL

\* The search only stops at a point whose score is larger than those of the
\* MinSize - 1 points before it and not smaller than those of the MinSize - 1
\* points after it, all seen through whole windows of the stream.
THEOREM LocalMaximumCorrect == Spec => []FoundIsLocalMaximum
<1>1. IInv => FoundIsLocalMaximum
    BY DEF IInv
<1> QED
    BY <1>1, Invariance, PTL

-----------------------------------------------------------------------------
\* Where the search stops, readers cut

\* A chunker that searches supports it, and leaves room for a chunk.
SupportedInv ==
    /\ pc # "idle" => SupportsDiscard(horizon)
    /\ result = "found" /\ pc = "idle" =>
          SupportsDiscard(horizon) /\ pos + MinSize <= fileSize

LEMMA NextSupportedInv ==
    ASSUME IInv, SupportedInv, [Next]_vars PROVE SupportedInv'
<1>1. UNCHANGED <<horizon, fileSize>>
    BY DEF Next, vars, chunker, Call, PeekFails, PeekShort, PeekFull, ScanTrailing, EnterRegion,
           ScanLeading, Found
<1>2. SupportsDiscard(horizon)' <=> SupportsDiscard(horizon)
    BY <1>1 DEF SupportsDiscard
<1>3. CASE Found
  <2>1. pc = "leading" /\ UNCHANGED pos
    BY <1>3 DEF Found, peeker
  <2> QED
    BY <1>1, <1>2, <2>1 DEF SupportedInv, IInv, HashIsAligned
<1>4. CASE \/ Call \/ PeekFails \/ PeekShort \/ PeekFull
           \/ ScanTrailing \/ EnterRegion \/ ScanLeading
  <2>1. SupportsDiscard(horizon) /\ ~ (result' = "found" /\ pc' = "idle")
    BY <1>4
    DEF SupportedInv, Call, PeekFails, PeekShort, PeekFull, ScanTrailing, EnterRegion,
        ScanLeading, DiscardScanned, Return
  <2> QED
    BY <1>2, <2>1 DEF SupportedInv
<1>5. CASE UNCHANGED vars
    BY <1>1, <1>2, <1>5 DEF SupportedInv, vars, peeker
<1> QED
    BY <1>3, <1>4, <1>5 DEF Next

\* The instances of the rule, here and in its proofs, are one rule.
LEMMA SameRule ==
    ASSUME NEW size, NEW scores
    PROVE  RuleProofs!Boundaries(size, scores) = Rule!Boundaries(size, scores)
BY DEF RuleProofs!RuleSizes, Rule!RuleSizes, RuleProofs!Available, Rule!Available,
       RuleProofs!PeekSize, Rule!PeekSize, RuleProofs!RuleChunkSize, Rule!RuleChunkSize,
       RuleProofs!SizesWithin, Rule!SizesWithin, RuleProofs!BestOffset, Rule!BestOffset,
       RuleProofs!BoundariesAfter, Rule!BoundariesAfter, RuleProofs!Boundaries,
       Rule!Boundaries

\* Every local maximum is a boundary if the horizon is large enough.
LEMMA LocalMaximumIsBoundary ==
    ASSUME IInv, SupportedInv, result = "found", pc = "idle"
    PROVE  pos \in Rule!Boundaries(fileSize, score)
<1>1. /\ horizon \in Nat /\ horizon >= 2 * (MinSize - 1)
      /\ MinSize \in Nat \ {0} /\ MinSize > 1 /\ Window \in 1 .. MinSize
      /\ fileSize \in Nat /\ pos \in Nat /\ start \in Nat /\ pos + MinSize <= fileSize
    BY HorizonsAssumption, MinSizeAssumption, WindowAssumption
    DEF IInv, TypeOK, SupportedInv, SupportsDiscard
<1>2. \A q \in RuleProofs!CutsOf(fileSize) : score[q] \in Nat
  <2>1. score \in [Window .. fileSize -> 0 .. MaxHash]
    BY DEF IInv, TypeOK
  <2>2. \A q \in MinSize .. (fileSize - MinSize) : q \in Window .. fileSize
    BY <1>1
  <2> QED
    BY <2>1, <2>2, MaxHashAssumption DEF RuleProofs!CutsOf
<1>3. RuleProofs!IsPeak(score, pos) /\ MinSize <= pos
  <2>1. /\ pos - (MinSize - 1) >= start + Window
        /\ \A p \in (pos - (MinSize - 1)) .. (pos - 1) : score[p] < score[pos]
        /\ \A p \in (pos + 1) .. (pos + MinSize - 1) : score[p] <= score[pos]
    BY DEF IInv, FoundIsLocalMaximum
  <2>2. MinSize <= pos
    BY <1>1, <2>1
  <2> QED
    BY <2>1, <2>2 DEF RuleProofs!IsPeak
<1> QED
    BY <1>1, <1>2, <1>3, SameRule, RuleProofs!PeakIsBoundary

\* Whatever comes before the stream, the position the search stops at is one at
\* which a reader of the whole file cuts it.
THEOREM BoundaryCorrect == Spec => []FoundIsBoundary
<1>1. Init => SupportedInv
    BY DEF Init, SupportedInv
<1>2. IInv /\ SupportedInv /\ [Next]_vars => SupportedInv'
    BY NextSupportedInv
<1>3. IInv /\ SupportedInv => FoundIsBoundary
    BY LocalMaximumIsBoundary DEF FoundIsBoundary
<1> QED
    BY <1>1, <1>2, <1>3, Invariance, PTL DEF Spec



-----------------------------------------------------------------------------
\* What the searches are for: pieces of a file that are chunked in parallel

CONSTANTS Horizon, Seeks, Truncate

VARIABLES found, at, cuts

\* The files that are cut into pieces, and what is proved of the rule that the
\* readers of the pieces follow.
Pieces == INSTANCE ParallelChunking
Rules == INSTANCE RepMaxRule_proofs

\* What ParallelChunking assumes beyond what is assumed here already.
PiecesAssumption ==
    /\ Horizon \in Nat /\ Horizon >= 2 * (MinSize - 1)
    /\ Seeks \subseteq Nat

LEMMA RuleAssumed ==
    ASSUME PiecesAssumption
    PROVE  MinSize \in Nat \ {0} /\ Horizon \in Nat /\ Horizon >= 2 * (MinSize - 1)
BY MinSizeAssumption DEF PiecesAssumption

\* It is one rule.
LEMMA SameRules ==
    ASSUME NEW size, NEW scores
    PROVE  /\ Pieces!RuleSizes(size, scores) = Rules!RuleSizes(size, scores)
           /\ Pieces!Boundaries(size, scores) = Rules!BoundariesAfter(size, scores)[0]
BY DEF Rules!RuleSizes, Pieces!RuleSizes, Rules!Available, Pieces!Available,
       Rules!PeekSize, Pieces!PeekSize, Rules!RuleChunkSize, Pieces!RuleChunkSize,
       Rules!SizesWithin, Pieces!SizesWithin, Rules!BestOffset, Pieces!BestOffset,
       Rules!BoundariesAfter, Pieces!BoundariesAfter, Pieces!Boundaries

\* Where a search stops, by all that RepMaxSync does in a call, it may stop in the
\* single step that stands for it in ParallelChunking.
THEOREM SearchIsAllowed ==
    Spec => [](result = "found" /\ pc = "idle" => Pieces!Guaranteed(start, pos))
<1>1. Init => SupportedInv
    BY DEF Init, SupportedInv
<1>2. IInv /\ SupportedInv /\ [Next]_vars => SupportedInv'
    BY NextSupportedInv
<1>3. IInv /\ SupportedInv => (result = "found" /\ pc = "idle" => Pieces!Guaranteed(start, pos))
    BY DEF IInv, FoundIsLocalMaximum, SupportedInv, Pieces!Guaranteed
<1> QED
    BY <1>1, <1>2, <1>3, Invariance, PTL DEF Spec

\* The boundaries of the file after a position.
EndsAfter(p) == Rules!BoundariesAfter(fileSize, score)[p]

\* The end of the piece that begins at b, if the pieces begin at these points.
NextIn(starts, b) == Pieces!Min({e \in starts \cup {fileSize} : e > b})

\* The file is one of the files, and every search that ended did so where it may.
SearchInv ==
    /\ fileSize \in Nat /\ score \in [Window .. fileSize -> 0 .. MaxHash]
    /\ found \in [Seeks -> Int]
    /\ \A s \in Seeks : \/ found[s] = Pieces!Pending \/ found[s] = fileSize
                        \/ found[s] \in 0 .. fileSize /\ Pieces!Guaranteed(s, found[s])

\* A reader stands where the file is cut, at the end of its piece or with room
\* for a chunk before it, and it has read all chunks on its way.
ReaderInv(starts, b, position, read) ==
    /\ position \in b .. fileSize
    /\ \/ position = NextIn(starts, b)
       \/ /\ position < NextIn(starts, b)
          /\ NextIn(starts, b) # fileSize => position + MinSize <= NextIn(starts, b)
    /\ EndsAfter(position) \subseteq EndsAfter(0)
    /\ EndsAfter(b) \subseteq read \cup EndsAfter(position)

PiecesInv ==
    /\ SearchInv
    /\ DOMAIN at = {} => cuts = {}
    /\ DOMAIN at # {} => /\ DOMAIN at = Pieces!PieceStarts
                         /\ \A s \in Seeks : found[s] # Pieces!Pending
    /\ at = [b \in DOMAIN at |-> at[b]]
    /\ \A b \in DOMAIN at : ReaderInv(DOMAIN at, b, at[b], cuts)
    /\ cuts \subseteq EndsAfter(0)

\* All points at which a file may be cut have scores.
LEMMA FileIsScored ==
    ASSUME PiecesAssumption, SearchInv
    PROVE  /\ fileSize \in Nat
           /\ \A q \in Rules!CutsOf(fileSize) : score[q] \in Nat
<1>1. \A q \in MinSize .. (fileSize - MinSize) : q \in Window .. fileSize
    BY MinSizeAssumption, WindowAssumption DEF SearchInv
<1> QED
    BY <1>1, MaxHashAssumption DEF SearchInv, Rules!CutsOf

\* Every search that ended before the end of the file ended at a peak.
LEMMA StartsArePeaks ==
    ASSUME PiecesAssumption, SearchInv, \A s \in Seeks : found[s] # Pieces!Pending,
           NEW b \in Pieces!PieceStarts
    PROVE  /\ b \in 0 .. (fileSize - 1)
           /\ b # 0 => /\ MinSize <= b /\ b + MinSize <= fileSize
                       /\ Rules!IsPeak(score, b) /\ b \in EndsAfter(0)
<1>1. CASE b = 0
    BY <1>1 DEF Pieces!PieceStarts, SearchInv
<1>2. CASE b # 0
  <2>1. PICK s \in Seeks : b = found[s]
    BY <1>2 DEF Pieces!PieceStarts
  <2>2. b \in 0 .. fileSize /\ Pieces!Guaranteed(s, b) /\ b # fileSize
    BY <2>1 DEF Pieces!PieceStarts, SearchInv
  <2>3. /\ MinSize \in Nat /\ MinSize > 0 /\ s \in Nat /\ Window \in Nat /\ Window > 0
        /\ fileSize \in Nat
    BY MinSizeAssumption, WindowAssumption, RuleAssumed DEF PiecesAssumption, SearchInv
  <2>4. MinSize <= b /\ b + MinSize <= fileSize
    BY <2>2, <2>3 DEF Pieces!Guaranteed
  <2>5. Rules!IsPeak(score, b)
    BY <2>2 DEF Pieces!Guaranteed, Rules!IsPeak
  <2>6. b \in Rules!Boundaries(fileSize, score)
    BY <2>2, <2>4, <2>5, FileIsScored, RuleAssumed, Rules!PeakIsBoundary
  <2> QED
    BY <2>2, <2>3, <2>4, <2>5, <2>6 DEF Rules!Boundaries, EndsAfter
<1> QED
    BY <1>1, <1>2

\* Two of them leave room for a chunk.
LEMMA PeaksAreApart ==
    ASSUME PiecesAssumption, SearchInv, \A s \in Seeks : found[s] # Pieces!Pending,
           NEW b \in Pieces!PieceStarts, NEW c \in Pieces!PieceStarts, b < c
    PROVE  b + MinSize <= c
<1>1. /\ MinSize \in Nat /\ MinSize > 0 /\ Window \in 1 .. MinSize /\ fileSize \in Nat
      /\ b \in 0 .. (fileSize - 1) /\ c \in 0 .. (fileSize - 1) /\ c # 0
      /\ MinSize <= c /\ c + MinSize <= fileSize /\ Rules!IsPeak(score, c)
    BY MinSizeAssumption, WindowAssumption, StartsArePeaks DEF SearchInv
<1>2. CASE b = 0
    BY <1>1, <1>2
<1>3. CASE b # 0
  <2>1. Rules!IsPeak(score, b) /\ MinSize <= b /\ b + MinSize <= fileSize
    BY <1>3, StartsArePeaks
  <2>2. score[b] \in Nat /\ score[c] \in Nat
    BY <1>1, <2>1, FileIsScored DEF Rules!CutsOf
  <2>3. SUFFICES ASSUME c < b + MinSize PROVE FALSE
    BY <1>1
  <2>4. b \in (c - (MinSize - 1)) .. (c - 1) /\ c \in (b + 1) .. (b + MinSize - 1)
    BY <1>1, <2>3
  <2>5. score[b] < score[c] /\ score[c] <= score[b]
    BY <1>1, <2>1, <2>4 DEF Rules!IsPeak
  <2> QED
    BY <2>2, <2>5
<1> QED
    BY <1>2, <1>3

\* The end of a piece is the next beginning of one, or the end of the file.
LEMMA NextInFacts ==
    ASSUME PiecesAssumption, SearchInv, NEW starts,
           starts \subseteq 0 .. (fileSize - 1), NEW b \in starts
    PROVE  /\ NextIn(starts, b) \in starts \cup {fileSize}
           /\ b < NextIn(starts, b) /\ NextIn(starts, b) \in Nat
           /\ NextIn(starts, b) <= fileSize
<1> DEFINE later == {e \in starts \cup {fileSize} : e > b}
<1>0. fileSize \in Nat /\ starts \subseteq Nat /\ b \in 0 .. (fileSize - 1)
    BY DEF SearchInv
<1>1. later \in SUBSET Nat /\ fileSize \in later
  <2>1. b < fileSize
    BY <1>0
  <2>2. \A e \in starts \cup {fileSize} : e \in Nat
    BY <1>0
  <2> QED
    BY <2>1, <2>2
<1>2. PICK e \in later : \A f \in later : e <= f
    BY RuleAssumed, <1>1, Rules!LeastMember
<1>3. NextIn(starts, b) = CHOOSE x \in later : \A y \in later : x <= y
    BY DEF NextIn, Pieces!Min
<1>4. NextIn(starts, b) \in later /\ \A y \in later : NextIn(starts, b) <= y
    BY <1>2, <1>3
<1>5. fileSize \in later
    BY <1>1
<1> HIDE DEF later
<1>6. NextIn(starts, b) <= fileSize
    BY <1>4, <1>5
<1> QED
    BY <1>0, <1>1, <1>4, <1>6 DEF later

LEMMA StartsFacts ==
    ASSUME PiecesAssumption, SearchInv, \A s \in Seeks : found[s] # Pieces!Pending,
           NEW b \in Pieces!PieceStarts
    PROVE  LET e == NextIn(Pieces!PieceStarts, b)
           IN  /\ e \in Pieces!PieceStarts \cup {fileSize} /\ b < e /\ e \in Nat /\ e <= fileSize
               /\ b \in Nat /\ b < fileSize
               /\ e # fileSize => e \in Pieces!PieceStarts /\ b + MinSize <= e
<1>1. Pieces!PieceStarts \subseteq 0 .. (fileSize - 1)
    BY StartsArePeaks
<1>2. fileSize \in Nat
    BY DEF SearchInv
<1> DEFINE e == NextIn(Pieces!PieceStarts, b)
<1>3. /\ e \in Pieces!PieceStarts \cup {fileSize} /\ b < e /\ e \in Nat /\ e <= fileSize
    BY <1>1, NextInFacts
<1>4. b \in Nat /\ b < fileSize
    BY <1>1, <1>2
<1> HIDE DEF e
<1>5. e # fileSize => e \in Pieces!PieceStarts /\ b + MinSize <= e
    BY <1>3, PeaksAreApart
<1> QED
    BY <1>3, <1>4, <1>5 DEF e

LEMMA InitPieces == PiecesAssumption /\ Pieces!Init => PiecesInv
<1> SUFFICES ASSUME PiecesAssumption, Pieces!Init PROVE PiecesInv
    OBVIOUS
<1>1. fileSize \in Nat /\ score \in [Window .. fileSize -> 0 .. MaxHash]
    BY FilesAssumption DEF Pieces!Init
<1>2. SearchInv
    BY <1>1 DEF Pieces!Init, SearchInv, Pieces!Pending
<1>3. DOMAIN at = {} /\ cuts = {} /\ at = [b \in DOMAIN at |-> at[b]]
    BY DEF Pieces!Init
<1> QED
    BY <1>2, <1>3 DEF PiecesInv

LEMMA SearchStep ==
    ASSUME PiecesAssumption, PiecesInv, NEW s \in Seeks, Pieces!Search(s) PROVE PiecesInv'
<1>1. UNCHANGED <<fileSize, score, at, cuts>> /\ found[s] = Pieces!Pending
    BY DEF Pieces!Search, Pieces!file
<1>2. PICK p \in {q \in 0 .. fileSize : Pieces!Guaranteed(s, q)} \cup {fileSize} :
          found' = [found EXCEPT ![s] = p]
    BY DEF Pieces!Search
<1>3. SearchInv'
    BY <1>1, <1>2 DEF PiecesInv, SearchInv, Pieces!Guaranteed, Pieces!Pending
<1>4. DOMAIN at = {}
    BY <1>1 DEF PiecesInv
<1> QED
    BY <1>1, <1>3, <1>4 DEF PiecesInv, ReaderInv, NextIn, EndsAfter

LEMMA SplitStep == ASSUME PiecesAssumption, PiecesInv, Pieces!Split PROVE PiecesInv'
<1>1. /\ UNCHANGED <<fileSize, score, found, cuts>> /\ DOMAIN at = {} /\ cuts = {}
      /\ at' = [b \in Pieces!PieceStarts |-> b] /\ \A s \in Seeks : found[s] # Pieces!Pending
      /\ SearchInv
    BY DEF Pieces!Split, Pieces!file, PiecesInv
<1>2. DOMAIN at' = Pieces!PieceStarts /\ at' = [b \in DOMAIN at' |-> at'[b]]
      /\ Pieces!PieceStarts' = Pieces!PieceStarts
    BY <1>1 DEF Pieces!PieceStarts
<1>3. SearchInv'
    BY <1>1 DEF SearchInv, Pieces!Guaranteed
<1>4. ASSUME NEW b \in Pieces!PieceStarts PROVE ReaderInv(Pieces!PieceStarts, b, b, {})
  <2>1. EndsAfter(b) \subseteq EndsAfter(0)
    <3>1. CASE b = 0
      BY <3>1
    <3>2. CASE b # 0
      <4>1. b \in EndsAfter(0) /\ fileSize \in Nat
        BY <1>1, <3>2, StartsArePeaks DEF SearchInv
      <4>2. 0 \in 0 .. fileSize
        BY <4>1
      <4> QED
        BY RuleAssumed, <1>1, <4>1, <4>2, FileIsScored, Rules!BoundariesFollow DEF EndsAfter
    <3> QED
      BY <3>1, <3>2
  <2>2. fileSize \in Nat
    BY <1>1 DEF SearchInv
  <2> QED
    BY <1>1, <2>1, <2>2, StartsFacts DEF ReaderInv
<1>5. \A b \in DOMAIN at' : ReaderInv(DOMAIN at, b, at[b], cuts)'
  <2> SUFFICES ASSUME NEW b \in Pieces!PieceStarts PROVE ReaderInv(DOMAIN at, b, at[b], cuts)'
    BY <1>2
  <2>1. at'[b] = b
    BY <1>1
  <2> QED
    BY <1>1, <1>2, <1>4, <2>1 DEF ReaderInv, NextIn, EndsAfter
<1> QED
    BY <1>1, <1>2, <1>3, <1>5 DEF PiecesInv, EndsAfter

\* A reader whose stream goes on past its piece reads a chunk of the file.
LEMMA ChunkStep ==
    ASSUME PiecesAssumption, ~ Truncate, PiecesInv, NEW b \in DOMAIN at, Pieces!Chunk(b)
    PROVE  PiecesInv'
<1> DEFINE p == at[b]
           size == Rules!RuleSizes(fileSize, score)[p]
           end == Pieces!EndOf(b)
<1>1. /\ UNCHANGED <<fileSize, score, found>> /\ SearchInv /\ p < end
      /\ DOMAIN at = Pieces!PieceStarts /\ \A s \in Seeks : found[s] # Pieces!Pending
      /\ at = [c \in DOMAIN at |-> at[c]]
      /\ ReaderInv(Pieces!PieceStarts, b, p, cuts) /\ cuts \subseteq EndsAfter(0)
      /\ \A c \in DOMAIN at : ReaderInv(Pieces!PieceStarts, c, at[c], cuts)
      /\ end = NextIn(Pieces!PieceStarts, b)
    BY DEF Pieces!Chunk, Pieces!file, PiecesInv, Pieces!EndOf, NextIn
<1>2. /\ end \in Pieces!PieceStarts \cup {fileSize} /\ b < end /\ end \in Nat /\ end <= fileSize
      /\ b \in Nat /\ fileSize \in Nat
    BY <1>1, StartsFacts DEF SearchInv
<1>3. p \in 0 .. (fileSize - 1) /\ p \in Nat
  <2>1. p \in b .. fileSize
    BY <1>1 DEF ReaderInv
  <2> HIDE DEF p, end
  <2> QED
    BY <1>1, <1>2, <2>1
<1>4. at' = [at EXCEPT ![b] = p + size] /\ cuts' = cuts \cup {p + size}
  <2>1. size = Pieces!RuleSizes(fileSize, score)[p]
    BY SameRules
  <2>2. size = Pieces!RuleChunkSize(score, p, Pieces!Available(fileSize, p))
    BY <1>3, <2>1 DEF Pieces!RuleSizes
  <2> HIDE DEF size
  <2> QED
    BY <2>2 DEF Pieces!Chunk, Pieces!StreamEnd
<1>5. /\ size \in 1 .. (fileSize - p)
      /\ EndsAfter(p) = {p + size} \cup EndsAfter(p + size)
  <2>1. /\ \A q \in Rules!CutsOf(fileSize) : score[q] \in Nat
        /\ \A x \in 0 .. (fileSize - 1) :
              Rules!RuleSizes(fileSize, score)[x] \in 1 .. (fileSize - x)
    BY RuleAssumed, <1>1, <1>2, FileIsScored, Rules!RuleSizesFit
  <2> HIDE DEF p, end
  <2> QED
    BY RuleAssumed, <1>2, <1>3, <2>1, Rules!BoundariesUnfold DEF EndsAfter, size
<1> HIDE DEF size
<1>6. p + size = end \/ (p + size < end /\ (end # fileSize => p + size + MinSize <= end))
  <2>1. MinSize \in Nat /\ MinSize > 0
    BY MinSizeAssumption
  <2>2. CASE end = fileSize
    <3> HIDE DEF p, end
    <3> QED
      BY <1>2, <1>3, <1>5, <2>2
  <2>3. CASE end # fileSize
    <3>1. end \in Pieces!PieceStarts /\ p + MinSize <= end
      BY <1>1, <1>2, <2>3 DEF ReaderInv
    <3>2. end # 0
      BY <1>2
    <3>3. end + MinSize <= fileSize /\ Rules!IsPeak(score, end)
      BY <1>1, <3>1, <3>2, StartsArePeaks
    <3>4. size \in Nat /\ (p + size = end \/ p + size + MinSize <= end)
      <4> HIDE DEF p, end
      <4> QED
        BY <1>1, <1>2, <1>3, <3>1, <3>3, FileIsScored, RuleAssumed, Rules!ChunkRespectsPeak DEF size
    <3> HIDE DEF p, end
    <3> QED
      BY <1>2, <1>3, <2>1, <3>4
  <2> QED
    BY <2>2, <2>3
<1>7. /\ p + size \in EndsAfter(0) /\ EndsAfter(p + size) \subseteq EndsAfter(0)
      /\ EndsAfter(b) \subseteq cuts \cup {p + size} \cup EndsAfter(p + size)
    BY <1>1, <1>5 DEF ReaderInv
<1>8. ReaderInv(Pieces!PieceStarts, b, p + size, cuts \cup {p + size})
  <2>1. p \in b .. fileSize
    BY <1>1 DEF ReaderInv
  <2>2. p + size \in b .. fileSize
    <3> HIDE DEF p, end
    <3> QED
      BY <1>2, <1>3, <1>5, <2>1
  <2>3. end = NextIn(Pieces!PieceStarts, b)
    BY <1>1
  <2> HIDE DEF p, end
  <2> QED
    BY <1>6, <1>7, <2>2, <2>3 DEF ReaderInv
<1>9. DOMAIN at' = Pieces!PieceStarts /\ Pieces!PieceStarts' = Pieces!PieceStarts
      /\ at' = [c \in DOMAIN at' |-> at'[c]]
    BY <1>1, <1>4 DEF Pieces!PieceStarts
<1>10. SearchInv'
    BY <1>1 DEF SearchInv, Pieces!Guaranteed
<1>11. ASSUME NEW c \in Pieces!PieceStarts PROVE ReaderInv(DOMAIN at, c, at[c], cuts)'
  <2>1. CASE c = b
    <3>1. at'[b] = p + size
      BY <1>1, <1>4
    <3> HIDE DEF p, end
    <3> QED
      BY <1>1, <1>4, <1>8, <1>9, <2>1, <3>1 DEF ReaderInv, NextIn, EndsAfter
  <2>2. CASE c # b
    <3>1. at'[c] = at[c] /\ ReaderInv(Pieces!PieceStarts, c, at[c], cuts)
      BY <1>1, <1>4, <2>2
    <3> HIDE DEF p, end
    <3> QED
      BY <1>1, <1>4, <1>9, <3>1 DEF ReaderInv, NextIn, EndsAfter
  <2> QED
    BY <2>1, <2>2
<1>12. cuts' \subseteq EndsAfter(0)'
    BY <1>1, <1>4, <1>7 DEF EndsAfter
<1>13. b \in DOMAIN at'
    BY <1>1, <1>9
<1> QED
    BY <1>1, <1>9, <1>10, <1>11, <1>12, <1>13 DEF PiecesInv

LEMMA NextPieces ==
    ASSUME PiecesAssumption, ~ Truncate, PiecesInv, [Pieces!Next]_(Pieces!vars) PROVE PiecesInv'
<1>1. CASE UNCHANGED Pieces!vars
    BY <1>1 DEF Pieces!vars, Pieces!file, PiecesInv, SearchInv, ReaderInv, NextIn, EndsAfter,
       Pieces!PieceStarts, Pieces!Guaranteed
<1> QED
    BY <1>1, SearchStep, SplitStep, ChunkStep DEF Pieces!Next

\* When every reader is at the end of its piece, nothing is missing.
LEMMA PiecesAreWhole ==
    ASSUME PiecesAssumption, PiecesInv, DOMAIN at # {}, \A b \in DOMAIN at : at[b] = Pieces!EndOf(b)
    PROVE  cuts = EndsAfter(0)
<1>1. /\ SearchInv /\ DOMAIN at = Pieces!PieceStarts /\ \A s \in Seeks : found[s] # Pieces!Pending
      /\ cuts \subseteq EndsAfter(0) /\ fileSize \in Nat
      /\ \A b \in Pieces!PieceStarts : /\ at[b] = NextIn(Pieces!PieceStarts, b)
                                /\ EndsAfter(b) \subseteq cuts \cup EndsAfter(at[b])
    BY DEF PiecesInv, ReaderInv, Pieces!EndOf, NextIn, SearchInv
<1> DEFINE Done(b) == EndsAfter(0) \subseteq cuts \cup EndsAfter(b)
           good == {d \in 0 .. fileSize : fileSize - d \in Pieces!PieceStarts \cup {fileSize}
                                            /\ Done(fileSize - d)}
<1>2. 0 \in Pieces!PieceStarts
  <2>1. PICK b \in Pieces!PieceStarts : TRUE
    BY <1>1
  <2>2. b \in 0 .. (fileSize - 1)
    BY <1>1, <2>1, StartsArePeaks
  <2>3. fileSize # 0
    BY <1>1, <2>2
  <2> QED
    BY <2>3 DEF Pieces!PieceStarts
<1>3. fileSize \in good
  <2>1. fileSize \in 0 .. fileSize /\ fileSize - fileSize = 0 /\ Done(0)
    BY <1>1
  <2> HIDE DEF Done
  <2> QED
    BY <1>2, <2>1
<1>4. PICK d \in good : \A e \in good : d <= e
  <2>1. good \in SUBSET Nat
    OBVIOUS
  <2> HIDE DEF good
  <2> QED
    BY RuleAssumed, <1>3, <2>1, Rules!LeastMember
<1> DEFINE b == fileSize - d
<1>5. d \in 0 .. fileSize /\ b \in Pieces!PieceStarts \cup {fileSize} /\ Done(b) /\ d = fileSize - b
    BY <1>1, <1>4
<1> HIDE DEF b
<1>6. b = fileSize
  <2> SUFFICES ASSUME b # fileSize PROVE FALSE
    OBVIOUS
  <2> DEFINE e == NextIn(Pieces!PieceStarts, b)
  <2>1. b \in Pieces!PieceStarts
    BY <1>5
  <2>2. e \in Pieces!PieceStarts \cup {fileSize} /\ b < e /\ e \in Nat /\ e <= fileSize /\ b \in Nat
    BY <1>1, <2>1, StartsFacts
  <2>3. Done(e)
    BY <1>1, <1>5, <2>1
  <2> HIDE DEF e, Done
  <2>4. fileSize - e \in 0 .. fileSize /\ fileSize - (fileSize - e) = e /\ ~ (d <= fileSize - e)
    BY <1>1, <1>5, <2>2
  <2>5. fileSize - e \in good
    BY <2>2, <2>3, <2>4
  <2> HIDE DEF good
  <2> QED
    BY <1>4, <2>4, <2>5
<1>7. EndsAfter(fileSize) = {}
  <2>1. \A x \in 0 .. (fileSize - 1) : Rules!RuleSizes(fileSize, score)[x] \in 1 .. (fileSize - x)
    BY RuleAssumed, <1>1, FileIsScored, Rules!RuleSizesFit
  <2> QED
    BY RuleAssumed, <1>1, <2>1, Rules!BoundariesUnfold DEF EndsAfter
<1> QED
    BY <1>1, <1>5, <1>6, <1>7

LEMMA PiecesCorrect == ASSUME PiecesAssumption, PiecesInv PROVE Pieces!ChunksAreOfWholeFile
<1>1. \A b \in DOMAIN at : at[b] <= Pieces!EndOf(b)
  <2> SUFFICES ASSUME NEW b \in DOMAIN at PROVE at[b] <= Pieces!EndOf(b)
    OBVIOUS
  <2>1. /\ SearchInv /\ DOMAIN at = Pieces!PieceStarts
        /\ \A s \in Seeks : found[s] # Pieces!Pending
        /\ ReaderInv(Pieces!PieceStarts, b, at[b], cuts)
        /\ Pieces!EndOf(b) = NextIn(Pieces!PieceStarts, b)
    BY DEF PiecesInv, Pieces!EndOf, NextIn
  <2>2. Pieces!EndOf(b) \in Nat
    BY <2>1, StartsFacts
  <2> QED
    BY <2>1, <2>2 DEF ReaderInv
<1>2. cuts \subseteq EndsAfter(0)
    BY DEF PiecesInv
<1> QED
    BY <1>1, <1>2, PiecesAreWhole, SameRules
    DEF Pieces!ChunksAreOfWholeFile, Pieces!Boundaries, EndsAfter

\* Whatever boundaries the searches find and in whatever order the pieces are
\* read, the pieces have exactly the chunks that one reader of the whole file cuts.
THEOREM PiecesOfWholeFileCorrect ==
    ASSUME PiecesAssumption, ~ Truncate
    PROVE  Pieces!Spec => []Pieces!ChunksAreOfWholeFile
<1>1. Pieces!Init => PiecesInv
    BY InitPieces
<1>2. PiecesInv /\ [Pieces!Next]_(Pieces!vars) => PiecesInv'
    BY NextPieces
<1>3. PiecesInv => Pieces!ChunksAreOfWholeFile
    BY PiecesCorrect
<1> QED
    BY <1>1, <1>2, <1>3, PTL DEF Pieces!Spec

-----------------------------------------------------------------------------
\* A search comes to an end

\* The steps that a call has left, at most: the bytes that are not hashed, each of
\* which may be the last of a round, and the steps that hash none.
StepsLeft ==
    IF pc = "idle" THEN 0
    ELSE 2 * (fileSize - hashed) + (IF pc = "peek" THEN 2 ELSE 1)

\* A step of a call can be taken: its guards, where they are not the negations of
\* one another.  In "peek" one of PeekShort and PeekFull always can.
CanGoOn ==
    \/ pc = "peek"
    \/ /\ \/ pc = "trailing" /\ scanned <= bytesUntilNextRegion
          \/ pc = "leading" /\ scanned < MinSize - 1
       /\ ValuesAt(hashed + 1) # {} /\ hashed = pos + scanned
    \/ pc = "leading" /\ scanned >= MinSize - 1

\* The bytes of a round were hashed once each, and the next begins after them.
LEMMA HashGoesOn ==
    ASSUME IInv, ScanTrailing \/ EnterRegion \/ ScanLeading
    PROVE  /\ pc # "idle" /\ pc # "peek" /\ hashed' = hashed + 1 /\ fileSize' = fileSize
           /\ pc' \in {"idle", "peek", "trailing", "leading"}
<1>1. pc \in {"trailing", "leading"} /\ AddByte /\ UNCHANGED chunker
    BY DEF ScanTrailing, EnterRegion, ScanLeading
<1>2. hashed = pos + scanned
    BY <1>1 DEF IInv, HashIsAligned
<1>3. pc' \in {"idle", "peek", "trailing", "leading"}
    BY DEF ScanTrailing, EnterRegion, ScanLeading, DiscardScanned, Return
<1> QED
    BY <1>1, <1>2, <1>3 DEF AddByte, chunker

\* What is left is a number of steps, and one of them can be taken.
LEMMA SearchCanGoOn ==
    ASSUME IInv PROVE StepsLeft \in Nat /\ (pc # "idle" => CanGoOn)
<1>1. /\ fileSize \in Nat /\ pos \in Nat /\ scanned \in Nat /\ MinSize \in Nat
      /\ bytesUntilNextRegion \in Nat /\ pos <= fileSize
      /\ pc \in {"idle", "peek", "trailing", "leading"}
      /\ MinSize > 1 /\ Window \in 1 .. MinSize /\ MaxHash \in Nat
    BY MinSizeAssumption, WindowAssumption, MaxHashAssumption DEF IInv, TypeOK, HashIsAligned
<1>2. CASE pc = "idle"
    BY <1>2 DEF StepsLeft
<1>3. CASE pc = "peek"
  <2>1. hashed = pos
    BY <1>3 DEF IInv, HashIsAligned
  <2> QED
    BY <1>1, <1>3, <2>1 DEF StepsLeft, CanGoOn
<1>4. CASE pc \in {"trailing", "leading"}
  <2>1. /\ hashed = pos + scanned /\ pos + MinSize <= fileSize
        /\ bytesUntilNextRegion <= MinSize - 1
        /\ pc = "trailing" => scanned <= bytesUntilNextRegion
        /\ pc = "leading" => scanned <= MinSize - 1
    BY <1>1, <1>4 DEF IInv, HashIsAligned
  <2>2. StepsLeft \in Nat
    BY <1>1, <1>4, <2>1 DEF StepsLeft
  <2>3. ValuesAt(hashed + 1) # {}
    BY <1>1 DEF ValuesAt
  <2> QED
    BY <1>1, <1>4, <2>1, <2>2, <2>3 DEF CanGoOn
<1> QED
    BY <1>1, <1>2, <1>3, <1>4

\* Every step of a call, a discard that ends a round included, leaves fewer.
LEMMA SearchStepCounts ==
    ASSUME IInv, Next, pc # "idle"
    PROVE  StepsLeft' < StepsLeft
<1>1. StepsLeft \in Nat /\ fileSize \in Nat /\ hashed \in Int
    BY SearchCanGoOn DEF IInv, TypeOK
<1>2. StepsLeft = 2 * (fileSize - hashed) + (IF pc = "peek" THEN 2 ELSE 1)
    BY DEF StepsLeft
<1>3. CASE pc' = "idle"
  <2>1. hashed <= fileSize
    BY <1>1, MinSizeAssumption DEF IInv, TypeOK, HashIsAligned
  <2>2. StepsLeft' = 0
    BY <1>3 DEF StepsLeft
  <2> QED
    BY <1>1, <1>2, <2>1, <2>2
<1>4. CASE PeekFull
    BY <1>1, <1>2, <1>4 DEF PeekFull, chunker, StepsLeft
<1>5. CASE (ScanTrailing \/ EnterRegion \/ ScanLeading) /\ pc' # "idle"
    BY <1>1, <1>2, <1>5, HashGoesOn DEF StepsLeft
<1> QED
    BY <1>3, <1>4, <1>5 DEF Next, Call, PeekFails, PeekShort, Found, Return

\* Every step of a search brings its end nearer: no byte is hashed twice, and no
\* round begins without a byte discarded.
THEOREM SearchStepsCount == Spec => [][pc # "idle" => StepsLeft' < StepsLeft]_vars
<1>1. IInv /\ [Next]_vars => [pc # "idle" => StepsLeft' < StepsLeft]_vars
    BY SearchStepCounts
<1> QED
    BY <1>1, Invariance, PTL DEF Spec

\* A search is never stuck, and has a number of steps left.
THEOREM SearchGoesOn == Spec => [](StepsLeft \in Nat /\ (pc # "idle" => CanGoOn))
<1>1. IInv => StepsLeft \in Nat /\ (pc # "idle" => CanGoOn)
    BY SearchCanGoOn
<1> QED
    BY <1>1, Invariance, PTL

=============================================================================
