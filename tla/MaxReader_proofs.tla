-------------------------- MODULE MaxReader_proofs --------------------------
(***************************************************************************)
(* Proofs about the MaxCDC chunk reader, for every minimum and maximum     *)
(* size, file and number of Peeker errors: the stack it keeps across calls *)
(* is exact and fits its capacity, no byte is lost or hashed twice, and    *)
(* the chunks are those of the rule, so that the reader implements         *)
(* ChunkStream.                                                            *)
(***************************************************************************)
EXTENDS MaxReader, SequenceTheorems, WellFoundedInduction, TLAPS

-----------------------------------------------------------------------------
\* Stacks as data: what the steps do to one, whichever variables hold it

\* The cutting points before entry k of stack s begin MinSize after this.
Begin(s, start, k) == IF k = 1 THEN start ELSE s[k - 1].end

\* The entries of s are at least MinSize apart, none is beyond the cursor.
Spaced(s, start, cursor) ==
    \A k \in 1 .. Len(s) :
        /\ s[k].end >= start + MinSize /\ s[k].end <= cursor
        /\ \A j \in 1 .. (k - 1) : s[k].end >= s[j].end + MinSize

\* Each of them is the best cutting point from the entry before to the cursor,
\* in a file with scores sc that is read from p.
Exact(sc, s, start, p, cursor) ==
    \A k \in 1 .. Len(s) :
        /\ s[k].hash = p + s[k].end
        /\ \A q \in (p + Begin(s, start, k) + MinSize) .. (p + cursor) :
              /\ sc[q] <= sc[s[k].hash]
              /\ q < s[k].hash => sc[q] < sc[s[k].hash]

\* The scores of a file of the given size.
ScoresOf(sc, size) == size \in Nat /\ sc \in [CutsOf(size) -> Nat]

USE MinSizeAssumption, MaxSizeAssumption, MaxFaultsAssumption

\* What the steps do to a stack s: move it by d bytes, drop its first entry,
\* add one at the cursor.
MovedBy(s, t, d) ==
    /\ Len(t) = Len(s)
    /\ \A k \in 1 .. Len(s) : t[k].hash = s[k].hash /\ t[k].end = s[k].end - d
WithoutFirst(s, t) ==
    /\ s # <<>> /\ Len(t) = Len(s) - 1
    /\ \A k \in 1 .. Len(t) : t[k] = s[k + 1]
ExtendedBy(s, t, chunk) ==
    /\ Len(t) = Len(s) + 1
    /\ \A k \in 1 .. Len(s) : t[k] = s[k]
    /\ t[Len(s) + 1] = chunk

\* What the entries of a stack are.
LEMMA Entries ==
    ASSUME NEW s \in Seq(ChunkType)
    PROVE  /\ Len(s) \in Nat /\ DOMAIN s = 1 .. Len(s)
           /\ \A k \in 1 .. Len(s) : /\ s[k] \in ChunkType
                                     /\ s[k].end \in Nat /\ s[k].hash \in Nat
<1>1. Len(s) \in Nat /\ DOMAIN s = 1 .. Len(s) /\ s \in [1 .. Len(s) -> ChunkType]
    BY LenProperties
<1> QED
    BY <1>1 DEF ChunkType

\* The same stack seen from a position further on.
LEMMA ShiftedStack ==
    ASSUME NEW sc, NEW s \in Seq(ChunkType), NEW t \in Seq(ChunkType), NEW start \in Nat,
           NEW p \in Nat, NEW cursor \in Nat, NEW d \in Nat, d <= start,
           MovedBy(s, t, d),
           Spaced(s, start, cursor), Exact(sc, s, start, p, cursor)
    PROVE  Spaced(t, start - d, cursor - d) /\ Exact(sc, t, start - d, p + d, cursor - d)
<1>1. Len(s) \in Nat /\ Len(t) = Len(s)
    BY Entries DEF MovedBy
<1>2. ASSUME NEW k \in 1 .. Len(s)
      PROVE  s[k].end \in Nat /\ t[k].hash = s[k].hash /\ t[k].end = s[k].end - d
    BY <1>1, Entries DEF MovedBy
<1>3. ASSUME NEW k \in 1 .. Len(s)
      PROVE  t[k].end >= (start - d) + MinSize /\ t[k].end <= cursor - d
  <2>1. s[k].end >= start + MinSize /\ s[k].end <= cursor
    BY DEF Spaced
  <2> QED
    BY SMTT(30), <1>2, <2>1
<1>4. ASSUME NEW k \in 1 .. Len(s), NEW j \in 1 .. (k - 1)
      PROVE  t[k].end >= t[j].end + MinSize
  <2>1. j \in 1 .. Len(s)
    BY <1>1
  <2>2. s[k].end >= s[j].end + MinSize
    BY DEF Spaced
  <2>3. s[k].end \in Nat /\ t[k].end = s[k].end - d
    BY <1>2
  <2>4. s[j].end \in Nat /\ t[j].end = s[j].end - d
    BY <1>2, <2>1
  <2>5. MinSize \in Nat /\ d \in Nat
    OBVIOUS
  <2> QED
    BY ONLY <2>2, <2>3, <2>4, <2>5
<1>5. Spaced(t, start - d, cursor - d)
    BY <1>1, <1>3, <1>4 DEF Spaced
<1>6. ASSUME NEW k \in 1 .. Len(s)
      PROVE  /\ Begin(s, start, k) \in Nat
             /\ Begin(t, start - d, k) = Begin(s, start, k) - d
  <2>1. CASE k = 1
    BY <2>1 DEF Begin
  <2>2. CASE k - 1 \in 1 .. Len(s)
    BY <1>2, <2>2 DEF Begin
  <2> QED
    BY <1>1, <2>1, <2>2
<1>7. ASSUME NEW k \in 1 .. Len(s) PROVE t[k].hash = (p + d) + t[k].end
  <2>1. s[k].hash = p + s[k].end
    BY DEF Exact
  <2> QED
    BY <1>2, <2>1
<1>8. ASSUME NEW k \in 1 .. Len(s),
             NEW q \in (p + d + Begin(t, start - d, k) + MinSize) .. (p + d + (cursor - d))
      PROVE  sc[q] <= sc[t[k].hash] /\ (q < t[k].hash => sc[q] < sc[t[k].hash])
  <2>1. q \in (p + Begin(s, start, k) + MinSize) .. (p + cursor)
    BY <1>6
  <2> QED
    BY <1>2, <2>1 DEF Exact
<1> QED
    BY <1>1, <1>5, <1>7, <1>8 DEF Exact

\* A stack without its first entry, at which the next chunk begins.
LEMMA StackOfNextChunk ==
    ASSUME NEW sc, NEW s \in Seq(ChunkType), NEW t \in Seq(ChunkType), NEW start \in Nat,
           NEW p \in Nat, NEW cursor \in Nat,
           WithoutFirst(s, t),
           Spaced(s, start, cursor), Exact(sc, s, start, p, cursor)
    PROVE  Spaced(t, s[1].end, cursor) /\ Exact(sc, t, s[1].end, p, cursor)
<1>1. Len(s) \in Nat /\ Len(t) = Len(s) - 1
    BY Entries DEF WithoutFirst
<1>2. ASSUME NEW k \in 1 .. Len(t) PROVE k + 1 \in 1 .. Len(s) /\ t[k] = s[k + 1]
    BY <1>1 DEF WithoutFirst
<1>3. ASSUME NEW k \in 1 .. Len(t)
      PROVE  t[k].end >= s[1].end + MinSize /\ t[k].end <= cursor
  <2>1. 1 \in 1 .. ((k + 1) - 1)
    BY <1>1
  <2> QED
    BY <1>2, <2>1 DEF Spaced
<1>4. ASSUME NEW k \in 1 .. Len(t), NEW j \in 1 .. (k - 1)
      PROVE  t[k].end >= t[j].end + MinSize
  <2>1. j \in 1 .. Len(t) /\ j + 1 \in 1 .. ((k + 1) - 1)
    BY <1>1
  <2> QED
    BY <1>2, <2>1 DEF Spaced
<1>5. Spaced(t, s[1].end, cursor)
    BY <1>3, <1>4 DEF Spaced
<1>6. ASSUME NEW k \in 1 .. Len(t) PROVE Begin(t, s[1].end, k) = Begin(s, start, k + 1)
  <2>1. CASE k = 1
    BY <2>1 DEF Begin
  <2>2. CASE k > 1
    <3>1. t[k - 1] = s[(k - 1) + 1] /\ (k - 1) + 1 = (k + 1) - 1 /\ k + 1 # 1
        BY <1>1, <1>2, <2>2
    <3> QED
        BY <2>2, <3>1 DEF Begin
  <2> QED
    BY <2>1, <2>2
<1>7. ASSUME NEW k \in 1 .. Len(t)
      PROVE  /\ t[k].hash = p + t[k].end
             /\ \A q \in (p + Begin(t, s[1].end, k) + MinSize) .. (p + cursor) :
                  /\ sc[q] <= sc[t[k].hash]
                  /\ q < t[k].hash => sc[q] < sc[t[k].hash]
    BY <1>2, <1>6 DEF Exact
<1> QED
    BY <1>5, <1>7 DEF Exact

\* A stack with one entry more, a cutting point at the cursor.
LEMMA StackWithCursor ==
    ASSUME NEW sc, NEW s \in Seq(ChunkType), NEW t \in Seq(ChunkType), NEW start \in Nat,
           NEW p \in Nat, NEW cursor \in Nat,
           ExtendedBy(s, t, [hash |-> p + cursor, end |-> cursor]),
           cursor = Begin(t, start, Len(s) + 1) + MinSize,
           sc[p + cursor] \in Nat,
           Spaced(s, start, cursor), Exact(sc, s, start, p, cursor)
    PROVE  Spaced(t, start, cursor) /\ Exact(sc, t, start, p, cursor)
<1> DEFINE n == Len(s) + 1
<1>1. Len(s) \in Nat /\ Len(t) = n
    BY Entries DEF ExtendedBy
<1>2. ASSUME NEW k \in 1 .. Len(s) PROVE t[k] = s[k] /\ s[k].end \in Nat
    BY Entries DEF ExtendedBy
<1>3. t[n].hash = p + cursor /\ t[n].end = cursor
    BY DEF ExtendedBy
<1>4. \A k \in 1 .. n : k \in 1 .. Len(s) \/ k = n
    BY <1>1
<1>5. Begin(t, start, n) = IF Len(s) = 0 THEN start ELSE s[Len(s)].end
    BY <1>1, <1>2 DEF Begin
<1> HIDE DEF n
<1>6. ASSUME NEW j \in 1 .. Len(s) PROVE s[j].end <= s[Len(s)].end
  <2>1. CASE j = Len(s)
    BY <1>2, <2>1
  <2>2. CASE j \in 1 .. (Len(s) - 1)
    <3>1. Len(s) \in 1 .. Len(s)
        BY <1>1
    <3>2. s[Len(s)].end >= s[j].end + MinSize
        BY <2>2, <3>1 DEF Spaced
    <3>3. s[j].end \in Nat /\ s[Len(s)].end \in Nat
        BY <1>2, <3>1
    <3> QED
        BY SMTT(30), <3>2, <3>3
  <2> QED
    BY <1>1, <2>1, <2>2
<1>7. ASSUME NEW j \in 1 .. Len(s) PROVE cursor >= s[j].end + MinSize
  <2>1. Len(s) \in 1 .. Len(s) /\ cursor = s[Len(s)].end + MinSize
    BY <1>1, <1>5 DEF n
  <2>2. s[j].end \in Nat /\ s[Len(s)].end \in Nat /\ s[j].end <= s[Len(s)].end
    BY <1>2, <1>6, <2>1
  <2> QED
    BY SMTT(30), <2>1, <2>2
<1>8. cursor >= start + MinSize
  <2>1. CASE Len(s) = 0
    BY <1>5, <2>1 DEF n
  <2>2. CASE 1 \in 1 .. Len(s)
    <3>1. s[1].end >= start + MinSize
        BY <2>2 DEF Spaced
    <3> QED
        BY <1>2, <1>7, <2>2, <3>1
  <2> QED
    BY <1>1, <2>1, <2>2
<1>9. ASSUME NEW k \in 1 .. n
      PROVE  /\ t[k].end >= start + MinSize /\ t[k].end <= cursor
             /\ \A j \in 1 .. (k - 1) : t[k].end >= t[j].end + MinSize
  <2>1. CASE k \in 1 .. Len(s)
    <3>1. \A j \in 1 .. (k - 1) : j \in 1 .. Len(s)
        BY <1>1, <2>1
    <3> QED
        BY <1>2, <2>1, <3>1 DEF Spaced
  <2>2. CASE k = n
    <3>1. \A j \in 1 .. (k - 1) : j \in 1 .. Len(s)
        BY <1>1, <2>2 DEF n
    <3>2. ASSUME NEW j \in 1 .. (k - 1) PROVE t[k].end >= t[j].end + MinSize
        BY <1>2, <1>3, <1>7, <2>2, <3>1
    <3> QED
        BY <1>3, <1>8, <2>2, <3>2
  <2> QED
    BY <1>4, <2>1, <2>2
<1>10. Spaced(t, start, cursor)
    BY <1>1, <1>9 DEF Spaced
<1>11. \A q \in (p + cursor) .. (p + cursor) : q = p + cursor
    OBVIOUS
<1>12. ASSUME NEW k \in 1 .. n
      PROVE  /\ t[k].hash = p + t[k].end
             /\ \A q \in (p + Begin(t, start, k) + MinSize) .. (p + cursor) :
                  /\ sc[q] <= sc[t[k].hash]
                  /\ q < t[k].hash => sc[q] < sc[t[k].hash]
  <2>1. CASE k \in 1 .. Len(s)
    <3>1. k = 1 \/ k - 1 \in 1 .. Len(s)
        BY <1>1, <2>1
    <3>2. Begin(t, start, k) = Begin(s, start, k)
        BY <1>2, <3>1 DEF Begin
    <3> QED
        BY <1>2, <2>1, <3>2 DEF Exact
  <2>2. CASE k = n
    <3>1. p + Begin(t, start, n) + MinSize = p + cursor
      <4>1. Begin(t, start, n) \in Nat
        BY <1>1, <1>2, <1>5
      <4> QED
        BY <4>1 DEF n
    <3> QED
        BY <1>3, <1>11, <2>2, <3>1
  <2> QED
    BY <1>4, <2>1, <2>2
<1> QED
    BY <1>1, <1>10, <1>12 DEF Exact

\* Every cutting point from first to last has a score.
Scored(sc, first, last) == \A q \in first .. last : sc[q] \in Nat

\* An entry is one of the cutting points that each entry below it is best of.
LEMMA EntryInRange ==
    ASSUME NEW s \in Seq(ChunkType), NEW start \in Nat, NEW cursor \in Nat,
           Spaced(s, start, cursor), NEW k \in 1 .. Len(s), NEW j \in 1 .. k
    PROVE  /\ j \in 1 .. Len(s)
           /\ Begin(s, start, j) \in Nat /\ Begin(s, start, j) >= start
           /\ s[j].end \in Nat /\ Begin(s, start, j) + MinSize <= s[j].end
           /\ s[k].end \in Nat /\ s[j].end <= s[k].end /\ s[k].end <= cursor
<1>1. Len(s) \in Nat /\ j \in 1 .. Len(s)
    BY Entries
<1>2. \A n \in 1 .. Len(s) : s[n].end \in Nat
    BY Entries
<1>3. s[k].end <= cursor /\ s[j].end >= start + MinSize
    BY <1>1 DEF Spaced
<1>4. s[j].end <= s[k].end
  <2>1. CASE j = k
    BY <1>2, <2>1
  <2>2. CASE j \in 1 .. (k - 1)
    <3>1. s[k].end >= s[j].end + MinSize
        BY <2>2 DEF Spaced
    <3>2. s[k].end \in Nat /\ s[j].end \in Nat
        BY <1>1, <1>2
    <3> QED
        BY <3>1, <3>2
  <2> QED
    BY <2>1, <2>2
<1>5. CASE j = 1
    BY <1>1, <1>2, <1>3, <1>4, <1>5 DEF Begin
<1>6. CASE j # 1
  <2>1. j - 1 \in 1 .. Len(s) /\ j - 1 \in 1 .. (j - 1)
    BY <1>1, <1>6
  <2>2. s[j].end >= s[j - 1].end + MinSize /\ s[j - 1].end >= start + MinSize
    BY <1>1, <2>1 DEF Spaced
  <2>3. s[j].end \in Nat /\ s[j - 1].end \in Nat /\ s[k].end \in Nat
    BY <1>1, <1>2, <2>1
  <2> QED
    BY <1>1, <1>3, <1>4, <1>6, <2>2, <2>3 DEF Begin
<1> QED
    BY <1>5, <1>6

\* The scores of a stack do not rise from its bottom to its top.
LEMMA ScoresDescend ==
    ASSUME NEW sc, NEW s \in Seq(ChunkType), NEW start \in Nat,
           NEW p \in Nat, NEW cursor \in Nat,
           Scored(sc, p + start + MinSize, p + cursor),
           Spaced(s, start, cursor), Exact(sc, s, start, p, cursor),
           NEW k \in 1 .. Len(s), NEW j \in 1 .. k
    PROVE  /\ sc[s[k].hash] \in Nat /\ sc[s[j].hash] \in Nat
           /\ sc[s[k].hash] <= sc[s[j].hash]
<1>1. s[k].hash = p + s[k].end /\ s[j].hash = p + s[j].end
    BY EntryInRange DEF Exact
<1>2. s[k].hash \in (p + Begin(s, start, j) + MinSize) .. (p + cursor)
  <2>1. /\ Begin(s, start, j) \in Nat /\ s[j].end \in Nat /\ s[k].end \in Nat
        /\ Begin(s, start, j) + MinSize <= s[j].end
        /\ s[j].end <= s[k].end /\ s[k].end <= cursor
    BY EntryInRange
  <2>2. p + s[k].end \in (p + Begin(s, start, j) + MinSize) .. (p + cursor)
    BY SMTT(30), <2>1
  <2> QED
    BY <1>1, <2>2
<1>3. s[j].hash \in (p + start + MinSize) .. (p + cursor)
    BY SMTT(30), <1>1, EntryInRange
<1>4. s[k].hash \in (p + start + MinSize) .. (p + cursor)
    BY SMTT(30), <1>2, EntryInRange
<1>5. j \in 1 .. Len(s)
    BY EntryInRange
<1> QED
    BY <1>2, <1>3, <1>4, <1>5 DEF Exact, Scored

\* The next cutting point is no better than the last entry: nothing changes.
LEMMA StackKept ==
    ASSUME NEW sc, NEW s \in Seq(ChunkType), s # <<>>, NEW start \in Nat,
           NEW p \in Nat, NEW cursor \in Nat,
           Scored(sc, p + start + MinSize, p + cursor + 1),
           sc[p + cursor + 1] \in Nat, sc[p + cursor + 1] <= sc[s[Len(s)].hash],
           Spaced(s, start, cursor), Exact(sc, s, start, p, cursor)
    PROVE  Spaced(s, start, cursor + 1) /\ Exact(sc, s, start, p, cursor + 1)
<1>1. Len(s) \in 1 .. Len(s)
    BY Entries, EmptySeq
<1>2. Scored(sc, p + start + MinSize, p + cursor)
    BY DEF Scored
<1>3. Spaced(s, start, cursor + 1)
  <2>1. ASSUME NEW k \in 1 .. Len(s) PROVE s[k].end <= cursor + 1
    BY SMTT(30), EntryInRange
  <2> QED
    BY <2>1 DEF Spaced
<1>4. ASSUME NEW k \in 1 .. Len(s),
             NEW q \in (p + Begin(s, start, k) + MinSize) .. (p + (cursor + 1))
      PROVE  sc[q] <= sc[s[k].hash] /\ (q < s[k].hash => sc[q] < sc[s[k].hash])
  <2>1. Begin(s, start, k) \in Nat /\ s[k].end \in Nat /\ s[k].end <= cursor
    <3>1. k \in 1 .. k
        OBVIOUS
    <3> QED
        BY <3>1, EntryInRange
  <2>2. CASE q \in (p + Begin(s, start, k) + MinSize) .. (p + cursor)
    BY <2>2 DEF Exact
  <2>3. CASE q = p + cursor + 1
    <3>1. s[k].hash = p + s[k].end
        BY DEF Exact
    <3>2. ~ (q < s[k].hash)
        BY <2>1, <2>3, <3>1
    <3>3. k \in 1 .. Len(s) /\ k \in 1 .. Len(s)
        OBVIOUS
    <3>4. /\ sc[s[Len(s)].hash] \in Nat /\ sc[s[k].hash] \in Nat
          /\ sc[s[Len(s)].hash] <= sc[s[k].hash]
        BY <1>1, <1>2, ScoresDescend
    <3> QED
        BY SMTT(30), <2>3, <3>2, <3>4
  <2> QED
    BY <2>1, <2>2, <2>3
<1>5. ASSUME NEW k \in 1 .. Len(s) PROVE s[k].hash = p + s[k].end
    BY DEF Exact
<1> QED
    BY <1>3, <1>4, <1>5 DEF Exact

\* The entries of s up to the m-th one, and the next cutting point.
ReplacedAfter(s, t, m, chunk) ==
    /\ Len(t) = m + 1
    /\ \A k \in 1 .. m : t[k] = s[k]
    /\ t[m + 1] = chunk

\* The next cutting point replaces the entries that it is better than.
LEMMA StackCollapsed ==
    ASSUME NEW sc, NEW s \in Seq(ChunkType), NEW t \in Seq(ChunkType), NEW start \in Nat,
           NEW p \in Nat, NEW cursor \in Nat, NEW m \in 0 .. (Len(s) - 1),
           ReplacedAfter(s, t, m, [hash |-> p + cursor + 1, end |-> cursor + 1]),
           Scored(sc, p + start + MinSize, p + cursor + 1),
           sc[p + cursor + 1] \in Nat,
           sc[s[m + 1].hash] < sc[p + cursor + 1],
           m > 0 => sc[p + cursor + 1] <= sc[s[m].hash],
           Spaced(s, start, cursor), Exact(sc, s, start, p, cursor)
    PROVE  Spaced(t, start, cursor + 1) /\ Exact(sc, t, start, p, cursor + 1)
<1>1. Len(s) \in Nat /\ m \in Nat /\ m + 1 \in 1 .. Len(s) /\ Len(t) = m + 1
    BY SMTT(30), Entries DEF ReplacedAfter
<1>2. ASSUME NEW k \in 1 .. m PROVE t[k] = s[k] /\ k \in 1 .. Len(s)
    BY <1>1 DEF ReplacedAfter
<1>3. t[m + 1].hash = p + cursor + 1 /\ t[m + 1].end = cursor + 1
    BY DEF ReplacedAfter
<1>4. Scored(sc, p + start + MinSize, p + cursor)
    BY DEF Scored
<1>5. \A k \in 1 .. (m + 1) : k \in 1 .. m \/ k = m + 1
    BY <1>1
<1>6. /\ s[m + 1].end \in Nat /\ s[m + 1].end <= cursor
      /\ Begin(s, start, m + 1) \in Nat
      /\ Begin(s, start, m + 1) + MinSize <= s[m + 1].end
    BY SMTT(30), <1>1, EntryInRange
<1>7. ASSUME NEW k \in 1 .. (m + 1)
      PROVE  /\ t[k].end >= start + MinSize /\ t[k].end <= cursor + 1
             /\ \A j \in 1 .. (k - 1) : t[k].end >= t[j].end + MinSize
  <2>1. CASE k \in 1 .. m
    <3>1. s[k].end >= start + MinSize /\ s[k].end \in Nat /\ s[k].end <= cursor
        BY <1>2, <2>1, Entries DEF Spaced
    <3>2. ASSUME NEW j \in 1 .. (k - 1) PROVE t[k].end >= t[j].end + MinSize
      <4>1. j \in 1 .. m
        BY <1>1, <2>1
      <4>2. t[j] = s[j] /\ t[k] = s[k]
        BY <1>2, <2>1, <4>1
      <4> QED
        BY <1>2, <2>1, <4>2 DEF Spaced
    <3>3. t[k] = s[k]
        BY <1>2, <2>1
    <3>4. t[k].end >= start + MinSize /\ t[k].end <= cursor + 1
        BY <3>1, <3>3
    <3> QED
        BY ONLY <3>2, <3>4
  <2>2. CASE k = m + 1
    <3>1. s[m + 1].end >= start + MinSize
        BY <1>1 DEF Spaced
    <3>2. ASSUME NEW j \in 1 .. (k - 1) PROVE t[k].end >= t[j].end + MinSize
      <4>1. j \in 1 .. m /\ j \in 1 .. ((m + 1) - 1)
        BY <1>1, <2>2
      <4>2. s[m + 1].end >= s[j].end + MinSize
        BY <1>1, <4>1 DEF Spaced
      <4>3. s[j].end \in Nat /\ t[j].end = s[j].end /\ t[k].end = cursor + 1
        BY <1>2, <1>3, <2>2, <4>1, Entries
      <4>4. s[m + 1].end <= cursor + 1
        BY SMTT(30), <1>6
      <4>5. cursor + 1 >= s[j].end + MinSize
        BY ONLY SMTT(30), MinSizeAssumption, <1>6, <4>2, <4>3, <4>4
      <4> QED
        BY <4>3, <4>5
    <3> QED
        BY SMTT(30), <1>3, <1>6, <2>2, <3>1, <3>2
  <2> QED
    BY <1>5, <2>1, <2>2
<1>8. Spaced(t, start, cursor + 1)
    BY <1>1, <1>7 DEF Spaced
<1>9. ASSUME NEW k \in 1 .. (m + 1) PROVE Begin(t, start, k) = Begin(s, start, k)
  <2>1. k = 1 \/ k - 1 \in 1 .. m
    BY <1>1
  <2> QED
    BY <1>2, <2>1 DEF Begin
<1>10. ASSUME NEW k \in 1 .. (m + 1),
              NEW q \in (p + Begin(s, start, k) + MinSize) .. (p + (cursor + 1))
       PROVE  sc[q] <= sc[t[k].hash] /\ (q < t[k].hash => sc[q] < sc[t[k].hash])
  <2>1. k \in 1 .. Len(s)
    BY <1>1
  <2>2. /\ Begin(s, start, k) \in Nat /\ s[k].end \in Nat /\ s[k].end <= cursor
        /\ Begin(s, start, k) >= start
    <3>1. k \in 1 .. k
        OBVIOUS
    <3> QED
        BY <2>1, <3>1, EntryInRange
  <2>3. q \in (p + Begin(s, start, k) + MinSize) .. (p + cursor) \/ q = p + cursor + 1
    <3>1. ASSUME NEW a \in Int, NEW b \in Int, NEW x \in a .. (b + 1)
          PROVE  x \in a .. b \/ x = b + 1
        OBVIOUS
    <3>2. p + Begin(s, start, k) + MinSize \in Int /\ p + cursor \in Int
        BY <2>2
    <3>3. q \in (p + Begin(s, start, k) + MinSize) .. ((p + cursor) + 1)
        BY <1>10, <2>2
    <3> QED
        BY <3>1, <3>2, <3>3
  <2>4. CASE k \in 1 .. m
    <3>1. t[k] = s[k] /\ s[k].hash = p + s[k].end
        BY <1>2, <2>1, <2>4 DEF Exact
    <3>2. CASE q \in (p + Begin(s, start, k) + MinSize) .. (p + cursor)
        BY <2>1, <3>1, <3>2 DEF Exact
    <3>3. CASE q = p + cursor + 1
      <4>1. m > 0 /\ m \in 1 .. Len(s) /\ k \in 1 .. m
        BY <1>1, <2>4
      <4>2. /\ sc[s[m].hash] \in Nat /\ sc[s[k].hash] \in Nat
            /\ sc[s[m].hash] <= sc[s[k].hash]
        BY <1>4, <4>1, ScoresDescend
      <4>3. ~ (q < s[k].hash)
        BY SMTT(30), <2>2, <3>1, <3>3
      <4> QED
        BY SMTT(30), <3>1, <3>3, <4>1, <4>2, <4>3
    <3> QED
        BY <2>3, <3>2, <3>3
  <2>5. CASE k = m + 1
    <3>1. CASE q \in (p + Begin(s, start, k) + MinSize) .. (p + cursor)
      <4>1. sc[q] <= sc[s[k].hash]
        BY <2>1, <3>1 DEF Exact
      <4>2. sc[s[k].hash] \in Nat
        BY <1>4, <2>1, ScoresDescend
      <4>3. sc[q] \in Nat
        BY <1>4, <2>2, <3>1 DEF Scored
      <4>4. sc[q] < sc[p + cursor + 1]
        BY <2>5, <4>1, <4>2, <4>3
      <4> QED
        BY SMTT(30), <1>3, <2>5, <4>3, <4>4
    <3>2. CASE q = p + cursor + 1
        BY <1>3, <2>5, <3>2
    <3> QED
        BY <2>3, <3>1, <3>2
  <2> QED
    BY <1>5, <2>4, <2>5
<1>11. ASSUME NEW k \in 1 .. (m + 1) PROVE t[k].hash = p + t[k].end
  <2>1. CASE k \in 1 .. m
    BY <1>2, <2>1 DEF Exact
  <2>2. CASE k = m + 1
    <3>1. p + (cursor + 1) = p + cursor + 1
        OBVIOUS
    <3> QED
        BY <1>3, <2>2, <3>1
  <2> QED
    BY <1>5, <2>1, <2>2
<1> QED
    BY <1>1, <1>8, <1>9, <1>10, <1>11 DEF Exact

-----------------------------------------------------------------------------
\* How many entries fit

\* The bytes that n chunks have at least.
Span(n) == n * MinSize

\* Entries that are n apart are n minimum sizes apart at least.
Steep(s, start) ==
    \A k \in 1 .. Len(s) :
        /\ s[k].end >= start + Span(k)
        /\ \A j \in 1 .. (k - 1) : s[k].end >= s[j].end + Span(k - j)

LEMMA SpanFacts ==
    /\ Span(0) = 0 /\ Span(1) = MinSize
    /\ \A n \in Nat : Span(n) \in Nat /\ Span(n + 1) = Span(n) + MinSize
<1>1. Span(0) = 0 /\ Span(1) = MinSize
    BY DEF Span
<1>2. ASSUME NEW n \in Nat PROVE Span(n) \in Nat /\ Span(n + 1) = Span(n) + MinSize
    BY DEF Span
<1> QED
    BY <1>1, <1>2

\* So many chunks are not more than the division of the bytes says.
LEMMA SpanBound ==
    ASSUME NEW n \in Nat, NEW bytes \in Nat, Span(n) <= bytes
    PROVE  n <= bytes \div MinSize
<1> DEFINE q == bytes \div MinSize
<1>1. q \in Nat /\ bytes < (q + 1) * MinSize
    BY Z3
<1> HIDE DEF q
<1>2. CASE n >= q + 1
  <2>1. n * MinSize >= (q + 1) * MinSize
    BY <1>1, <1>2, Z3
  <2> QED
    BY <1>1, <2>1, Z3 DEF Span
<1> QED
    BY <1>1, <1>2 DEF q

LEMMA ShiftedSteep ==
    ASSUME NEW s \in Seq(ChunkType), NEW t \in Seq(ChunkType), NEW start \in Nat,
           NEW d \in Nat, d <= start, MovedBy(s, t, d), Steep(s, start)
    PROVE  Steep(t, start - d)
<1>1. Len(s) \in Nat /\ Len(t) = Len(s)
    BY Entries DEF MovedBy
<1>2. ASSUME NEW k \in 1 .. Len(s) PROVE s[k].end \in Nat /\ t[k].end = s[k].end - d
    BY Entries DEF MovedBy
<1>3. ASSUME NEW k \in 1 .. Len(s) PROVE t[k].end >= (start - d) + Span(k)
  <2>1. s[k].end >= start + Span(k) /\ Span(k) \in Nat
    BY <1>1, SpanFacts DEF Steep
  <2> QED
    BY <1>2, <2>1
<1>4. ASSUME NEW k \in 1 .. Len(s), NEW j \in 1 .. (k - 1)
      PROVE  t[k].end >= t[j].end + Span(k - j)
  <2>1. j \in 1 .. Len(s) /\ k - j \in Nat
    BY <1>1
  <2>2. s[k].end >= s[j].end + Span(k - j) /\ Span(k - j) \in Nat
    BY <2>1, SpanFacts DEF Steep
  <2>3. /\ s[k].end \in Nat /\ s[j].end \in Nat
        /\ t[k].end = s[k].end - d /\ t[j].end = s[j].end - d
    BY <1>2, <2>1
  <2> QED
    BY ONLY SMTT(30), <2>2, <2>3
<1> QED
    BY <1>1, <1>3, <1>4 DEF Steep

LEMMA SteepOfNextChunk ==
    ASSUME NEW s \in Seq(ChunkType), NEW t \in Seq(ChunkType), NEW start \in Nat,
           WithoutFirst(s, t), Steep(s, start)
    PROVE  Steep(t, s[1].end)
<1>1. Len(s) \in Nat /\ Len(t) = Len(s) - 1
    BY Entries DEF WithoutFirst
<1>2. ASSUME NEW k \in 1 .. Len(t) PROVE k + 1 \in 1 .. Len(s) /\ t[k] = s[k + 1]
    BY <1>1 DEF WithoutFirst
<1>3. ASSUME NEW k \in 1 .. Len(t) PROVE t[k].end >= s[1].end + Span(k)
  <2>1. 1 \in 1 .. ((k + 1) - 1) /\ (k + 1) - 1 = k
    BY <1>1
  <2>2. s[k + 1].end >= s[1].end + Span((k + 1) - 1)
    BY <1>2, <2>1 DEF Steep
  <2> QED
    BY <1>2, <2>1, <2>2
<1>4. ASSUME NEW k \in 1 .. Len(t), NEW j \in 1 .. (k - 1)
      PROVE  t[k].end >= t[j].end + Span(k - j)
  <2>1. j \in 1 .. Len(t) /\ j + 1 \in 1 .. ((k + 1) - 1) /\ (k + 1) - (j + 1) = k - j
    BY <1>1
  <2>2. s[k + 1].end >= s[j + 1].end + Span((k + 1) - (j + 1))
    BY <1>2, <2>1 DEF Steep
  <2> QED
    BY <1>2, <2>1, <2>2
<1> QED
    BY <1>3, <1>4 DEF Steep

LEMMA SteepWithCursor ==
    ASSUME NEW s \in Seq(ChunkType), NEW t \in Seq(ChunkType), NEW start \in Nat,
           NEW p \in Nat, NEW cursor \in Nat,
           ExtendedBy(s, t, [hash |-> p + cursor, end |-> cursor]),
           cursor = Begin(t, start, Len(s) + 1) + MinSize, Steep(s, start)
    PROVE  Steep(t, start)
<1> DEFINE n == Len(s) + 1
<1>1. Len(s) \in Nat /\ Len(t) = n /\ n \in Nat
    BY Entries DEF ExtendedBy
<1>2. ASSUME NEW k \in 1 .. Len(s) PROVE t[k] = s[k] /\ s[k].end \in Nat
    BY Entries DEF ExtendedBy
<1>3. t[n].end = cursor
    BY DEF ExtendedBy
<1>4. \A k \in 1 .. n : k \in 1 .. Len(s) \/ k = n
    BY <1>1
<1>5. cursor = (IF Len(s) = 0 THEN start ELSE s[Len(s)].end) + MinSize
    BY <1>1, <1>2 DEF Begin
<1>6. ASSUME NEW j \in 1 .. Len(s) PROVE cursor >= s[j].end + Span(n - j)
  <2>1. Len(s) \in 1 .. Len(s) /\ cursor = s[Len(s)].end + MinSize
    BY <1>1, <1>5
  <2>2. CASE j = Len(s)
    <3>1. n - j = 1
        BY <1>1, <2>2
    <3>2. s[j].end \in Nat
        BY <1>2
    <3>3. cursor = s[j].end + MinSize
        BY <2>1, <2>2
    <3>4. Span(n - j) = MinSize
        BY <3>1, SpanFacts
    <3> QED
        BY ONLY MinSizeAssumption, <3>2, <3>3, <3>4
  <2>3. CASE j \in 1 .. (Len(s) - 1)
    <3>1. Len(s) - j \in Nat /\ n - j = (Len(s) - j) + 1
        BY <1>1
    <3>2. s[Len(s)].end >= s[j].end + Span(Len(s) - j)
        BY <2>1, <2>3 DEF Steep
    <3>3. Span(n - j) = Span(Len(s) - j) + MinSize /\ Span(Len(s) - j) \in Nat
        BY <3>1, SpanFacts
    <3>4. s[j].end \in Nat /\ s[Len(s)].end \in Nat
        BY <1>2, <2>1
    <3> QED
        BY ONLY SMTT(30), MinSizeAssumption, <2>1, <3>2, <3>3, <3>4
  <2> QED
    BY <1>1, <2>2, <2>3
<1>7. cursor >= start + Span(n)
  <2>1. CASE Len(s) = 0
    BY <1>5, <2>1, SpanFacts
  <2>2. CASE Len(s) \in 1 .. Len(s)
    <3>1. s[Len(s)].end >= start + Span(Len(s)) /\ s[Len(s)].end \in Nat
        BY <1>2, <2>2 DEF Steep
    <3>2. Span(n) = Span(Len(s)) + MinSize /\ Span(Len(s)) \in Nat
        BY <1>1, SpanFacts
    <3> QED
        BY <1>5, <2>2, <3>1, <3>2
  <2> QED
    BY <1>1, <2>1, <2>2
<1> HIDE DEF n
<1>8. ASSUME NEW k \in 1 .. n
      PROVE  /\ t[k].end >= start + Span(k)
             /\ \A j \in 1 .. (k - 1) : t[k].end >= t[j].end + Span(k - j)
  <2>1. \A j \in 1 .. (k - 1) : j \in 1 .. Len(s)
    BY <1>1 DEF n
  <2>2. CASE k \in 1 .. Len(s)
    BY <1>2, <2>1, <2>2 DEF Steep
  <2>3. CASE k = n
    <3>1. ASSUME NEW j \in 1 .. (k - 1) PROVE t[k].end >= t[j].end + Span(k - j)
        BY <1>2, <1>3, <1>6, <2>1, <2>3
    <3> QED
        BY <1>3, <1>7, <2>3, <3>1
  <2> QED
    BY <1>4, <2>2, <2>3
<1> QED
    BY <1>1, <1>8 DEF Steep

LEMMA SteepCollapsed ==
    ASSUME NEW s \in Seq(ChunkType), NEW t \in Seq(ChunkType), NEW start \in Nat,
           NEW p \in Nat, NEW cursor \in Nat, NEW m \in 0 .. (Len(s) - 1),
           ReplacedAfter(s, t, m, [hash |-> p + cursor + 1, end |-> cursor + 1]),
           s[m + 1].end <= cursor, Steep(s, start)
    PROVE  Steep(t, start)
<1>1. Len(s) \in Nat /\ m \in Nat /\ m + 1 \in 1 .. Len(s) /\ Len(t) = m + 1
    BY Entries DEF ReplacedAfter
<1>2. ASSUME NEW k \in 1 .. m PROVE t[k] = s[k] /\ k \in 1 .. Len(s)
    BY <1>1 DEF ReplacedAfter
<1>3. t[m + 1].end = cursor + 1 /\ s[m + 1].end \in Nat
    BY <1>1, Entries DEF ReplacedAfter
<1>4. \A k \in 1 .. (m + 1) : k \in 1 .. m \/ k = m + 1
    BY <1>1
<1>5. ASSUME NEW k \in 1 .. (m + 1)
      PROVE  /\ t[k].end >= start + Span(k)
             /\ \A j \in 1 .. (k - 1) : t[k].end >= t[j].end + Span(k - j)
  <2>1. \A j \in 1 .. (k - 1) : j \in 1 .. m
    BY <1>1
  <2>2. CASE k \in 1 .. m
    BY <1>2, <2>1, <2>2 DEF Steep
  <2>3. CASE k = m + 1
    <3>1. s[m + 1].end >= start + Span(k) /\ Span(k) \in Nat
      <4>1. k \in Nat /\ s[m + 1].end >= start + Span(m + 1)
        BY <1>1 DEF Steep
      <4> QED
        BY <2>3, <4>1, SpanFacts
    <3>2. ASSUME NEW j \in 1 .. (k - 1) PROVE t[k].end >= t[j].end + Span(k - j)
      <4>0. k = m + 1 /\ m \in Nat /\ j \in 1 .. (k - 1)
        BY <1>1, <2>3
      <4>1. k - j \in Nat /\ j \in 1 .. m
        BY ONLY <4>0
      <4>2. s[m + 1].end >= s[j].end + Span(k - j) /\ Span(k - j) \in Nat
        BY <1>1, <2>3, <4>1, SpanFacts DEF Steep
      <4>3. s[j].end \in Nat /\ t[j] = s[j]
        BY <1>2, <4>1, Entries
      <4>4. s[m + 1].end <= cursor /\ cursor \in Nat
        OBVIOUS
      <4>5. t[k].end = cursor + 1 /\ t[j].end = s[j].end
        BY <1>3, <2>3, <4>3
      <4>6. \A a, b, c, e \in Nat : a >= b + c /\ a <= e => e + 1 >= b + c
        OBVIOUS
      <4>7. s[m + 1].end \in Nat
        BY <1>3
      <4> QED
        BY <4>2, <4>3, <4>4, <4>5, <4>6, <4>7
    <3> QED
        BY <1>3, <2>3, <3>1, <3>2
  <2> QED
    BY <1>4, <2>2, <2>3
<1> QED
    BY <1>1, <1>5 DEF Steep

-----------------------------------------------------------------------------
\* The inductive invariant

\* A stack is sorted, exact and no longer than it has room for.
Sound(sc, s, start, p, cursor) ==
    Spaced(s, start, cursor) /\ Exact(sc, s, start, p, cursor) /\ Steep(s, start)

\* What the Peeker discarded and what it still has to is what was returned.
Aligned ==
    /\ pos + chunks[1].end = handedOut /\ handedOut <= fileSize
    /\ pc # "idle" => chunks[1].end = 0

\* Between calls no kept end is before the one of the returned chunk, and the
\* last of them is one that any call from here on can scan up to.
KeptInv ==
    ~ Scanning =>
        /\ \A k \in 1 .. Len(chunks) : chunks[k].end >= chunks[1].end
        /\ Len(chunks) >= 2 =>
              /\ chunks[Len(chunks) - 1].end <= chunks[Len(chunks)].end
              /\ chunks[Len(chunks)].end <= chunks[Len(chunks) - 1].end + MinSize
              /\ pos + chunks[Len(chunks)].end + MinSize <= fileSize
              /\ chunks[Len(chunks)].end + MinSize <= PeekSize

\* A scan leaves room for a last chunk, and its regions end where the current
\* chunk is full or sooner.
Rest == IF pc = "region" THEN regionLen ELSE 0
ScanInv ==
    Scanning =>
        /\ dataLen = Available(fileSize, pos) - MinSize /\ dataLen >= MinSize
        /\ currentChunk.end + Rest <= dataLen
        /\ currentChunk.end + Rest <= previousChunk.end + MinSize
        /\ pc = "scan" => previousChunk.end <= currentChunk.end

StackInv ==
    Stack # <<>> => /\ Sound(score, Stack, StackStart, pos, Cursor)
                    /\ CursorHash = pos + Cursor

IInv == TypeOK /\ Aligned /\ KeptInv /\ ScanInv /\ StackInv /\ StackHasRoom

LEMMA AvailableFacts ==
    ASSUME TypeOK, pos <= fileSize
    PROVE  /\ Available(fileSize, pos) \in Nat
           /\ Available(fileSize, pos) <= PeekSize
           /\ pos + Available(fileSize, pos) <= fileSize
           /\ \/ Available(fileSize, pos) = PeekSize
              \/ pos + Available(fileSize, pos) = fileSize
BY DEF TypeOK, Available, PeekSize

\* The stack that a scan works on, and the one that it leaves.
LEMMA ScanStack ==
    ASSUME NEW old \in Seq(ChunkType), NEW prev \in ChunkType
    PROVE  /\ Append(old, prev) \in Seq(ChunkType) /\ Append(old, prev) # <<>>
           /\ Len(old) \in Nat
           /\ ExtendedBy(old, Append(old, prev), prev)
BY Entries, AppendProperties DEF ExtendedBy

LEMMA KeptStack ==
    ASSUME NEW kept \in Seq(ChunkType), kept # <<>>
    PROVE  /\ Len(kept) \in Nat \ {0}
           /\ SubSeq(kept, 2, Len(kept) - 1) \in Seq(ChunkType)
           /\ Len(SubSeq(kept, 2, Len(kept) - 1)) =
                  IF Len(kept) >= 2 THEN Len(kept) - 2 ELSE 0
           /\ \A k \in 1 .. (Len(kept) - 2) : SubSeq(kept, 2, Len(kept) - 1)[k] = kept[k + 1]
<1>1. Len(kept) \in Nat /\ Len(kept) # 0
    BY Entries, EmptySeq
<1>2. \A k \in 2 .. (Len(kept) - 1) : kept[k] \in ChunkType
    BY <1>1, Entries
<1> DEFINE m == 2
           n == Len(kept) - 1
<1>3. m \in Int /\ n \in Int /\ \A k \in m .. n : kept[k] \in ChunkType
    BY <1>1, <1>2
<1>4. /\ SubSeq(kept, m, n) \in Seq(ChunkType)
      /\ Len(SubSeq(kept, m, n)) = IF m <= n THEN n - m + 1 ELSE 0
      /\ \A k \in 1 .. (n - m + 1) : SubSeq(kept, m, n)[k] = kept[m + k - 1]
  <2> HIDE DEF m, n
  <2> QED
    BY <1>3, SubSeqProperties
<1>5. \A k \in 1 .. (Len(kept) - 2) : 2 + k - 1 = k + 1
    BY <1>1
<1> QED
    BY <1>1, <1>4, <1>5

\* A set of natural numbers with an upper bound has a largest element.
LEMMA Maximum ==
    ASSUME NEW S \in SUBSET Nat, S # {}, NEW n \in Nat, \A x \in S : x <= n
    PROVE  Max(S) \in S /\ \A y \in S : Max(S) >= y
<1> DEFINE R == OpToRel(<, Nat)
           Bounds == {b \in Nat : \A x \in S : x <= b}
<1>1. IsWellFoundedOn(R, Nat)
    BY NatLessThanWellFounded
<1>2. \A x, y \in Nat : <<y, x>> \in R <=> y < x
    BY DEF OpToRel
<1>3. Bounds \subseteq Nat /\ Bounds # {}
    BY DEF Bounds
<1> HIDE DEF R, Bounds
<1>4. PICK b \in Bounds : \A y \in Bounds : ~ (<<y, b>> \in R)
    BY <1>1, <1>3, WFMin
<1>5. ASSUME b \notin S PROVE FALSE
  <2>1. b \in Nat /\ \A x \in S : x \in Nat /\ x <= b
    BY DEF Bounds
  <2>2. \A x \in S : x \in Nat /\ x < b
    BY <1>5, <2>1
  <2>3. b - 1 \in Nat /\ \A x \in S : x <= b - 1
    <3>1. PICK least \in S : TRUE
        OBVIOUS
    <3>2. b > 0
        BY <2>1, <2>2, <3>1
    <3>3. ASSUME NEW x \in S PROVE x <= b - 1
        BY <2>1, <2>2
    <3> QED
        BY <2>1, <3>2, <3>3
  <2>4. b - 1 \in Bounds
    BY <2>3 DEF Bounds
  <2>5. b - 1 < b
    BY <2>1
  <2> HIDE DEF Bounds
  <2> QED
    BY <1>2, <1>4, <2>1, <2>3, <2>4, <2>5
<1>6. \E x \in S : \A y \in S : x >= y
    BY <1>4, <1>5 DEF Bounds
<1> QED
    BY <1>6 DEF Max

\* What the loop over the stack leaves of it.
LEMMA CollapsedFacts ==
    ASSUME oldChunks \in Seq(ChunkType), NEW h
    PROVE  \E m \in 0 .. Len(oldChunks) :
              /\ Collapsed(h) \in Seq(ChunkType) /\ Len(Collapsed(h)) = m
              /\ \A k \in 1 .. m : Collapsed(h)[k] = oldChunks[k]
              /\ m > 0 => score[h] <= score[oldChunks[m].hash]
              /\ m < Len(oldChunks) => ~ (score[h] <= score[oldChunks[m + 1].hash])
<1> DEFINE S == {0} \cup {k \in DOMAIN oldChunks : score[h] <= score[oldChunks[k].hash]}
           m == Max(S)
<1>1. Len(oldChunks) \in Nat /\ DOMAIN oldChunks = 1 .. Len(oldChunks)
    BY Entries
<1>2. m \in S /\ \A y \in S : m >= y
  <2>1. S \in SUBSET Nat /\ S # {} /\ \A x \in S : x <= Len(oldChunks)
    BY <1>1
  <2> HIDE DEF S
  <2> QED
    BY <1>1, <2>1, Maximum
<1>3. m \in 0 .. Len(oldChunks) /\ (m > 0 => score[h] <= score[oldChunks[m].hash])
  <2> HIDE DEF m
  <2>1. m = 0 \/ (m \in DOMAIN oldChunks /\ score[h] <= score[oldChunks[m].hash])
    BY <1>2
  <2> QED
    BY <1>1, <2>1
<1>4. ASSUME m < Len(oldChunks), score[h] <= score[oldChunks[m + 1].hash] PROVE FALSE
  <2> HIDE DEF m
  <2>1. m \in Nat /\ m + 1 \in DOMAIN oldChunks
    BY <1>1, <1>3, <1>4
  <2>2. m + 1 \in S
    BY <1>4, <2>1
  <2> HIDE DEF S
  <2>3. m >= m + 1
    BY <1>2, <2>2
  <2> QED
    BY <2>1, <2>3
<1> HIDE DEF m, S
<1>5. /\ SubSeq(oldChunks, 1, m) \in Seq(ChunkType)
      /\ Len(SubSeq(oldChunks, 1, m)) = m
      /\ \A k \in 1 .. m : SubSeq(oldChunks, 1, m)[k] = oldChunks[k]
  <2>1. \A k \in 1 .. m : oldChunks[k] \in ChunkType
    BY <1>1, <1>3, Entries
  <2>2. m \in Nat /\ 1 \in Int /\ m \in Int
    BY <1>1, <1>3
  <2>3. /\ SubSeq(oldChunks, 1, m) \in Seq(ChunkType)
        /\ Len(SubSeq(oldChunks, 1, m)) = IF 1 <= m THEN m - 1 + 1 ELSE 0
        /\ \A k \in 1 .. (m - 1 + 1) : SubSeq(oldChunks, 1, m)[k] = oldChunks[1 + k - 1]
    BY <2>1, <2>2, SubSeqProperties
  <2> QED
    BY <2>2, <2>3
<1>6. Collapsed(h) = SubSeq(oldChunks, 1, m)
    BY DEF Collapsed, m, S
<1> QED
    BY <1>3, <1>4, <1>5, <1>6

-----------------------------------------------------------------------------
\* The steps between scans

Forward == pos' + Cursor' >= pos + Cursor

LEMMA PeekSizeFacts ==
    /\ PeekSize \in Nat /\ PeekSize >= 2 * MinSize /\ PeekSize \div MinSize \in Nat
    /\ PeekSize \div MinSize >= 2
<1>1. PeekSize \in Nat /\ PeekSize >= 2 * MinSize
    BY DEF PeekSize
<1>2. Span(2) <= PeekSize
    BY <1>1 DEF Span
<1>3. PeekSize \div MinSize \in Nat
    BY <1>1, Z3
<1> QED
    BY <1>1, <1>2, <1>3, SpanBound

\* The stack of a reader that keeps one chunk only is empty.
LEMMA NoStack ==
    ASSUME NEW chunk \in ChunkType
    PROVE  /\ <<chunk>> \in Seq(ChunkType) /\ <<chunk>> # <<>> /\ Len(<<chunk>>) = 1
           /\ <<chunk>>[1] = chunk /\ SubSeq(<<chunk>>, 2, Len(<<chunk>>) - 1) = <<>>
<1>1. <<chunk>> \in Seq(ChunkType) /\ Len(<<chunk>>) = 1 /\ <<chunk>>[1] = chunk
    OBVIOUS
<1>2. 2 \in Int /\ Len(<<chunk>>) - 1 \in Int /\ Len(<<chunk>>) - 1 < 2
    BY <1>1
<1>3. SubSeq(<<chunk>>, 2, Len(<<chunk>>) - 1) = <<>>
    BY <1>2, SubSeqEmpty
<1> QED
    BY <1>1, <1>3, EmptySeq

LEMMA InitIInv == Init => IInv
<1> SUFFICES ASSUME Init PROVE IInv
    OBVIOUS
<1>1. NoChunk \in ChunkType /\ NoChunk.end = 0
    BY DEF NoChunk, ChunkType, NoHash
<1>2. chunks \in Seq(ChunkType) /\ chunks # <<>> /\ Len(chunks) = 1 /\ chunks[1] = NoChunk
    BY <1>1, NoStack DEF Init
<1>3. Stack = <<>>
    BY <1>1, NoStack DEF Init, Stack, Scanning
<1>4. TypeOK
  <2>1. fileSize \in Nat /\ score \in [CutsOf(fileSize) -> Nat]
    BY FilesAssumption DEF Init
  <2> QED
    BY <1>1, <1>2, <2>1, EmptySeq DEF Init, TypeOK
<1>5. Aligned /\ KeptInv /\ ScanInv
    BY <1>1, <1>2, <1>4 DEF Init, Aligned, KeptInv, ScanInv, Scanning, TypeOK
<1>6. StackHasRoom
    BY <1>2, PeekSizeFacts, EmptySeq DEF Init, StackHasRoom
<1> QED
    BY <1>3, <1>4, <1>5, <1>6 DEF IInv, StackInv

\* A call that ends without touching the chunks.
LEMMA NothingMovesIInv ==
    ASSUME IInv, pc \in {"idle", "peek"}, pc' = "idle", result' \in {"eof", "error"},
           faults' \in 0 .. MaxFaults,
           UNCHANGED <<file, pos, chunks, scan, handedOut>>
    PROVE  IInv' /\ Forward
<1>1. /\ Stack' = Stack /\ StackStart' = StackStart /\ Cursor' = Cursor
      /\ CursorHash' = CursorHash
    BY DEF Stack, StackStart, Cursor, CursorHash, Scanning
<1>2. TypeOK' /\ StackHasRoom'
    BY DEF IInv, TypeOK, StackHasRoom, file, scan, stack
<1>3. Aligned' /\ KeptInv' /\ ScanInv' /\ StackInv'
    BY <1>1 DEF IInv, Aligned, KeptInv, ScanInv, StackInv, Scanning, file, scan, stack
<1>4. Forward
  <2>1. Cursor \in Nat /\ pos \in Nat
    BY Entries, EmptySeq DEF IInv, TypeOK, Cursor, Last
  <2> QED
    BY <1>1, <2>1 DEF Forward
<1> QED
    BY <1>2, <1>3, <1>4 DEF IInv

\* Ends of chunks move with the stream, whether all of the chunk is discarded
\* or the Peeker fails before.
LEMMA DiscardIInv ==
    ASSUME IInv, pc = "idle", pc' \in {"idle", "peek"},
           NEW d \in 0 .. chunks[1].end, Discard(d),
           pc' = "peek" => d = chunks[1].end,
           result' \in {"none", "chunk", "eof", "error"}, faults' \in 0 .. MaxFaults,
           UNCHANGED <<file, scan, handedOut>>
    PROVE  IInv' /\ Forward
<1> DEFINE n == Len(chunks)
<1>1. /\ chunks \in Seq(ChunkType) /\ chunks # <<>> /\ n \in Nat /\ n # 0
      /\ DOMAIN chunks = 1 .. n /\ pos \in Nat /\ fileSize \in Nat
      /\ \A k \in 1 .. n : chunks[k] \in ChunkType /\ chunks[k].end \in Nat
    BY Entries, EmptySeq DEF IInv, TypeOK
<1> HIDE DEF n
<1>2. d \in Nat /\ chunks[1].end \in Nat /\ d <= chunks[1].end
    BY <1>1
<1>3. /\ pos' = pos + d
      /\ chunks' = [k \in 1 .. n |-> [chunks[k] EXCEPT !.end = @ - d]]
    BY <1>1 DEF Discard
<1>4. ASSUME NEW k \in 1 .. n
      PROVE  /\ chunks'[k] \in ChunkType /\ chunks'[k].hash = chunks[k].hash
             /\ chunks'[k].end = chunks[k].end - d /\ chunks'[k].end \in Nat
  <2>1. chunks[k].end >= chunks[1].end
    BY DEF IInv, KeptInv, Scanning, n
  <2>2. chunks[k].end - d \in Nat
    BY <1>1, <1>2, <2>1
  <2> QED
    BY <1>1, <1>3, <2>2 DEF ChunkType
<1>5. chunks' \in Seq(ChunkType) /\ Len(chunks') = n /\ chunks' # <<>>
  <2>1. chunks' \in [1 .. n -> ChunkType]
    BY <1>3, <1>4
  <2> QED
    BY <1>1, <2>1, EmptySeq
<1>6. /\ Stack = SubSeq(chunks, 2, n - 1) /\ Stack' = SubSeq(chunks', 2, n - 1)
      /\ StackStart = chunks[1].end /\ StackStart' = chunks'[1].end
      /\ Cursor = chunks[n].end /\ Cursor' = chunks'[n].end
      /\ CursorHash = chunks[n].hash /\ CursorHash' = chunks'[n].hash
    BY <1>5 DEF Stack, StackStart, Cursor, CursorHash, Scanning, Last, n
<1>7. /\ Stack \in Seq(ChunkType) /\ Stack' \in Seq(ChunkType)
      /\ Len(Stack) = (IF n >= 2 THEN n - 2 ELSE 0) /\ Len(Stack') = Len(Stack)
      /\ \A k \in 1 .. (n - 2) : Stack[k] = chunks[k + 1] /\ Stack'[k] = chunks'[k + 1]
    BY <1>1, <1>5, <1>6, KeptStack DEF n
<1>8. MovedBy(Stack, Stack', d)
  <2>1. ASSUME NEW k \in 1 .. Len(Stack)
        PROVE  Stack'[k].hash = Stack[k].hash /\ Stack'[k].end = Stack[k].end - d
    <3>1. k \in 1 .. (n - 2) /\ k + 1 \in 1 .. n
        BY <1>1, <1>7
    <3> QED
        BY <1>4, <1>7, <3>1
  <2> QED
    BY <1>7, <2>1 DEF MovedBy
<1>9. /\ chunks'[1].end = chunks[1].end - d /\ chunks[n].end \in Nat
      /\ chunks'[n].end = chunks[n].end - d /\ chunks'[n].hash = chunks[n].hash
  <2>1. 1 \in 1 .. n /\ n \in 1 .. n
    BY <1>1
  <2> QED
    BY <1>1, <1>4, <2>1
<1>10. StackInv'
  <2> SUFFICES ASSUME Stack' # <<>> PROVE StackInv'
    BY DEF StackInv
  <2>1. Stack # <<>>
    BY <1>7, EmptySeq
  <2>2. /\ StackStart \in Nat /\ Cursor \in Nat /\ d <= StackStart
        /\ StackStart' = StackStart - d /\ Cursor' = Cursor - d
    BY <1>1, <1>2, <1>6, <1>9
  <2>3. Sound(score, Stack, StackStart, pos, Cursor) /\ CursorHash = pos + Cursor
    BY <2>1 DEF IInv, StackInv
  <2>4. Sound(score, Stack', StackStart - d, pos + d, Cursor - d)
    BY <1>1, <1>2, <1>7, <1>8, <2>2, <2>3, ShiftedStack, ShiftedSteep DEF Sound
  <2>5. CursorHash' = (pos + d) + (Cursor - d)
    BY ONLY <1>1, <1>2, <1>6, <1>9, <2>2, <2>3
  <2> QED
    BY <1>3, <2>2, <2>4, <2>5 DEF StackInv, file
<1>11. TypeOK'
    BY SMTT(30), <1>1, <1>2, <1>3, <1>5 DEF IInv, TypeOK, file, scan, stack
<1>12. StackHasRoom'
    BY <1>5 DEF IInv, StackHasRoom, scan, stack, n
<1>13. Aligned'
  <2>1. pos + chunks[1].end = handedOut /\ handedOut <= fileSize
    BY DEF IInv, Aligned
  <2>2. pos' + chunks'[1].end = handedOut
    BY ONLY <1>1, <1>2, <1>3, <1>9, <2>1
  <2>3. pc' # "idle" => chunks'[1].end = 0
    BY <1>2, <1>9
  <2> QED
    BY <2>1, <2>2, <2>3 DEF Aligned, file
<1>14. KeptInv' /\ ScanInv'
  <2>1. ASSUME NEW k \in 1 .. n PROVE chunks'[k].end >= chunks'[1].end
    <3>1. chunks[k].end >= chunks[1].end
        BY DEF IInv, KeptInv, Scanning, n
    <3> QED
        BY <1>1, <1>2, <1>4, <1>9, <3>1
  <2>2. ASSUME n >= 2
        PROVE  /\ chunks'[n - 1].end <= chunks'[n].end
               /\ chunks'[n].end <= chunks'[n - 1].end + MinSize
               /\ pos' + chunks'[n].end + MinSize <= fileSize
               /\ chunks'[n].end + MinSize <= PeekSize
    <3>1. n - 1 \in 1 .. n
        BY <1>1, <2>2
    <3>2. /\ chunks[n - 1].end <= chunks[n].end
          /\ chunks[n].end <= chunks[n - 1].end + MinSize
          /\ pos + chunks[n].end + MinSize <= fileSize
          /\ chunks[n].end + MinSize <= PeekSize
        BY <2>2 DEF IInv, KeptInv, Scanning, n
    <3>3. /\ chunks[n - 1].end \in Nat /\ chunks[n].end \in Nat
          /\ chunks'[n - 1].end = chunks[n - 1].end - d
          /\ chunks'[n].end = chunks[n].end - d
        BY <1>1, <1>4, <1>9, <3>1
    <3>4. PeekSize \in Nat
        BY PeekSizeFacts
    <3>5. /\ chunks'[n - 1].end <= chunks'[n].end
          /\ chunks'[n].end <= chunks'[n - 1].end + MinSize
        BY ONLY MinSizeAssumption, <1>2, <3>2, <3>3
    <3>6. /\ pos' + chunks'[n].end + MinSize <= fileSize
          /\ chunks'[n].end + MinSize <= PeekSize
        BY ONLY SMTT(30), MinSizeAssumption, <1>1, <1>2, <1>3, <3>2, <3>3, <3>4
    <3> QED
        BY <3>5, <3>6
  <2> QED
    BY <1>5, <2>1, <2>2 DEF KeptInv, ScanInv, Scanning, file
<1>15. Forward
    BY ONLY <1>1, <1>2, <1>3, <1>6, <1>9 DEF Forward
<1> QED
    BY <1>10, <1>11, <1>12, <1>13, <1>14, <1>15 DEF IInv

\* The rest of the file is returned whole, and the reader keeps no stack.
LEMMA ReturnTailIInv ==
    ASSUME IInv, ReturnTail PROVE IInv' /\ Forward
<1> DEFINE a == Available(fileSize, pos)
           n == Len(chunks)
<1>1. /\ pc = "peek" /\ a \in 1 .. (2 * MinSize - 1)
      /\ chunks' = <<[hash |-> NoHash, end |-> a]>>
      /\ handedOut' = handedOut + a
      /\ pc' = "idle" /\ result' = "chunk" /\ UNCHANGED <<file, peeker, scan>>
  <2>1. /\ pc = "peek" /\ a \in 1 .. (2 * MinSize - 1)
        /\ ReturnChunk(<<[hash |-> NoHash, end |-> a]>>)
        /\ UNCHANGED <<file, peeker, scan>>
    BY DEF ReturnTail
  <2> HIDE DEF a
  <2> QED
    BY <2>1 DEF ReturnChunk
<1>2. /\ pos \in Nat /\ fileSize \in Nat /\ handedOut \in Nat
      /\ chunks \in Seq(ChunkType) /\ n \in Nat /\ n # 0
      /\ \A k \in 1 .. n : chunks[k].end \in Nat
    BY Entries, EmptySeq DEF IInv, TypeOK
<1>3. chunks[1].end = 0 /\ pos = handedOut /\ handedOut <= fileSize
    BY <1>1, <1>2 DEF IInv, Aligned
<1>4. a \in Nat /\ a <= PeekSize /\ pos + a <= fileSize /\ (a = PeekSize \/ pos + a = fileSize)
    BY <1>3, AvailableFacts DEF IInv
<1> HIDE DEF a, n
<1>5. [hash |-> NoHash, end |-> a] \in ChunkType
    BY <1>4 DEF ChunkType, NoHash
<1>6. /\ chunks' \in Seq(ChunkType) /\ chunks' # <<>> /\ Len(chunks') = 1
      /\ chunks'[1].end = a /\ SubSeq(chunks', 2, Len(chunks') - 1) = <<>>
    BY <1>1, <1>5, NoStack
<1>7. TypeOK'
    BY <1>1, <1>2, <1>4, <1>6 DEF IInv, TypeOK, file, peeker, scan, stack
<1>8. Aligned' /\ KeptInv' /\ ScanInv'
    BY <1>1, <1>2, <1>3, <1>4, <1>6
    DEF Aligned, KeptInv, ScanInv, Scanning, file, peeker
<1>9. StackInv' /\ StackHasRoom'
    BY <1>1, <1>6, PeekSizeFacts
    DEF StackInv, Stack, Scanning, IInv, StackHasRoom, scan, stack
<1>10. chunks[n].end <= a /\ chunks[n].end \in Nat
  <2>1. chunks[n].end \in Nat
    BY <1>2
  <2>2. CASE n = 1
    BY <1>3, <1>4, <2>2
  <2>3. CASE n >= 2
    <3>1. pos + chunks[n].end + MinSize <= fileSize /\ chunks[n].end + MinSize <= PeekSize
        BY <1>1, <2>3 DEF IInv, KeptInv, Scanning, n
    <3> QED
        BY ONLY MinSizeAssumption, <1>2, <1>4, <2>1, <3>1
  <2> QED
    BY <1>2, <2>1, <2>2, <2>3
<1>11. Forward
  <2>1. Cursor = chunks[n].end /\ Cursor' = a
    BY <1>1, <1>6 DEF Cursor, Last, n
  <2> QED
    BY <1>1, <1>2, <1>4, <1>10, <2>1 DEF Forward, peeker
<1> QED
    BY <1>7, <1>8, <1>9, <1>11 DEF IInv

-----------------------------------------------------------------------------
\* The steps of a scan

\* What the invariant says while a scan is under way.
LEMMA ScanFacts ==
    ASSUME IInv, Scanning
    PROVE  /\ pos \in Nat /\ fileSize \in Nat /\ dataLen \in Nat /\ handedOut \in Nat
           /\ regionLen \in Nat /\ i \in 0 .. regionLen
           /\ oldChunks \in Seq(ChunkType) /\ Len(oldChunks) \in Nat
           /\ previousChunk.end \in Nat /\ currentChunk.end \in Nat
           /\ chunks[1].end = 0 /\ StackStart = 0 /\ pos = handedOut
           /\ Stack = Append(oldChunks, previousChunk)
           /\ Stack \in Seq(ChunkType) /\ Stack # <<>>
           /\ ExtendedBy(oldChunks, Stack, previousChunk)
           /\ pos + dataLen + MinSize <= fileSize /\ dataLen + MinSize <= PeekSize
           /\ Cursor \in Nat /\ Cursor <= dataLen
           /\ Sound(score, Stack, 0, pos, Cursor)
           /\ currentChunk.hash = pos + Cursor
           /\ Scored(score, pos + 0 + MinSize, pos + dataLen)
<1>1. /\ pos \in Nat /\ fileSize \in Nat /\ dataLen \in Nat /\ handedOut \in Nat
      /\ regionLen \in Nat /\ i \in 0 .. regionLen
      /\ oldChunks \in Seq(ChunkType) /\ Len(oldChunks) \in Nat
      /\ previousChunk \in ChunkType
      /\ previousChunk.end \in Nat /\ currentChunk.end \in Nat
      /\ chunks[1].end \in Nat /\ score \in [CutsOf(fileSize) -> Nat]
  <2>1. chunks[1].end \in Nat
    BY Entries, EmptySeq DEF IInv, TypeOK
  <2>2. Len(oldChunks) \in Nat
    BY Entries DEF IInv, TypeOK
  <2> QED
    BY <2>1, <2>2 DEF IInv, TypeOK, ChunkType
<1>2. chunks[1].end = 0 /\ StackStart = 0 /\ pos = handedOut /\ handedOut <= fileSize
    BY <1>1 DEF IInv, Aligned, Scanning, StackStart
<1>3. /\ Stack = Append(oldChunks, previousChunk)
      /\ Stack \in Seq(ChunkType) /\ Stack # <<>>
      /\ ExtendedBy(oldChunks, Stack, previousChunk)
    BY <1>1, ScanStack DEF Stack
<1>4. pos + dataLen + MinSize <= fileSize /\ dataLen + MinSize <= PeekSize
  <2>1. dataLen = Available(fileSize, pos) - MinSize
    BY DEF IInv, ScanInv
  <2>2. /\ Available(fileSize, pos) \in Nat /\ Available(fileSize, pos) <= PeekSize
        /\ pos + Available(fileSize, pos) <= fileSize
    BY <1>2, AvailableFacts DEF IInv
  <2>3. PeekSize \in Nat
    BY PeekSizeFacts
  <2> QED
    BY ONLY MinSizeAssumption, <1>1, <2>1, <2>2, <2>3
<1>5. /\ Cursor = currentChunk.end + (IF pc = "region" THEN i ELSE 0)
      /\ currentChunk.end + (IF pc = "region" THEN regionLen ELSE 0) <= dataLen
    BY <1>1 DEF IInv, ScanInv, Rest, Cursor, Scanning
<1>6. Cursor \in Nat /\ Cursor <= dataLen
    BY <1>1, <1>5
<1>7. Sound(score, Stack, 0, pos, Cursor) /\ currentChunk.hash = pos + Cursor
    BY <1>2, <1>3 DEF IInv, StackInv, CursorHash
<1>8. Scored(score, pos + 0 + MinSize, pos + dataLen)
  <2>1. ASSUME NEW q \in (pos + 0 + MinSize) .. (pos + dataLen) PROVE q \in CutsOf(fileSize)
    BY <1>1, <1>4 DEF CutsOf
  <2> QED
    BY <1>1, <2>1 DEF Scored
<1> QED
    BY <1>1, <1>2, <1>3, <1>4, <1>6, <1>7, <1>8

\* What is left to show of a step of a scan: it changes no more than the scan.
LEMMA ScanStepIInv ==
    ASSUME IInv, pc # "idle", pc' \in {"scan", "region"},
           UNCHANGED <<file, peeker, chunks, result, handedOut>>,
           oldChunks' \in Seq(ChunkType), previousChunk' \in ChunkType,
           currentChunk' \in ChunkType, dataLen' \in Nat, regionLen' \in Nat,
           i' \in 0 .. regionLen', ScanInv', Cursor' \in Nat,
           Sound(score, Append(oldChunks', previousChunk'), 0, pos, Cursor'),
           currentChunk'.hash = pos + Cursor',
           Len(oldChunks') + 2 <= PeekSize \div MinSize + 1
    PROVE  IInv'
<1>1. TypeOK'
    BY DEF IInv, TypeOK, file, peeker
<1>2. Aligned' /\ KeptInv'
    BY DEF IInv, Aligned, KeptInv, Scanning, file, peeker
<1>3. Scanning' /\ StackStart' = 0
    BY DEF IInv, Aligned, Scanning, StackStart
<1>4. Stack' = Append(oldChunks', previousChunk') /\ CursorHash' = currentChunk'.hash
    BY <1>3 DEF Stack, CursorHash
<1>5. StackInv'
    BY <1>3, <1>4 DEF StackInv, file, peeker
<1>6. StackHasRoom'
    BY DEF IInv, StackHasRoom
<1> QED
    BY <1>1, <1>2, <1>5, <1>6 DEF IInv

LEMMA MinOfTwo ==
    ASSUME NEW a \in Int, NEW b \in Int
    PROVE  Min({a, b}) = IF a <= b THEN a ELSE b
<1>1. \E x \in {a, b} : \A y \in {a, b} : x <= y
    OBVIOUS
<1>2. /\ Min({a, b}) \in {a, b}
      /\ \A y \in {a, b} : Min({a, b}) <= y
    BY <1>1 DEF Min
<1> QED
    BY <1>2

\* A region is as long as the data and the current chunk allow.
LEMMA RegionFacts ==
    ASSUME IInv, pc = "scan"
    PROVE  /\ HashRegionLen \in Nat
           /\ currentChunk.end + HashRegionLen <= dataLen
           /\ currentChunk.end + HashRegionLen <= previousChunk.end + MinSize
           /\ HashRegionLen = 0 => \/ currentChunk.end = dataLen
                                   \/ currentChunk.end = previousChunk.end + MinSize
           /\ previousChunk.end <= currentChunk.end
<1>1. dataLen \in Nat /\ previousChunk.end \in Nat /\ currentChunk.end \in Nat
    BY ScanFacts DEF Scanning
<1>2. /\ currentChunk.end <= dataLen /\ currentChunk.end <= previousChunk.end + MinSize
      /\ previousChunk.end <= currentChunk.end
    BY <1>1 DEF IInv, ScanInv, Rest, Scanning
<1> DEFINE a == dataLen - currentChunk.end
           b == MinSize - (currentChunk.end - previousChunk.end)
<1>3. a \in Int /\ b \in Int /\ HashRegionLen = Min({a, b})
    BY <1>1 DEF HashRegionLen
<1>4. HashRegionLen = IF a <= b THEN a ELSE b
  <2> HIDE DEF a, b
  <2> QED
    BY <1>3, MinOfTwo
<1> QED
    BY <1>1, <1>2, <1>4

LEMMA StartRegionIInv == ASSUME IInv, StartRegion PROVE IInv' /\ Forward
<1>1. /\ pc = "scan" /\ pc' = "region" /\ regionLen' = HashRegionLen /\ i' = 0
      /\ UNCHANGED <<file, peeker, chunks, result, dataLen, stack, handedOut>>
      /\ Scanning
    BY DEF StartRegion, Scanning
<1>2. Cursor = currentChunk.end /\ Cursor' = currentChunk.end + 0
    BY <1>1 DEF Cursor, stack
<1>3. Cursor \in Nat /\ pos \in Nat /\ Cursor' = Cursor
    BY <1>1, <1>2, ScanFacts
<1>4. ScanInv'
    BY <1>1, RegionFacts DEF IInv, ScanInv, Scanning, Rest, file, peeker, stack
<1>5. /\ oldChunks' \in Seq(ChunkType) /\ previousChunk' \in ChunkType
      /\ currentChunk' \in ChunkType /\ dataLen' \in Nat /\ regionLen' \in Nat
      /\ i' \in 0 .. regionLen'
    BY <1>1, RegionFacts DEF IInv, TypeOK, stack
<1>6. /\ Sound(score, Append(oldChunks', previousChunk'), 0, pos, Cursor')
      /\ currentChunk'.hash = pos + Cursor'
    BY <1>1, <1>3, ScanFacts DEF stack
<1>7. Len(oldChunks') + 2 <= PeekSize \div MinSize + 1
    BY <1>1 DEF IInv, StackHasRoom, stack
<1>8. IInv'
    BY <1>1, <1>3, <1>4, <1>5, <1>6, <1>7, ScanStepIInv
<1> QED
    BY <1>1, <1>3, <1>8 DEF Forward, peeker

LEMMA EndRegionIInv == ASSUME IInv, EndRegion PROVE IInv' /\ Forward
<1>1. /\ pc = "region" /\ i = regionLen /\ pc' = "scan"
      /\ currentChunk' = [currentChunk EXCEPT !.end = @ + regionLen]
      /\ UNCHANGED <<file, peeker, chunks, result, dataLen, oldChunks, previousChunk,
                     regionLen, i, handedOut>>
      /\ Scanning
    BY DEF EndRegion, Scanning
<1>2. /\ currentChunk \in ChunkType /\ currentChunk.end \in Nat /\ regionLen \in Nat
      /\ pos \in Nat /\ previousChunk.end \in Nat
    BY <1>1, ScanFacts DEF IInv, TypeOK
<1>3. /\ currentChunk' \in ChunkType /\ currentChunk'.hash = currentChunk.hash
      /\ currentChunk'.end = currentChunk.end + regionLen
    BY <1>1, <1>2 DEF ChunkType
<1>4. Cursor = currentChunk.end + i /\ Cursor' = currentChunk'.end
    BY <1>1 DEF Cursor
<1>5. Cursor \in Nat /\ Cursor' = Cursor
    BY <1>1, <1>2, <1>3, <1>4, ScanFacts
<1>6. previousChunk.end <= Cursor
  <2>1. /\ Spaced(Stack, 0, Cursor) /\ Stack \in Seq(ChunkType)
        /\ Len(Stack) \in 1 .. Len(Stack) /\ Stack[Len(Stack)] = previousChunk
    BY <1>1, ScanFacts DEF Sound, ExtendedBy
  <2> QED
    BY <2>1 DEF Spaced
<1>7. ScanInv'
    BY <1>1, <1>2, <1>3, <1>4, <1>5, <1>6 DEF IInv, ScanInv, Scanning, Rest, file, peeker
<1>8. /\ oldChunks' \in Seq(ChunkType) /\ previousChunk' \in ChunkType
      /\ dataLen' \in Nat /\ regionLen' \in Nat /\ i' \in 0 .. regionLen'
    BY <1>1 DEF IInv, TypeOK
<1>9. /\ Sound(score, Append(oldChunks', previousChunk'), 0, pos, Cursor')
      /\ currentChunk'.hash = pos + Cursor'
    BY <1>1, <1>3, <1>5, ScanFacts
<1>10. Len(oldChunks') + 2 <= PeekSize \div MinSize + 1
    BY <1>1 DEF IInv, StackHasRoom
<1>11. IInv'
    BY <1>1, <1>3, <1>5, <1>7, <1>8, <1>9, <1>10, ScanStepIInv
<1> QED
    BY <1>1, <1>2, <1>5, <1>11 DEF Forward, peeker

LEMMA PushChunkIInv == ASSUME IInv, PushChunk PROVE IInv' /\ Forward
<1>1. /\ pc = "scan" /\ pc' = "scan" /\ HashRegionLen = 0
      /\ currentChunk.end - previousChunk.end = MinSize
      /\ oldChunks' = Append(oldChunks, previousChunk) /\ previousChunk' = currentChunk
      /\ UNCHANGED <<file, peeker, chunks, pc, result, dataLen,
                     currentChunk, regionLen, i, handedOut>>
      /\ Scanning
    BY DEF PushChunk, IsFull, Scanning
<1>2. /\ currentChunk \in ChunkType /\ currentChunk.end \in Nat /\ pos \in Nat
      /\ previousChunk.end \in Nat /\ Cursor = currentChunk.end /\ Cursor' = Cursor
    BY <1>1, ScanFacts DEF IInv, TypeOK, Cursor
<1>3. currentChunk.end = previousChunk.end + MinSize /\ currentChunk.hash = pos + Cursor
    BY <1>1, <1>2, ScanFacts
<1>4. currentChunk = [hash |-> pos + Cursor, end |-> Cursor]
    BY <1>2, <1>3 DEF ChunkType
<1> DEFINE t == Append(Stack, currentChunk)
<1>5. /\ Stack = oldChunks' /\ Stack \in Seq(ChunkType) /\ t \in Seq(ChunkType)
      /\ ExtendedBy(Stack, t, currentChunk)
      /\ Len(Stack) \in Nat /\ Len(Stack) >= 1 /\ Stack[Len(Stack)] = previousChunk
      /\ Len(Stack) = Len(oldChunks) + 1
  <2>1. /\ Stack = Append(oldChunks, previousChunk) /\ Stack \in Seq(ChunkType)
        /\ ExtendedBy(oldChunks, Stack, previousChunk) /\ Len(oldChunks) \in Nat
    BY <1>1, ScanFacts
  <2>2. /\ Len(Stack) = Len(oldChunks) + 1 /\ Len(Stack) \in Nat /\ Len(Stack) >= 1
        /\ Stack[Len(Stack)] = previousChunk
    BY <2>1 DEF ExtendedBy
  <2>3. t \in Seq(ChunkType) /\ ExtendedBy(Stack, t, currentChunk)
    BY <1>2, <2>1, ScanStack
  <2> QED
    BY <1>1, <2>1, <2>2, <2>3
<1>6. Cursor = Begin(t, 0, Len(Stack) + 1) + MinSize
  <2>1. t[Len(Stack)] = previousChunk /\ (Len(Stack) + 1) - 1 = Len(Stack)
    BY <1>5 DEF ExtendedBy
  <2> QED
    BY <1>2, <1>3, <1>5, <2>1 DEF Begin
<1>7. score[pos + Cursor] \in Nat
  <2>1. /\ Scored(score, pos + 0 + MinSize, pos + dataLen)
        /\ Cursor <= dataLen /\ Cursor \in Nat /\ dataLen \in Nat
    BY <1>1, ScanFacts
  <2>2. Cursor >= MinSize
    BY <1>2, <1>3
  <2>3. pos + Cursor \in (pos + 0 + MinSize) .. (pos + dataLen)
    BY ONLY MinSizeAssumption, <1>2, <2>1, <2>2
  <2> QED
    BY <2>1, <2>3 DEF Scored
<1>8. Sound(score, t, 0, pos, Cursor)
  <2>1. Sound(score, Stack, 0, pos, Cursor) /\ Cursor \in Nat /\ 0 \in Nat
    BY <1>1, ScanFacts
  <2>2. ExtendedBy(Stack, t, [hash |-> pos + Cursor, end |-> Cursor])
    BY <1>4, <1>5
  <2>3. Spaced(Stack, 0, Cursor) /\ Exact(score, Stack, 0, pos, Cursor) /\ Steep(Stack, 0)
    BY <2>1 DEF Sound
  <2> HIDE DEF t
  <2>4. Spaced(t, 0, Cursor) /\ Exact(score, t, 0, pos, Cursor)
    BY <1>2, <1>5, <1>6, <1>7, <2>1, <2>2, <2>3, StackWithCursor
  <2>5. Steep(t, 0)
    BY <1>2, <1>5, <1>6, <2>1, <2>2, <2>3, SteepWithCursor
  <2> QED
    BY <2>4, <2>5 DEF Sound
<1>9. ScanInv'
    BY <1>1, <1>2, RegionFacts DEF IInv, ScanInv, Scanning, Rest, file, peeker
<1>10. Len(oldChunks') + 2 <= PeekSize \div MinSize + 1
  <2>1. /\ Len(t) = Len(Stack) + 1 /\ t[Len(t)] = currentChunk
        /\ Len(t) \in Nat /\ Len(t) \in 1 .. Len(t)
    BY <1>5 DEF ExtendedBy
  <2>2. currentChunk.end >= 0 + Span(Len(t))
    BY <1>8, <2>1 DEF Sound, Steep
  <2>3. /\ Span(Len(t)) \in Nat /\ Span(Len(t) + 1) \in Nat
        /\ Span(Len(t) + 1) = Span(Len(t)) + MinSize
    BY <2>1, SpanFacts
  <2>4. currentChunk.end + MinSize <= PeekSize /\ PeekSize \in Nat
    <3>1. currentChunk.end <= dataLen /\ dataLen + MinSize <= PeekSize /\ dataLen \in Nat
        BY <1>1, <1>2, ScanFacts
    <3>2. PeekSize \in Nat
        BY PeekSizeFacts
    <3> QED
        BY ONLY MinSizeAssumption, <1>2, <3>1, <3>2
  <2>5. Span(Len(t) + 1) <= PeekSize
    BY ONLY MinSizeAssumption, <1>2, <2>2, <2>3, <2>4
  <2>6. Len(t) + 1 <= PeekSize \div MinSize
    BY <2>1, <2>4, <2>5, SpanBound
  <2> QED
    BY <1>5, <2>1, <2>6, PeekSizeFacts
<1>11. IInv'
  <2>1. /\ oldChunks' \in Seq(ChunkType) /\ previousChunk' \in ChunkType
        /\ currentChunk' \in ChunkType /\ dataLen' \in Nat /\ regionLen' \in Nat
        /\ i' \in 0 .. regionLen' /\ Cursor' \in Nat
    BY <1>1, <1>2, <1>5, ScanFacts
  <2>2. Append(oldChunks', previousChunk') = t /\ currentChunk'.hash = pos + Cursor'
    BY <1>1, <1>2, <1>3, <1>5
  <2> QED
    BY <1>1, <1>2, <1>8, <1>9, <1>10, <2>1, <2>2, ScanStepIInv
<1> QED
    BY <1>1, <1>2, <1>11 DEF Forward, peeker

LEMMA HashByteIInv == ASSUME IInv, HashByte PROVE IInv' /\ Forward
<1> DEFINE h == pos + Cursor + 1
           new == [hash |-> pos + Cursor + 1, end |-> Cursor + 1]
           t == Append(oldChunks', previousChunk')
<1>1. /\ pc = "region" /\ pc' = "region" /\ i < regionLen /\ i' = i + 1
      /\ UNCHANGED <<file, peeker, chunks, result, dataLen, regionLen, handedOut>>
      /\ Scanning
    BY DEF HashByte, Scanning
<1>2. /\ currentChunk \in ChunkType /\ currentChunk.end \in Nat /\ regionLen \in Nat
      /\ i \in Nat /\ pos \in Nat /\ previousChunk \in ChunkType /\ previousChunk.end \in Nat
      /\ Cursor = currentChunk.end + i /\ Cursor \in Nat /\ dataLen \in Nat
    BY <1>1, ScanFacts DEF IInv, TypeOK, Cursor
<1>3. RollHash(currentChunk.hash, pos + currentChunk.end + i) = h
  <2>1. pos + currentChunk.end + i = pos + Cursor /\ currentChunk.hash = pos + Cursor
    BY <1>1, <1>2, ScanFacts
  <2> QED
    BY <2>1 DEF RollHash
<1>4. /\ currentChunk' = [currentChunk EXCEPT !.hash = h]
      /\ \/ /\ score[h] > score[previousChunk.hash]
            /\ oldChunks' = Collapsed(h)
            /\ previousChunk' = [hash |-> h, end |-> currentChunk.end + i + 1]
         \/ /\ ~ (score[h] > score[previousChunk.hash])
            /\ UNCHANGED <<oldChunks, previousChunk>>
    BY <1>3 DEF HashByte
<1>5. /\ currentChunk' \in ChunkType /\ currentChunk'.hash = pos + (Cursor + 1)
      /\ currentChunk'.end = currentChunk.end
    BY <1>2, <1>4 DEF ChunkType
<1>6. Cursor' = Cursor + 1
  <2>1. Cursor' = currentChunk'.end + i'
    BY <1>1 DEF Cursor
  <2> QED
    BY <1>1, <1>2, <1>5, <2>1
<1>7. /\ currentChunk.end + regionLen <= dataLen
      /\ currentChunk.end + regionLen <= previousChunk.end + MinSize
    BY <1>1 DEF IInv, ScanInv, Rest
<1>8. Cursor + 1 <= dataLen
    BY <1>1, <1>2, <1>7
<1>9. /\ Stack \in Seq(ChunkType) /\ Stack # <<>> /\ oldChunks \in Seq(ChunkType)
      /\ ExtendedBy(oldChunks, Stack, previousChunk) /\ Len(oldChunks) \in Nat
      /\ Stack = Append(oldChunks, previousChunk)
      /\ Spaced(Stack, 0, Cursor) /\ Exact(score, Stack, 0, pos, Cursor) /\ Steep(Stack, 0)
    BY <1>1, ScanFacts DEF Sound
<1>10. /\ Len(Stack) = Len(oldChunks) + 1 /\ Len(Stack) \in 1 .. Len(Stack)
       /\ Stack[Len(Stack)] = previousChunk
       /\ \A k \in 1 .. Len(oldChunks) : Stack[k] = oldChunks[k]
    BY <1>9 DEF ExtendedBy
<1>11. previousChunk.end <= Cursor /\ previousChunk.end >= MinSize
  <2>1. previousChunk.end >= 0 + MinSize /\ previousChunk.end <= Cursor
    BY <1>9, <1>10 DEF Spaced
  <2> QED
    BY <1>2, <2>1
<1>12. /\ Scored(score, pos + 0 + MinSize, pos + Cursor + 1)
       /\ Scored(score, pos + 0 + MinSize, pos + Cursor)
  <2>1. Scored(score, pos + 0 + MinSize, pos + dataLen)
    BY <1>1, ScanFacts
  <2>2. ASSUME NEW q \in (pos + 0 + MinSize) .. (pos + Cursor + 1)
        PROVE  q \in (pos + 0 + MinSize) .. (pos + dataLen)
    BY ONLY MinSizeAssumption, <1>2, <1>8
  <2>3. ASSUME NEW q \in (pos + 0 + MinSize) .. (pos + Cursor)
        PROVE  q \in (pos + 0 + MinSize) .. (pos + Cursor + 1)
    BY ONLY MinSizeAssumption, <1>2
  <2> QED
    BY <2>1, <2>2, <2>3 DEF Scored
<1>13. score[h] \in Nat
  <2>1. h \in (pos + 0 + MinSize) .. (pos + Cursor + 1)
    BY ONLY MinSizeAssumption, <1>2, <1>11
  <2> QED
    BY <1>12, <2>1 DEF Scored
<1>14. ASSUME NEW k \in 1 .. Len(Stack) PROVE score[Stack[k].hash] \in Nat
  <2>1. k \in 1 .. k
    OBVIOUS
  <2> QED
    BY <1>2, <1>9, <1>12, <2>1, ScoresDescend
<1>15. score[previousChunk.hash] \in Nat
    BY <1>10, <1>14
<1> HIDE DEF h, t
<1>16. ASSUME ~ (score[h] > score[previousChunk.hash])
      PROVE  /\ Sound(score, t, 0, pos, Cursor + 1)
             /\ Len(oldChunks') <= Len(oldChunks) /\ Len(oldChunks') \in Nat
             /\ previousChunk'.end >= previousChunk.end /\ previousChunk'.end \in Nat
             /\ oldChunks' \in Seq(ChunkType) /\ previousChunk' \in ChunkType
  <2>1. UNCHANGED <<oldChunks, previousChunk>> /\ t = Stack
    BY <1>4, <1>9, <1>16 DEF t
  <2>2. score[pos + Cursor + 1] \in Nat
    BY <1>13 DEF h
  <2>3. score[pos + Cursor + 1] <= score[Stack[Len(Stack)].hash]
    BY <1>10, <1>13, <1>15, <1>16 DEF h
  <2>4. Spaced(Stack, 0, Cursor + 1) /\ Exact(score, Stack, 0, pos, Cursor + 1)
    BY <1>2, <1>9, <1>12, <2>2, <2>3, StackKept
  <2>5. Sound(score, t, 0, pos, Cursor + 1)
    BY <1>9, <2>1, <2>4 DEF Sound
  <2>6. Len(oldChunks') <= Len(oldChunks) /\ previousChunk'.end >= previousChunk.end
    BY <1>2, <1>9, <2>1
  <2>7. oldChunks' \in Seq(ChunkType) /\ previousChunk' \in ChunkType
    BY <1>2, <1>9, <2>1
  <2> QED
    BY <1>2, <1>9, <2>1, <2>5, <2>6, <2>7
<1>17. ASSUME score[h] > score[previousChunk.hash]
      PROVE  /\ Sound(score, t, 0, pos, Cursor + 1)
             /\ Len(oldChunks') <= Len(oldChunks) /\ Len(oldChunks') \in Nat
             /\ previousChunk'.end >= previousChunk.end /\ previousChunk'.end \in Nat
             /\ oldChunks' \in Seq(ChunkType) /\ previousChunk' \in ChunkType
  <2>1. oldChunks' = Collapsed(h) /\ previousChunk' = new
    BY <1>2, <1>4, <1>17 DEF h
  <2>2. PICK m \in 0 .. Len(oldChunks) :
              /\ Collapsed(h) \in Seq(ChunkType) /\ Len(Collapsed(h)) = m
              /\ \A k \in 1 .. m : Collapsed(h)[k] = oldChunks[k]
              /\ m > 0 => score[h] <= score[oldChunks[m].hash]
              /\ m < Len(oldChunks) => ~ (score[h] <= score[oldChunks[m + 1].hash])
    BY <1>9, CollapsedFacts
  <2>3. new \in ChunkType /\ new.end = Cursor + 1
    BY <1>2 DEF ChunkType
  <2>4. t \in Seq(ChunkType) /\ ExtendedBy(oldChunks', t, new)
    BY <2>1, <2>2, <2>3, ScanStack DEF t
  <2>5. m \in 0 .. (Len(Stack) - 1) /\ m \in Nat /\ m + 1 \in 1 .. Len(Stack)
    BY <1>9, <1>10
  <2>6. ReplacedAfter(Stack, t, m, new)
    <3>1. Len(t) = m + 1 /\ t[m + 1] = new /\ \A k \in 1 .. m : t[k] = oldChunks'[k]
        BY <2>1, <2>2, <2>4 DEF ExtendedBy
    <3>2. \A k \in 1 .. m : k \in 1 .. Len(oldChunks)
        BY <1>9
    <3> QED
        BY <1>10, <2>1, <2>2, <3>1, <3>2 DEF ReplacedAfter
  <2>7. score[Stack[m + 1].hash] < score[h]
    <3>1. CASE m = Len(oldChunks)
        BY <1>10, <1>13, <1>15, <1>17, <3>1
    <3>2. CASE m < Len(oldChunks)
      <4>1. m + 1 \in 1 .. Len(oldChunks) /\ m + 1 \in 1 .. Len(Stack)
        BY <1>9, <2>5, <3>2
      <4>2. Stack[m + 1] = oldChunks[m + 1] /\ score[Stack[m + 1].hash] \in Nat
        BY <1>10, <1>14, <4>1
      <4> QED
        BY <1>13, <2>2, <3>2, <4>2
    <3> QED
        BY <1>9, <3>1, <3>2
  <2>8. m > 0 => score[h] <= score[Stack[m].hash]
    BY <1>9, <1>10, <2>2
  <2>9. Spaced(t, 0, Cursor + 1) /\ Exact(score, t, 0, pos, Cursor + 1)
    BY <1>2, <1>9, <1>12, <1>13, <2>4, <2>5, <2>6, <2>7, <2>8, StackCollapsed DEF h
  <2>10. Steep(t, 0)
    <3>1. Stack[m + 1].end <= Cursor
        BY <1>9, <2>5 DEF Spaced
    <3> QED
        BY <1>2, <1>9, <2>4, <2>5, <2>6, <3>1, SteepCollapsed
  <2>11. previousChunk'.end = Cursor + 1 /\ previousChunk' \in ChunkType
    BY <2>1, <2>3
  <2>12. Sound(score, t, 0, pos, Cursor + 1)
    BY <2>9, <2>10 DEF Sound
  <2>13. Cursor + 1 >= previousChunk.end
    BY ONLY <1>2, <1>11
  <2>14. Len(oldChunks') = m /\ oldChunks' \in Seq(ChunkType) /\ m <= Len(oldChunks)
    BY <1>9, <2>1, <2>2
  <2> QED
    BY <1>2, <2>5, <2>11, <2>12, <2>13, <2>14
<1>18. /\ Sound(score, t, 0, pos, Cursor + 1)
       /\ Len(oldChunks') <= Len(oldChunks) /\ Len(oldChunks') \in Nat
       /\ previousChunk'.end >= previousChunk.end /\ previousChunk'.end \in Nat
       /\ oldChunks' \in Seq(ChunkType) /\ previousChunk' \in ChunkType
    BY <1>16, <1>17
<1>19. ScanInv'
  <2>1. /\ dataLen = Available(fileSize, pos) - MinSize /\ dataLen >= MinSize
        /\ Available(fileSize, pos)' = Available(fileSize, pos)
    BY <1>1 DEF IInv, ScanInv, file, peeker
  <2>2. currentChunk.end + regionLen <= previousChunk'.end + MinSize
    <3>1. previousChunk'.end >= previousChunk.end /\ previousChunk'.end \in Nat
        BY <1>18
    <3> QED
        BY ONLY MinSizeAssumption, <1>2, <1>7, <3>1
  <2> QED
    BY <1>1, <1>5, <1>7, <2>1, <2>2 DEF ScanInv, Rest
<1>20. Len(oldChunks') + 2 <= PeekSize \div MinSize + 1
  <2>1. Len(oldChunks) + 2 <= PeekSize \div MinSize + 1
    BY DEF IInv, StackHasRoom
  <2> QED
    BY ONLY <1>9, <1>18, <2>1, PeekSizeFacts
<1>21. IInv'
  <2>1. dataLen' \in Nat /\ regionLen' \in Nat /\ i' \in 0 .. regionLen' /\ Cursor' \in Nat
    BY <1>1, <1>2, <1>6
  <2>2. /\ Sound(score, Append(oldChunks', previousChunk'), 0, pos, Cursor')
        /\ currentChunk'.hash = pos + Cursor'
    BY <1>5, <1>6, <1>18 DEF t
  <2> QED
    BY <1>1, <1>5, <1>18, <1>19, <1>20, <2>1, <2>2, ScanStepIInv
<1> QED
    BY <1>1, <1>2, <1>6, <1>21 DEF Forward, peeker

-----------------------------------------------------------------------------
\* From one scan to the next

\* A stack that was kept is the one the scan goes on with.
LEMMA ResumeIInv == ASSUME IInv, StartScan, IsStackKept PROVE IInv' /\ Forward
<1> DEFINE n == Len(chunks)
           a == Available(fileSize, pos)
<1>1. /\ pc = "peek" /\ pc' = "scan" /\ a >= 2 * MinSize /\ n > 2
      /\ dataLen' = a - MinSize
      /\ previousChunk' = chunks[n - 1] /\ currentChunk' = chunks[n]
      /\ oldChunks' = SubSeq(chunks, 2, n - 2)
      /\ UNCHANGED <<file, peeker, chunks, result, regionLen, i, handedOut>>
    BY DEF StartScan, Resume, IsStackKept
<1>2. /\ pos \in Nat /\ fileSize \in Nat /\ handedOut \in Nat /\ regionLen \in Nat
      /\ i \in 0 .. regionLen /\ chunks \in Seq(ChunkType) /\ chunks # <<>> /\ n \in Nat
      /\ \A k \in 1 .. n : chunks[k] \in ChunkType /\ chunks[k].end \in Nat
    BY Entries DEF IInv, TypeOK
<1>3. chunks[1].end = 0 /\ pos = handedOut /\ handedOut <= fileSize /\ StackStart = 0
  <2>1. 1 \in 1 .. n
    BY <1>1, <1>2
  <2>2. pos + chunks[1].end = handedOut /\ handedOut <= fileSize /\ chunks[1].end = 0
    BY <1>1 DEF IInv, Aligned
  <2> QED
    BY <1>2, <2>2 DEF StackStart
<1>4. a \in Nat /\ a <= PeekSize /\ pos + a <= fileSize /\ (a = PeekSize \/ pos + a = fileSize)
    BY <1>2, <1>3, AvailableFacts DEF IInv
<1> HIDE DEF a
<1>5. /\ Stack = SubSeq(chunks, 2, n - 1) /\ Cursor = chunks[n].end
      /\ CursorHash = chunks[n].hash /\ Cursor' = chunks[n].end
    BY <1>1 DEF Stack, Cursor, CursorHash, Scanning, Last
<1>6. /\ Stack \in Seq(ChunkType) /\ Len(Stack) = n - 2 /\ Stack # <<>>
      /\ \A k \in 1 .. (n - 2) : Stack[k] = chunks[k + 1]
  <2>1. /\ Stack \in Seq(ChunkType) /\ Len(Stack) = IF n >= 2 THEN n - 2 ELSE 0
        /\ \A k \in 1 .. (n - 2) : Stack[k] = chunks[k + 1]
    BY <1>2, <1>5, KeptStack
  <2> HIDE DEF n
  <2>2. n >= 2 /\ n - 2 # 0
    BY <1>1, <1>2
  <2> QED
    BY <2>1, <2>2, EmptySeq
<1> HIDE DEF n
<1>7. n \in 1 .. n /\ n - 1 \in 1 .. n
    BY <1>1, <1>2
<1>8. /\ chunks[n - 1] \in ChunkType /\ chunks[n] \in ChunkType
      /\ chunks[n - 1].end \in Nat /\ chunks[n].end \in Nat
    BY <1>2, <1>7
<1>9. /\ oldChunks' \in Seq(ChunkType) /\ Len(oldChunks') = n - 3
      /\ \A k \in 1 .. (n - 3) : oldChunks'[k] = chunks[k + 1]
  <2> DEFINE m == 2
             l == n - 2
  <2>1. m \in Int /\ l \in Int /\ \A k \in m .. l : chunks[k] \in ChunkType
    BY <1>1, <1>2
  <2>2. /\ SubSeq(chunks, m, l) \in Seq(ChunkType)
        /\ Len(SubSeq(chunks, m, l)) = IF m <= l THEN l - m + 1 ELSE 0
        /\ \A k \in 1 .. (l - m + 1) : SubSeq(chunks, m, l)[k] = chunks[m + k - 1]
    <3> HIDE DEF m, l
    <3> QED
        BY <2>1, SubSeqProperties
  <2>3. \A k \in 1 .. (n - 3) : 2 + k - 1 = k + 1
    BY <1>2
  <2> QED
    BY <1>1, <1>2, <2>2, <2>3
<1>10. Append(oldChunks', previousChunk') = Stack
  <2> DEFINE t == Append(oldChunks', previousChunk')
  <2>1. t \in Seq(ChunkType) /\ ExtendedBy(oldChunks', t, previousChunk')
    BY <1>1, <1>8, <1>9, ScanStack
  <2> HIDE DEF t
  <2>2. Len(t) = Len(Stack)
    BY <1>1, <1>2, <1>6, <1>9, <2>1 DEF ExtendedBy
  <2>3. ASSUME NEW k \in 1 .. Len(Stack) PROVE t[k] = Stack[k]
    <3>1. CASE k \in 1 .. (n - 3)
        BY <1>2, <1>6, <1>9, <2>1, <3>1 DEF ExtendedBy
    <3>2. CASE k = n - 2
      <4>1. (n - 3) + 1 = n - 2 /\ (n - 2) + 1 = n - 1 /\ n - 2 \in 1 .. (n - 2)
        BY <1>1, <1>2
      <4>2. t[n - 2] = previousChunk' /\ Stack[n - 2] = chunks[n - 1]
        BY <1>6, <1>9, <2>1, <4>1 DEF ExtendedBy
      <4> QED
        BY <1>1, <3>2, <4>2
    <3> QED
        BY SMTT(30), <1>1, <1>2, <1>6, <3>1, <3>2
  <2>4. t = Stack
    BY <1>6, <2>1, <2>2, <2>3, SeqEqual
  <2> QED
    BY <2>4 DEF t
<1>11. Sound(score, Stack, 0, pos, Cursor) /\ CursorHash = pos + Cursor
    BY <1>3, <1>6 DEF IInv, StackInv
<1>12. /\ chunks[n - 1].end <= chunks[n].end
       /\ chunks[n].end <= chunks[n - 1].end + MinSize
       /\ pos + chunks[n].end + MinSize <= fileSize
       /\ chunks[n].end + MinSize <= PeekSize
    BY <1>1 DEF IInv, KeptInv, Scanning, n
<1>13. chunks[n].end <= dataLen' /\ dataLen' \in Nat /\ dataLen' >= MinSize
    BY ONLY MinSizeAssumption, <1>1, <1>2, <1>4, <1>8, <1>12
<1>14. ScanInv'
  <2>1. Available(fileSize, pos)' = a
    BY <1>1 DEF file, peeker, a
  <2> QED
    BY <1>1, <1>8, <1>12, <1>13, <2>1 DEF ScanInv, Rest
<1>15. Len(oldChunks') + 2 <= PeekSize \div MinSize + 1
  <2>1. n <= PeekSize \div MinSize + 1
    BY DEF IInv, StackHasRoom, n
  <2> QED
    BY ONLY <1>2, <1>9, <2>1, PeekSizeFacts
<1>16. IInv'
  <2>1. pc # "idle" /\ pc' \in {"scan", "region"} /\ Cursor' \in Nat
    BY <1>1, <1>5, <1>8
  <2>2. /\ Sound(score, Append(oldChunks', previousChunk'), 0, pos, Cursor')
        /\ currentChunk'.hash = pos + Cursor'
    BY <1>1, <1>5, <1>10, <1>11
  <2>3. /\ oldChunks' \in Seq(ChunkType) /\ previousChunk' \in ChunkType
        /\ currentChunk' \in ChunkType /\ dataLen' \in Nat /\ regionLen' \in Nat
        /\ i' \in 0 .. regionLen'
    BY <1>1, <1>2, <1>8, <1>9, <1>13
  <2> QED
    BY <1>1, <1>14, <1>15, <2>1, <2>2, <2>3, ScanStepIInv
<1> QED
    BY <1>1, <1>2, <1>5, <1>8, <1>16 DEF Forward, peeker

\* Without one it starts with the first cutting point of the chunk.
LEMMA RestartIInv == ASSUME IInv, StartScan, ~ IsStackKept PROVE IInv' /\ Forward
<1> DEFINE n == Len(chunks)
           a == Available(fileSize, pos)
           first == [hash |-> pos + MinSize, end |-> MinSize]
<1>1. /\ pc = "peek" /\ pc' = "scan" /\ a >= 2 * MinSize /\ ~ (n > 2)
      /\ dataLen' = a - MinSize
      /\ previousChunk' = first /\ currentChunk' = first /\ oldChunks' = <<>>
      /\ UNCHANGED <<file, peeker, chunks, result, regionLen, i, handedOut>>
    BY DEF StartScan, Restart, IsStackKept, InitialHash
<1>2. /\ pos \in Nat /\ fileSize \in Nat /\ handedOut \in Nat /\ regionLen \in Nat
      /\ i \in 0 .. regionLen /\ chunks \in Seq(ChunkType) /\ n \in Nat /\ n # 0
      /\ \A k \in 1 .. n : chunks[k].end \in Nat
      /\ score \in [CutsOf(fileSize) -> Nat]
    BY Entries, EmptySeq DEF IInv, TypeOK
<1>3. chunks[1].end = 0 /\ pos = handedOut /\ handedOut <= fileSize
  <2>1. pos + chunks[1].end = handedOut /\ handedOut <= fileSize /\ chunks[1].end = 0
    BY <1>1 DEF IInv, Aligned
  <2> QED
    BY <1>2, <2>1
<1>4. a \in Nat /\ a <= PeekSize /\ pos + a <= fileSize
    BY <1>2, <1>3, AvailableFacts DEF IInv
<1> HIDE DEF a, n
<1>5. first \in ChunkType /\ first.end = MinSize /\ first.hash = pos + MinSize
    BY <1>2 DEF ChunkType
<1> DEFINE t == Append(<<>>, first)
<1>6. /\ t \in Seq(ChunkType) /\ ExtendedBy(<<>>, t, first)
      /\ <<>> \in Seq(ChunkType) /\ Len(<<>>) = 0
    BY <1>5, ScanStack, EmptySeq
<1>7. Sound(score, t, 0, pos, MinSize)
  <2>1. pos + MinSize \in CutsOf(fileSize)
    BY <1>1, <1>2, <1>4 DEF CutsOf
  <2>2. score[pos + MinSize] \in Nat
    BY <1>2, <2>1
  <2>3. Spaced(<<>>, 0, MinSize) /\ Exact(score, <<>>, 0, pos, MinSize) /\ Steep(<<>>, 0)
    BY <1>6 DEF Spaced, Exact, Steep
  <2>4. MinSize = Begin(t, 0, Len(<<>>) + 1) + MinSize
    BY <1>6 DEF Begin
  <2>5. 0 \in Nat /\ MinSize \in Nat
    OBVIOUS
  <2> HIDE DEF t
  <2>6. Spaced(t, 0, MinSize) /\ Exact(score, t, 0, pos, MinSize)
    BY <1>2, <1>6, <2>2, <2>3, <2>4, <2>5, StackWithCursor
  <2>7. Steep(t, 0)
    BY <1>2, <1>6, <2>3, <2>4, <2>5, SteepWithCursor
  <2> QED
    BY <2>6, <2>7 DEF Sound
<1>8. Cursor' = MinSize
    BY <1>1, <1>5 DEF Cursor
<1>9. dataLen' \in Nat /\ dataLen' >= MinSize
    BY ONLY MinSizeAssumption, <1>1, <1>4
<1>10. ScanInv'
  <2>1. Available(fileSize, pos)' = a
    BY <1>1 DEF file, peeker, a
  <2> QED
    BY <1>1, <1>5, <1>9, <2>1 DEF ScanInv, Rest
<1>11. IInv'
  <2>1. /\ pc # "idle" /\ pc' \in {"scan", "region"} /\ Cursor' \in Nat
        /\ oldChunks' \in Seq(ChunkType) /\ previousChunk' \in ChunkType
        /\ currentChunk' \in ChunkType /\ dataLen' \in Nat /\ regionLen' \in Nat
        /\ i' \in 0 .. regionLen'
    BY <1>1, <1>2, <1>5, <1>6, <1>8, <1>9
  <2>2. /\ Sound(score, Append(oldChunks', previousChunk'), 0, pos, Cursor')
        /\ currentChunk'.hash = pos + Cursor'
    BY <1>1, <1>5, <1>7, <1>8
  <2>3. Len(oldChunks') + 2 <= PeekSize \div MinSize + 1
    BY <1>1, <1>6, PeekSizeFacts
  <2> QED
    BY <1>1, <1>10, <2>1, <2>2, <2>3, ScanStepIInv
<1>12. Cursor \in Nat /\ Cursor <= MinSize
  <2>1. Cursor = chunks[n].end
    BY <1>1 DEF Cursor, Last, n
  <2>2. CASE n = 1
    BY <1>3, <2>1, <2>2
  <2>3. CASE n = 2
    <3>1. chunks[2].end <= chunks[2 - 1].end + MinSize /\ 2 - 1 = 1 /\ chunks[2].end \in Nat
        BY <1>1, <1>2, <2>3 DEF IInv, KeptInv, Scanning, n
    <3> QED
        BY <1>3, <2>1, <2>3, <3>1
  <2> QED
    BY <1>1, <1>2, <2>2, <2>3
<1> QED
    BY <1>1, <1>2, <1>8, <1>11, <1>12 DEF Forward, peeker

\* The scan is over: all of its stack is kept but the chunk that is returned.
LEMMA ReturnFirstChunkIInv == ASSUME IInv, ReturnFirstChunk PROVE IInv' /\ Forward
<1> DEFINE kept == oldChunks \o <<previousChunk, currentChunk>>
           n == Len(oldChunks) + 2
<1>1. /\ pc = "scan" /\ pc' = "idle" /\ chunks' = kept /\ result' = "chunk"
      /\ handedOut' = handedOut + kept[1].end
      /\ UNCHANGED <<file, peeker, scan>> /\ Scanning
    BY DEF ReturnFirstChunk, ReturnChunk, Scanning
<1>2. /\ pos \in Nat /\ fileSize \in Nat /\ dataLen \in Nat /\ handedOut \in Nat
      /\ oldChunks \in Seq(ChunkType) /\ Len(oldChunks) \in Nat
      /\ previousChunk \in ChunkType /\ currentChunk \in ChunkType
      /\ previousChunk.end \in Nat /\ currentChunk.end \in Nat
      /\ pos = handedOut /\ Stack \in Seq(ChunkType) /\ Stack # <<>>
      /\ ExtendedBy(oldChunks, Stack, previousChunk)
      /\ pos + dataLen + MinSize <= fileSize /\ dataLen + MinSize <= PeekSize
      /\ Cursor \in Nat /\ Cursor <= dataLen /\ currentChunk.hash = pos + Cursor
      /\ Sound(score, Stack, 0, pos, Cursor)
    BY <1>1, ScanFacts DEF IInv, TypeOK
<1>3. Cursor = currentChunk.end /\ n \in Nat /\ n >= 2 /\ n # 0
    BY <1>1, <1>2 DEF Cursor
<1>4. /\ Len(Stack) = n - 1 /\ Stack[n - 1] = previousChunk
      /\ \A k \in 1 .. (n - 2) : Stack[k] = oldChunks[k]
    BY <1>2 DEF ExtendedBy
<1>5. /\ kept \in Seq(ChunkType) /\ Len(kept) = n
      /\ \A k \in 1 .. (n - 1) : kept[k] = Stack[k]
      /\ kept[n] = currentChunk
  <2> DEFINE two == <<previousChunk, currentChunk>>
  <2>1. two \in Seq(ChunkType) /\ Len(two) = 2 /\ two[1] = previousChunk /\ two[2] = currentChunk
    BY <1>2
  <2> HIDE DEF two
  <2>2. /\ oldChunks \o two \in Seq(ChunkType)
        /\ Len(oldChunks \o two) = Len(oldChunks) + Len(two)
        /\ \A k \in 1 .. (Len(oldChunks) + Len(two)) : (oldChunks \o two)[k] =
                  IF k <= Len(oldChunks) THEN oldChunks[k] ELSE two[k - Len(oldChunks)]
    BY <1>2, <2>1, ConcatProperties
  <2>3. kept = oldChunks \o two
    BY DEF two
  <2> HIDE DEF kept
  <2>4. ASSUME NEW k \in 1 .. (n - 1) PROVE kept[k] = Stack[k]
    <3>1. CASE k \in 1 .. (n - 2)
      <4>1. k \in 1 .. (Len(oldChunks) + Len(two)) /\ k <= Len(oldChunks)
        BY <1>2, <2>1, <3>1
      <4> QED
        BY <1>4, <2>2, <2>3, <3>1, <4>1
    <3>2. CASE k = n - 1
      <4>1. /\ k \in 1 .. (Len(oldChunks) + Len(two)) /\ ~ (k <= Len(oldChunks))
            /\ k - Len(oldChunks) = 1
        BY <1>2, <2>1, <3>2
      <4> QED
        BY <1>4, <2>1, <2>2, <2>3, <3>2, <4>1
    <3> QED
        BY <1>2, <3>1, <3>2
  <2>5. kept[n] = currentChunk
    <3>1. /\ n \in 1 .. (Len(oldChunks) + Len(two)) /\ ~ (n <= Len(oldChunks))
          /\ n - Len(oldChunks) = 2
        BY <1>2, <2>1
    <3> QED
        BY <2>1, <2>2, <2>3, <3>1
  <2> QED
    BY <2>1, <2>2, <2>3, <2>4, <2>5
<1> HIDE DEF kept, n
<1>6. kept # <<>> /\ kept[1] = Stack[1] /\ 1 \in 1 .. Len(Stack) /\ n - 1 \in 1 .. Len(Stack)
    BY <1>3, <1>4, <1>5, EmptySeq
<1>7. /\ Stack' = SubSeq(kept, 2, n - 1) /\ StackStart' = kept[1].end
      /\ Cursor' = currentChunk.end /\ CursorHash' = currentChunk.hash
    BY <1>1, <1>5 DEF Stack, StackStart, Cursor, CursorHash, Scanning, Last
<1>8. /\ Stack' \in Seq(ChunkType) /\ Len(Stack') = n - 2
      /\ \A k \in 1 .. (n - 2) : Stack'[k] = kept[k + 1]
    BY <1>3, <1>5, <1>6, <1>7, KeptStack
<1>9. WithoutFirst(Stack, Stack')
  <2>1. ASSUME NEW k \in 1 .. (n - 2) PROVE Stack'[k] = Stack[k + 1]
    <3>1. k + 1 \in 1 .. (n - 1)
        BY <1>3
    <3> QED
        BY <1>5, <1>8, <3>1
  <2> QED
    BY <1>2, <1>3, <1>4, <1>8, <2>1 DEF WithoutFirst
<1>10. /\ Spaced(Stack, 0, Cursor) /\ Exact(score, Stack, 0, pos, Cursor) /\ Steep(Stack, 0)
       /\ 0 \in Nat
    BY <1>2 DEF Sound
<1>11. Sound(score, Stack', Stack[1].end, pos, Cursor)
  <2>1. /\ Spaced(Stack', Stack[1].end, Cursor)
        /\ Exact(score, Stack', Stack[1].end, pos, Cursor)
    BY <1>2, <1>8, <1>9, <1>10, StackOfNextChunk
  <2>2. Steep(Stack', Stack[1].end)
    BY <1>2, <1>8, <1>9, <1>10, SteepOfNextChunk
  <2> QED
    BY <2>1, <2>2 DEF Sound
<1>12. StackInv'
    BY <1>1, <1>2, <1>3, <1>6, <1>7, <1>11 DEF StackInv, file, peeker
<1>13. kept[1].end \in Nat /\ kept[1].end <= Cursor
  <2>1. Stack[1].end \in Nat
    BY <1>2, <1>6, Entries
  <2> QED
    BY <1>6, <1>10, <2>1 DEF Spaced
<1>14. handedOut' \in Nat /\ handedOut' <= fileSize
    BY ONLY MinSizeAssumption, <1>1, <1>2, <1>13
<1>15. TypeOK'
    BY <1>1, <1>5, <1>6, <1>14 DEF IInv, TypeOK, file, peeker, scan, stack
<1>16. Aligned'
    BY <1>1, <1>2, <1>14 DEF Aligned, file, peeker
<1>17. StackHasRoom'
  <2>1. n <= PeekSize \div MinSize + 1
    BY DEF IInv, StackHasRoom, n
  <2> QED
    BY <1>1, <1>5, <2>1 DEF IInv, StackHasRoom, scan, stack
<1>18. /\ previousChunk.end <= currentChunk.end
       /\ currentChunk.end <= previousChunk.end + MinSize
    BY <1>1, <1>2, RegionFacts
<1>19. KeptInv' /\ ScanInv'
  <2>1. ASSUME NEW k \in 1 .. n PROVE kept[k].end >= kept[1].end
    <3>1. CASE k = 1
        BY <1>13, <3>1
    <3>2. CASE k \in 2 .. (n - 1)
      <4>1. k \in 1 .. Len(Stack) /\ 1 \in 1 .. (k - 1)
        BY <1>3, <1>4, <3>2
      <4>2. Stack[k].end >= Stack[1].end + MinSize /\ Stack[k].end \in Nat
        BY <1>2, <1>10, <4>1, Entries DEF Spaced
      <4>3. kept[k].end = Stack[k].end /\ kept[1].end = Stack[1].end
        BY <1>5, <1>6, <3>2
      <4> QED
        BY ONLY MinSizeAssumption, <1>13, <4>2, <4>3
    <3>3. CASE k = n
        BY <1>3, <1>5, <1>13, <3>3
    <3> QED
        BY <1>3, <3>1, <3>2, <3>3
  <2>2. kept[n - 1] = previousChunk
    BY <1>4, <1>5, <1>6
  <2>3. /\ pos + currentChunk.end + MinSize <= fileSize
        /\ currentChunk.end + MinSize <= PeekSize
    <3>1. PeekSize \in Nat
        BY PeekSizeFacts
    <3> QED
        BY ONLY MinSizeAssumption, <1>2, <1>3, <3>1
  <2>4. ~ Scanning' /\ pos' = pos /\ fileSize' = fileSize
    BY <1>1 DEF Scanning, file, peeker
  <2> QED
    BY <1>1, <1>5, <1>18, <2>1, <2>2, <2>3, <2>4 DEF KeptInv, ScanInv
<1> QED
    BY <1>1, <1>2, <1>3, <1>7, <1>12, <1>15, <1>16, <1>17, <1>19 DEF IInv, Forward, peeker

-----------------------------------------------------------------------------
\* Every step

LEMMA NextIInv == IInv /\ [Next]_vars => IInv' /\ (Forward \/ UNCHANGED vars)
<1> SUFFICES ASSUME IInv, [Next]_vars PROVE IInv' /\ (Forward \/ UNCHANGED vars)
    OBVIOUS
<1>1. /\ chunks[1].end \in Nat /\ faults \in 0 .. MaxFaults
      /\ result \in {"none", "chunk", "eof", "error"}
    BY Entries, EmptySeq DEF IInv, TypeOK
<1>2. CASE DiscardPrevious
    BY <1>1, <1>2, DiscardIInv DEF DiscardPrevious
<1>3. CASE DiscardFails
  <2>1. PICK discarded \in 0 .. (chunks[1].end - 1) : Discard(discarded)
    BY <1>3 DEF DiscardFails
  <2>2. discarded \in 0 .. chunks[1].end
    BY <1>1
  <2>3. /\ pc = "idle" /\ pc' = "idle" /\ result' = "error" /\ faults' \in 0 .. MaxFaults
        /\ UNCHANGED <<file, scan, handedOut>>
    BY <1>1, <1>3 DEF DiscardFails, ReturnError
  <2> QED
    BY <2>1, <2>2, <2>3, DiscardIInv
<1>4. CASE PeekFails
  <2>1. faults' \in 0 .. MaxFaults
    BY <1>1, <1>4 DEF PeekFails, ReturnError
  <2> QED
    BY <1>4, <2>1, NothingMovesIInv DEF PeekFails, ReturnError
<1>5. CASE ReturnEndOfFile
    BY <1>1, <1>5, NothingMovesIInv DEF ReturnEndOfFile, peeker
<1>6. CASE ReturnTail
    BY <1>6, ReturnTailIInv
<1>7. CASE StartScan
    BY <1>7, ResumeIInv, RestartIInv
<1>8. CASE StartRegion
    BY <1>8, StartRegionIInv
<1>9. CASE HashByte
    BY <1>9, HashByteIInv
<1>10. CASE EndRegion
    BY <1>10, EndRegionIInv
<1>11. CASE PushChunk
    BY <1>11, PushChunkIInv
<1>12. CASE ReturnFirstChunk
    BY <1>12, ReturnFirstChunkIInv
<1>13. CASE UNCHANGED vars
  <2>1. /\ TypeOK' /\ Aligned' /\ KeptInv' /\ ScanInv' /\ StackHasRoom'
    BY <1>13 DEF IInv, TypeOK, Aligned, KeptInv, ScanInv, StackHasRoom, Rest, Scanning,
       vars, file, peeker, scan, stack
  <2>2. /\ Stack' = Stack /\ StackStart' = StackStart /\ Cursor' = Cursor
        /\ CursorHash' = CursorHash /\ score' = score /\ pos' = pos
    BY <1>13 DEF Stack, StackStart, Cursor, CursorHash, Scanning, vars, file, peeker,
       scan, stack
  <2>3. StackInv'
    BY <2>2 DEF IInv, StackInv
  <2> QED
    BY <1>13, <2>1, <2>3 DEF IInv
<1> QED
    BY <1>2, <1>3, <1>4, <1>5, <1>6, <1>7, <1>8, <1>9, <1>10, <1>11, <1>12, <1>13 DEF Next

THEOREM Invariance == Spec => []IInv
<1>1. IInv /\ [Next]_vars => IInv'
    BY NextIInv
<1> QED
    BY <1>1, InitIInv, PTL DEF Spec

-----------------------------------------------------------------------------
\* The properties

\* Every variable keeps its type: no end of a chunk falls behind the stream.
THEOREM TypeCorrect == Spec => []TypeOK
<1>1. IInv => TypeOK
    BY DEF IInv
<1> QED
    BY <1>1, Invariance, PTL

\* Whatever the Peeker discarded before it failed, what is discarded and what
\* still has to be is what was returned, and the stack lies in the file.
THEOREM NothingLostCorrect == Spec => []NothingLost
<1>1. IInv => NothingLost
  <2> SUFFICES ASSUME IInv PROVE NothingLost
    OBVIOUS
  <2>1. pos + chunks[1].end = handedOut /\ handedOut <= fileSize
    BY DEF IInv, Aligned
  <2>2. CASE Scanning
    <3>1. /\ pos \in Nat /\ fileSize \in Nat /\ dataLen \in Nat /\ Cursor \in Nat
          /\ Cursor <= dataLen /\ pos + dataLen + MinSize <= fileSize
        BY <2>2, ScanFacts
    <3>2. pos + Cursor + MinSize <= fileSize
        BY ONLY MinSizeAssumption, <3>1
    <3> QED
        BY <2>1, <3>2 DEF NothingLost
  <2>3. ASSUME ~ Scanning, Stack # <<>> PROVE pos + Cursor + MinSize <= fileSize
    <3>1. /\ chunks \in Seq(ChunkType) /\ chunks # <<>> /\ Len(chunks) \in Nat
          /\ Stack = SubSeq(chunks, 2, Len(chunks) - 1)
          /\ Cursor = chunks[Len(chunks)].end
        BY <2>3, Entries DEF IInv, TypeOK, Stack, Cursor, Scanning, Last
    <3>2. Len(chunks) >= 2
        BY <3>1, <2>3, KeptStack, EmptySeq
    <3> QED
        BY <2>3, <3>1, <3>2 DEF IInv, KeptInv
  <2> QED
    BY <2>1, <2>2, <2>3 DEF NothingLost
<1> QED
    BY <1>1, Invariance, PTL

\* A call that goes on from the stack that was kept decides as one that hashes
\* everything again.
THEOREM StackExact == Spec => []StackIsExact
<1>1. IInv => StackIsExact
  <2> SUFFICES ASSUME IInv, Stack # <<>> PROVE
        /\ CursorHash = pos + Cursor
        /\ \A k \in DOMAIN Stack :
              LET begin == IF k = 1 THEN StackStart ELSE Stack[k - 1].end
              IN  /\ Stack[k].hash = pos + Stack[k].end
                  /\ IsBest(score, Stack[k].hash, pos + begin + MinSize, pos + Cursor)
    BY DEF StackIsExact
  <2>1. /\ CursorHash = pos + Cursor
        /\ Spaced(Stack, StackStart, Cursor)
        /\ Exact(score, Stack, StackStart, pos, Cursor)
    BY DEF IInv, StackInv, Sound
  <2>2. /\ Stack \in Seq(ChunkType) /\ pos \in Nat /\ StackStart \in Nat /\ Cursor \in Nat
    <3>1. CASE Scanning
        BY <3>1, ScanFacts
    <3>2. CASE ~ Scanning
      <4>1. Stack = SubSeq(chunks, 2, Len(chunks) - 1) /\ Cursor = chunks[Len(chunks)].end
        BY <3>2 DEF Stack, Cursor, Scanning, Last
      <4> QED
        BY <4>1, Entries, EmptySeq, KeptStack DEF IInv, TypeOK, StackStart
    <3> QED
        BY <3>1, <3>2
  <2>3. ASSUME NEW k \in DOMAIN Stack
        PROVE  /\ Stack[k].hash = pos + Stack[k].end
               /\ IsBest(score, Stack[k].hash, pos + Begin(Stack, StackStart, k) + MinSize,
                         pos + Cursor)
    <3>1. k \in 1 .. Len(Stack) /\ k \in 1 .. k
        BY <2>2, Entries
    <3>2. /\ Begin(Stack, StackStart, k) \in Nat /\ Stack[k].end \in Nat
          /\ Begin(Stack, StackStart, k) + MinSize <= Stack[k].end
          /\ Stack[k].end <= Cursor
        BY <2>1, <2>2, <3>1, EntryInRange
    <3>3. Stack[k].hash = pos + Stack[k].end
        BY <2>1, <3>1 DEF Exact
    <3>4. pos + Stack[k].end \in (pos + Begin(Stack, StackStart, k) + MinSize) .. (pos + Cursor)
        BY ONLY MinSizeAssumption, <2>2, <3>2
    <3>5. \A q \in (pos + Begin(Stack, StackStart, k) + MinSize) .. (pos + Cursor) :
              /\ score[q] <= score[Stack[k].hash]
              /\ q < Stack[k].hash => score[q] < score[Stack[k].hash]
        BY <2>1, <3>1 DEF Exact
    <3>6. ASSUME NEW q \in (pos + Begin(Stack, StackStart, k) + MinSize) .. (Stack[k].hash - 1)
          PROVE  /\ q \in (pos + Begin(Stack, StackStart, k) + MinSize) .. (pos + Cursor)
                 /\ q < Stack[k].hash
        BY ONLY MinSizeAssumption, <2>2, <3>2, <3>3
    <3> QED
        BY <3>3, <3>4, <3>5, <3>6 DEF IsBest
  <2> QED
    BY <2>1, <2>3 DEF Begin
<1> QED
    BY <1>1, Invariance, PTL

\* The first entry of the stack and the last one are where a region needs them.
LEMMA OffsetsAreInData == IInv => OffsetsInData
<1> SUFFICES ASSUME IInv, Scanning PROVE OffsetsInData
    BY DEF OffsetsInData
<1>1. /\ currentChunk.end + Rest <= dataLen /\ dataLen >= MinSize
      /\ currentChunk.end + Rest <= previousChunk.end + MinSize
    BY DEF IInv, ScanInv
<1>2. /\ Cursor \in Nat /\ Cursor <= dataLen /\ dataLen \in Nat
      /\ currentChunk.end \in Nat /\ previousChunk.end \in Nat
      /\ regionLen \in Nat /\ i \in 0 .. regionLen
      /\ Stack \in Seq(ChunkType) /\ Stack # <<>>
      /\ ExtendedBy(oldChunks, Stack, previousChunk)
      /\ Sound(score, Stack, 0, pos, Cursor)
    BY ScanFacts
<1>3. Spaced(Stack, 0, Cursor)
    BY <1>2 DEF Sound
<1>4. Cursor <= currentChunk.end + Rest
    BY <1>2 DEF Cursor, Rest, Scanning
<1>5. previousChunk.end <= Cursor
  <2>1. Len(Stack) \in 1 .. Len(Stack) /\ Stack[Len(Stack)] = previousChunk
    BY <1>2, Entries DEF ExtendedBy
  <2> QED
    BY <1>3, <2>1 DEF Spaced
<1>6. Stack[1].end \in Nat /\ Stack[1].end >= MinSize /\ Stack[1].end <= Cursor
  <2>1. 1 \in 1 .. Len(Stack) /\ Stack[1].end \in Nat
    BY <1>2, Entries
  <2> QED
    BY <1>3, <2>1, MinSizeAssumption DEF Spaced
<1>7. Cursor - previousChunk.end \in 0 .. MinSize /\ Stack[1].end \in MinSize .. dataLen
  <2> HIDE DEF Cursor, Rest, Stack
  <2>1. Rest \in Nat
    BY <1>2 DEF Rest
  <2> QED
    BY <1>1, <1>2, <1>4, <1>5, <1>6, <2>1, MinSizeAssumption
<1> QED
    BY <1>1, <1>7 DEF OffsetsInData, Rest

\* The stack never outgrows the capacity that NewChunkReader reserves, and no
\* offset into the data that was peeked leaves it, wherever an earlier call stopped.
THEOREM StackFitsCorrect == Spec => []StackFits
<1>1. IInv => StackFits
    BY OffsetsAreInData DEF IInv, StackFits
<1> QED
    BY <1>1, Invariance, PTL

\* No cutting point is hashed twice, across calls and errors.
THEOREM ScanIsForward == Spec => ScanNeverGoesBack
<1>1. IInv /\ [Next]_vars => [pos' + Cursor' >= pos + Cursor]_vars
    BY NextIInv DEF Forward
<1> QED
    BY <1>1, Invariance, PTL DEF Spec, ScanNeverGoesBack

-----------------------------------------------------------------------------
\* The reader implements ChunkStream

\* The leftmost best cutting point is the one the rule chooses.
LEMMA BestIsRule ==
    ASSUME NEW sc, NEW start \in Nat, NEW available \in Nat, available >= 2 * MinSize,
           NEW size \in MinSize .. (available - MinSize),
           Scored(sc, start + MinSize, start + available - MinSize),
           IsBest(sc, start + size, start + MinSize, start + available - MinSize)
    PROVE  RuleChunkSize(sc, start, available) = size
<1> DEFINE Best(n) == IsBest(sc, start + n, start + MinSize, start + available - MinSize)
<1>1. ASSUME NEW n \in MinSize .. (available - MinSize), Best(n) PROVE n = size
  <2>1. /\ start + n \in (start + MinSize) .. (start + available - MinSize)
        /\ start + size \in (start + MinSize) .. (start + available - MinSize)
    OBVIOUS
  <2>2. sc[start + n] \in Nat /\ sc[start + size] \in Nat
    BY <2>1 DEF Scored
  <2>3. sc[start + n] <= sc[start + size] /\ sc[start + size] <= sc[start + n]
    BY <1>1, <2>1 DEF IsBest
  <2>4. ~ (n < size)
    <3>1. ASSUME n < size PROVE sc[start + n] < sc[start + size]
      <4>1. start + n \in (start + MinSize) .. ((start + size) - 1)
        BY <3>1
      <4> QED
        BY <4>1 DEF IsBest
    <3> QED
        BY <2>2, <2>3, <3>1
  <2>5. ~ (size < n)
    <3>1. ASSUME size < n PROVE sc[start + size] < sc[start + n]
      <4>1. start + size \in (start + MinSize) .. ((start + n) - 1)
        BY <3>1
      <4> QED
        BY <1>1, <4>1 DEF IsBest
    <3> QED
        BY <2>2, <2>3, <3>1
  <2> QED
    BY <2>4, <2>5
<1>2. Best(size)
    OBVIOUS
<1> HIDE DEF Best
<1>3. (CHOOSE n \in MinSize .. (available - MinSize) : Best(n)) = size
    BY <1>1, <1>2
<1>4. ~ (available < 2 * MinSize)
    OBVIOUS
<1> QED
    BY <1>3, <1>4 DEF RuleChunkSize, Best

\* A scan that is over has found the chunk of the rule.
LEMMA FirstChunkIsRule ==
    ASSUME IInv, ReturnFirstChunk
    PROVE  /\ result' = "chunk" /\ handedOut < fileSize
           /\ handedOut' = handedOut + RuleSizes(fileSize, score)[handedOut]
<1> DEFINE a == Available(fileSize, pos)
<1>1. /\ pc = "scan" /\ HashRegionLen = 0
      /\ ~ (currentChunk.end - previousChunk.end = MinSize) /\ result' = "chunk"
      /\ handedOut' = handedOut + (oldChunks \o <<previousChunk, currentChunk>>)[1].end
      /\ Scanning
    BY DEF ReturnFirstChunk, ReturnChunk, IsFull, Scanning
<1>2. /\ pos \in Nat /\ fileSize \in Nat /\ dataLen \in Nat
      /\ oldChunks \in Seq(ChunkType) /\ Len(oldChunks) \in Nat
      /\ previousChunk \in ChunkType /\ currentChunk \in ChunkType
      /\ previousChunk.end \in Nat /\ currentChunk.end \in Nat
      /\ pos = handedOut /\ Stack \in Seq(ChunkType) /\ Stack # <<>>
      /\ ExtendedBy(oldChunks, Stack, previousChunk)
      /\ pos + dataLen + MinSize <= fileSize
      /\ Scored(score, pos + 0 + MinSize, pos + dataLen)
      /\ Spaced(Stack, 0, Cursor) /\ Exact(score, Stack, 0, pos, Cursor)
    BY <1>1, ScanFacts DEF IInv, TypeOK, Sound
<1>3. a = dataLen + MinSize /\ dataLen >= MinSize
  <2>1. dataLen = a - MinSize /\ dataLen >= MinSize
    BY <1>1 DEF IInv, ScanInv
  <2>2. a \in Nat
    BY <1>2, AvailableFacts DEF IInv, Aligned
  <2> HIDE DEF a
  <2> QED
    BY <1>2, <2>1, <2>2
<1> HIDE DEF a
<1>4. Cursor = dataLen
  <2>1. \/ currentChunk.end = dataLen
        \/ currentChunk.end = previousChunk.end + MinSize
    BY <1>1, RegionFacts
  <2>2. currentChunk.end = dataLen
    BY ONLY MinSizeAssumption, <1>1, <1>2, <2>1
  <2> QED
    BY <1>1, <2>2 DEF Cursor
<1> DEFINE first == Stack[1].end
<1>5. 1 \in 1 .. Len(Stack) /\ 1 \in 1 .. 1 /\ Begin(Stack, 0, 1) = 0
    BY <1>2, Entries, EmptySeq DEF Begin
<1>6. /\ first \in Nat /\ MinSize <= first /\ first <= dataLen
  <2>1. first \in Nat /\ first >= 0 + MinSize /\ first <= Cursor
    BY <1>2, <1>5, Entries DEF Spaced
  <2> QED
    BY <1>4, <2>1
<1>7. (oldChunks \o <<previousChunk, currentChunk>>)[1].end = first
  <2> DEFINE two == <<previousChunk, currentChunk>>
  <2>1. two \in Seq(ChunkType) /\ Len(two) = 2 /\ two[1] = previousChunk
    BY <1>2
  <2> HIDE DEF two
  <2>2. \A k \in 1 .. (Len(oldChunks) + Len(two)) : (oldChunks \o two)[k] =
                  IF k <= Len(oldChunks) THEN oldChunks[k] ELSE two[k - Len(oldChunks)]
    BY <1>2, <2>1, ConcatProperties
  <2>3. 1 \in 1 .. (Len(oldChunks) + Len(two))
    BY <1>2, <2>1
  <2>4. CASE Len(oldChunks) = 0
    <3>1. Stack[1] = previousChunk
        BY <1>2, <2>4 DEF ExtendedBy
    <3> QED
        BY <2>1, <2>2, <2>3, <2>4, <3>1 DEF two
  <2>5. CASE Len(oldChunks) >= 1
    <3>1. Stack[1] = oldChunks[1]
        BY <1>2, <2>5 DEF ExtendedBy
    <3> QED
        BY <2>2, <2>3, <2>5, <3>1 DEF two
  <2> QED
    BY <1>2, <2>4, <2>5
<1> HIDE DEF first
<1>8. IsBest(score, pos + first, pos + MinSize, pos + a - MinSize)
  <2>1. /\ Stack[1].hash = pos + first
        /\ \A q \in (pos + 0 + MinSize) .. (pos + dataLen) :
              /\ score[q] <= score[pos + first]
              /\ q < pos + first => score[q] < score[pos + first]
    BY <1>2, <1>4, <1>5 DEF Exact, first
  <2>2. pos + 0 + MinSize = pos + MinSize /\ pos + dataLen = pos + a - MinSize
    BY ONLY MinSizeAssumption, <1>2, <1>3
  <2>3. pos + first \in (pos + MinSize) .. (pos + dataLen)
    BY ONLY MinSizeAssumption, <1>2, <1>6
  <2>4. ASSUME NEW q \in (pos + MinSize) .. ((pos + first) - 1)
        PROVE  q \in (pos + MinSize) .. (pos + dataLen) /\ q < pos + first
    BY ONLY MinSizeAssumption, <1>2, <1>6
  <2> QED
    BY <2>1, <2>2, <2>3, <2>4 DEF IsBest
<1>9. RuleChunkSize(score, pos, a) = first
  <2>1. a \in Nat /\ a >= 2 * MinSize /\ first \in MinSize .. (a - MinSize)
    BY ONLY MinSizeAssumption, <1>2, <1>3, <1>6
  <2>2. Scored(score, pos + MinSize, pos + a - MinSize)
    <3>1. pos + 0 + MinSize = pos + MinSize /\ pos + dataLen = pos + a - MinSize
        BY ONLY MinSizeAssumption, <1>2, <1>3
    <3> QED
        BY <1>2, <3>1
  <2> QED
    BY <1>2, <1>8, <2>1, <2>2, BestIsRule
<1>10. handedOut < fileSize /\ handedOut \in 0 .. (fileSize - 1)
    BY ONLY MinSizeAssumption, <1>2
<1>11. RuleSizes(fileSize, score)[handedOut] = first
    BY <1>2, <1>9, <1>10 DEF RuleSizes, a
<1> QED
    BY <1>1, <1>7, <1>10, <1>11

\* The rest of the file is what the rule says too.
LEMMA TailIsRule ==
    ASSUME IInv, ReturnTail
    PROVE  /\ result' = "chunk" /\ handedOut < fileSize
           /\ handedOut' = handedOut + RuleSizes(fileSize, score)[handedOut]
<1> DEFINE a == Available(fileSize, pos)
           tail == [hash |-> NoHash, end |-> a]
<1>1. /\ pc = "peek" /\ a \in 1 .. (2 * MinSize - 1) /\ result' = "chunk"
      /\ handedOut' = handedOut + <<tail>>[1].end
    BY DEF ReturnTail, ReturnChunk
<1>2. pos \in Nat /\ fileSize \in Nat /\ chunks[1].end \in Nat /\ handedOut \in Nat
    BY Entries, EmptySeq DEF IInv, TypeOK
<1>3. pos = handedOut /\ handedOut <= fileSize
  <2>1. pos + chunks[1].end = handedOut /\ handedOut <= fileSize /\ chunks[1].end = 0
    BY <1>1 DEF IInv, Aligned
  <2> QED
    BY <1>2, <2>1
<1>4. a \in Nat /\ pos + a <= fileSize
    BY <1>2, <1>3, AvailableFacts DEF IInv
<1>5. <<tail>>[1].end = a
    OBVIOUS
<1> HIDE DEF a, tail
<1>6. handedOut < fileSize /\ handedOut \in 0 .. (fileSize - 1) /\ a < 2 * MinSize
    BY ONLY MinSizeAssumption, <1>1, <1>2, <1>3, <1>4
<1>7. RuleSizes(fileSize, score)[handedOut] = a
    BY <1>3, <1>6 DEF RuleSizes, RuleChunkSize, a
<1> QED
    BY <1>1, <1>5, <1>6, <1>7

LEMMA InitDelivers == Init => Stream!Init
BY DEF Init, Stream!Init

LEMMA NextDelivers == IInv /\ [Next]_vars => [Stream!Next]_(Stream!delivery)
<1> SUFFICES ASSUME IInv, [Next]_vars PROVE [Stream!Next]_(Stream!delivery)
    OBVIOUS
<1> USE DEF Stream!Next, Stream!delivery, Stream!Deliver, Stream!EndOfFile, Stream!Fail
<1>1. CASE ReturnFirstChunk
    BY <1>1, FirstChunkIsRule
<1>2. CASE ReturnTail
    BY <1>2, TailIsRule
<1>3. CASE ReturnEndOfFile
  <2>1. /\ pc = "peek" /\ Available(fileSize, pos) = 0 /\ result' = "eof"
        /\ UNCHANGED handedOut
    BY <1>3 DEF ReturnEndOfFile
  <2>2. /\ pos \in Nat /\ fileSize \in Nat /\ chunks[1].end \in Nat
        /\ pos + chunks[1].end = handedOut /\ handedOut <= fileSize /\ chunks[1].end = 0
    BY <2>1, Entries, EmptySeq DEF IInv, TypeOK, Aligned
  <2>3. pos = handedOut
    BY <2>2
  <2>4. \/ Available(fileSize, pos) = PeekSize
        \/ pos + Available(fileSize, pos) = fileSize
    BY <2>2, <2>3, AvailableFacts DEF IInv
  <2>5. PeekSize # 0
    BY PeekSizeFacts
  <2>6. handedOut = fileSize
    BY <2>1, <2>2, <2>3, <2>4, <2>5
  <2> QED
    BY <2>1, <2>6
<1>4. CASE DiscardFails \/ PeekFails
    BY <1>4 DEF DiscardFails, PeekFails, ReturnError
<1>5. CASE DiscardPrevious \/ StartScan \/ StartRegion \/ HashByte \/ EndRegion \/ PushChunk
    BY <1>5 DEF DiscardPrevious, StartScan, StartRegion, HashByte, EndRegion, PushChunk
<1>6. CASE UNCHANGED vars
    BY <1>6 DEF vars
<1> QED
    BY <1>1, <1>2, <1>3, <1>4, <1>5, <1>6 DEF Next

\* Whatever is discarded, peeked and scanned in which call, the reader hands out
\* the chunks that the rule of the simple reader gives, in order, and says EOF
\* after the last byte and not before.
THEOREM Implements == Spec => RefinesChunkStream
<1>1. Spec => Stream!Init
    BY InitDelivers DEF Spec
<1> QED
    BY <1>1, NextDelivers, Invariance, PTL DEF Spec, RefinesChunkStream, Stream!Safety

-----------------------------------------------------------------------------
\* Every call comes to an end

\* What a step of a call uses up: bytes that are not hashed yet, of which each may
\* be the last of a region and fill the current chunk, and the steps between.
Unhashed == dataLen - Cursor

\* The steps that a call has left, at most.
StepsLeft ==
    CASE pc = "idle" -> 0
      [] pc = "peek" -> 4 * fileSize + 6
      [] pc = "scan" -> 4 * Unhashed + (IF HashRegionLen > 0 THEN 3
                                        ELSE IF IsFull THEN 4 ELSE 1)
      [] pc = "region" -> 4 * Unhashed + (IF i < regionLen THEN 2 ELSE 5)

\* The calls that can still end otherwise than at the end of the file, at most.
CallsLeft == (fileSize - handedOut) + (MaxFaults - faults)

\* A step of a call can be taken: its guards, where they are not the negations of
\* one another.
CanGoOn ==
    \/ pc = "peek"
    \/ pc = "scan" /\ HashRegionLen >= 0
    \/ pc = "region" /\ i <= regionLen

\* What is known of the numbers that are counted.
LEMMA CountedFacts ==
    ASSUME IInv
    PROVE  /\ fileSize \in Nat /\ handedOut \in Nat /\ handedOut <= fileSize
           /\ faults \in Nat /\ faults <= MaxFaults /\ MaxFaults \in Nat
           /\ pc \in {"idle", "peek", "scan", "region"}
           /\ regionLen \in Nat /\ i \in 0 .. regionLen
           /\ Scanning => Unhashed \in Nat /\ dataLen <= fileSize - 1
<1>1. /\ fileSize \in Nat /\ handedOut \in Nat /\ handedOut <= fileSize
      /\ faults \in Nat /\ faults <= MaxFaults
      /\ pc \in {"idle", "peek", "scan", "region"}
      /\ regionLen \in Nat /\ i \in 0 .. regionLen
    BY DEF IInv, TypeOK, Aligned
<1>2. ASSUME Scanning PROVE Unhashed \in Nat /\ dataLen <= fileSize - 1
  <2>1. /\ Cursor \in Nat /\ Cursor <= dataLen /\ dataLen \in Nat /\ pos \in Nat
        /\ pos + dataLen + MinSize <= fileSize
    BY <1>2, ScanFacts
  <2>2. dataLen <= fileSize - 1
    BY ONLY MinSizeAssumption, <1>1, <2>1
  <2> QED
    BY <2>1, <2>2 DEF Unhashed
<1> QED
    BY <1>1, <1>2, MaxFaultsAssumption

\* What is left is a number of steps, one at least, and one of them can be taken.
LEMMA ReaderCanGoOn ==
    ASSUME IInv
    PROVE  /\ StepsLeft \in Nat /\ CallsLeft \in Nat
           /\ pc # "idle" => StepsLeft > 0 /\ CanGoOn
<1>1. CallsLeft \in Nat
    BY CountedFacts DEF CallsLeft
<1>2. CASE pc \in {"idle", "peek"}
    BY <1>1, <1>2, CountedFacts DEF StepsLeft, CanGoOn
<1>3. CASE pc = "scan"
  <2>1. Unhashed \in Nat /\ HashRegionLen \in Nat
    BY <1>3, CountedFacts, RegionFacts DEF Scanning
  <2>2. StepsLeft = 4 * Unhashed + (IF HashRegionLen > 0 THEN 3
                                    ELSE IF IsFull THEN 4 ELSE 1)
    BY <1>3 DEF StepsLeft
  <2>3. StepsLeft \in Nat /\ StepsLeft > 0
    BY <2>1, <2>2
  <2> QED
    BY <1>1, <1>3, <2>1, <2>3 DEF CanGoOn
<1>4. CASE pc = "region"
  <2>1. Unhashed \in Nat /\ regionLen \in Nat /\ i \in 0 .. regionLen
    BY <1>4, CountedFacts DEF Scanning
  <2>2. StepsLeft = 4 * Unhashed + (IF i < regionLen THEN 2 ELSE 5)
    BY <1>4 DEF StepsLeft
  <2>3. StepsLeft \in Nat /\ StepsLeft > 0
    BY <2>1, <2>2
  <2> QED
    BY <1>1, <1>4, <2>1, <2>3 DEF CanGoOn
<1> QED
    BY <1>2, <1>3, <1>4, CountedFacts

\* What is counted in the next state.
LEMMA CountedScan ==
    IInv => (Scanning => /\ Unhashed \in Nat /\ Cursor \in Nat /\ dataLen \in Nat
                         /\ dataLen <= fileSize - 1)
BY CountedFacts, ScanFacts

LEMMA CountedScanNext ==
    IInv' => (Scanning => /\ Unhashed \in Nat /\ Cursor \in Nat /\ dataLen \in Nat
                          /\ dataLen <= fileSize - 1)'
BY CountedScan, PTL

\* A scan that begins has fewer bytes to hash than the file.
LEMMA StartScanCounts == ASSUME IInv, IInv', StartScan PROVE StepsLeft' < StepsLeft
<1> DEFINE u == Unhashed'
<1>1. /\ pc = "peek" /\ pc' = "scan" /\ fileSize' = fileSize /\ fileSize \in Nat
    BY CountedFacts DEF StartScan, file
<1>2. u \in Nat /\ u <= fileSize - 1
  <2>1. Scanning'
    BY <1>1 DEF Scanning
  <2>2. u \in Nat /\ dataLen' <= fileSize' - 1
    BY <2>1, CountedScanNext
  <2>3. Cursor' \in Nat /\ dataLen' \in Nat
    BY <2>1, CountedScanNext
  <2>4. u = dataLen' - Cursor'
    BY DEF Unhashed
  <2> DEFINE k == Cursor'
             d == dataLen'
  <2>5. k \in Nat /\ d \in Nat /\ u = d - k /\ d <= fileSize - 1
    BY <1>1, <2>2, <2>3, <2>4
  <2> HIDE DEF u, k, d
  <2> QED
    BY ONLY <1>1, <2>2, <2>5
<1>3. /\ StepsLeft = 4 * fileSize + 6
      /\ StepsLeft' = 4 * u + (IF HashRegionLen' > 0 THEN 3
                               ELSE IF IsFull' THEN 4 ELSE 1)
    BY <1>1 DEF StepsLeft
<1> HIDE DEF u
<1>4. StepsLeft' \in {4 * u + 3, 4 * u + 4, 4 * u + 1}
    BY <1>2, <1>3
<1> QED
    BY <1>1, <1>2, <1>3, <1>4

\* The steps of the scan: a region that begins, its bytes, its end, and a chunk
\* that is pushed, which does not fill the next one.
LEMMA ScanCounts ==
    ASSUME IInv, IInv', StartRegion \/ HashByte \/ EndRegion \/ PushChunk
    PROVE  StepsLeft' < StepsLeft
<1> DEFINE u == Unhashed
           v == Unhashed'
<1>1. /\ pc \in {"scan", "region"} /\ pc' \in {"scan", "region"} /\ dataLen' = dataLen
    BY DEF StartRegion, HashByte, EndRegion, PushChunk
<1>2. /\ Cursor \in Nat /\ dataLen \in Nat
      /\ currentChunk.end \in Nat /\ regionLen \in Nat /\ i \in 0 .. regionLen
      /\ previousChunk.end \in Nat
    BY <1>1, ScanFacts DEF Scanning
<1>3. /\ u \in Nat /\ u = dataLen - Cursor
      /\ v \in Nat /\ v = dataLen - Cursor' /\ Cursor' \in Nat
  <2>1. Scanning /\ Scanning'
    BY <1>1 DEF Scanning
  <2>2. u \in Nat /\ u = dataLen - Cursor
    BY <2>1, CountedFacts DEF Unhashed
  <2>3. v \in Nat /\ Cursor' \in Nat
    BY <2>1, CountedScanNext
  <2>4. v = dataLen - Cursor'
    BY <1>1 DEF Unhashed
  <2> QED
    BY <2>2, <2>3, <2>4
<1>4. StepsLeft = IF pc = "scan"
                  THEN 4 * u + (IF HashRegionLen > 0 THEN 3 ELSE IF IsFull THEN 4 ELSE 1)
                  ELSE 4 * u + (IF i < regionLen THEN 2 ELSE 5)
    BY <1>1 DEF StepsLeft
<1>5. StepsLeft' = IF pc' = "scan"
                   THEN 4 * v + (IF HashRegionLen' > 0 THEN 3 ELSE IF IsFull' THEN 4 ELSE 1)
                   ELSE 4 * v + (IF i' < regionLen' THEN 2 ELSE 5)
    BY <1>1 DEF StepsLeft
<1> HIDE DEF u, v
<1>6. CASE StartRegion
  <2>1. /\ pc = "scan" /\ pc' = "region" /\ HashRegionLen > 0
        /\ regionLen' = HashRegionLen /\ i' = 0 /\ currentChunk' = currentChunk
    BY <1>6 DEF StartRegion, stack
  <2>2. Cursor = currentChunk.end /\ Cursor' = currentChunk.end + 0
    BY <2>1 DEF Cursor
  <2>3. v = u
    BY <1>2, <1>3, <2>2
  <2>4. StepsLeft = 4 * u + 3 /\ StepsLeft' = 4 * u + 2
    BY <1>4, <1>5, <2>1, <2>3
  <2> QED
    BY <1>3, <2>4
<1>7. CASE HashByte
  <2>1. /\ pc = "region" /\ pc' = "region" /\ i < regionLen /\ i' = i + 1
        /\ regionLen' = regionLen /\ currentChunk'.end = currentChunk.end
    BY <1>7 DEF HashByte, IInv, TypeOK, ChunkType
  <2>2. Cursor = currentChunk.end + i /\ Cursor' = currentChunk.end + (i + 1)
    BY <2>1 DEF Cursor
  <2>3. v = u - 1
    BY <1>2, <1>3, <2>2
  <2>4. StepsLeft = 4 * u + 2
    BY <1>4, <2>1
  <2>5. StepsLeft' \in {4 * (u - 1) + 2, 4 * (u - 1) + 5}
    BY <1>5, <2>1, <2>3
  <2> QED
    BY <1>3, <2>4, <2>5
<1>8. CASE EndRegion
  <2>1. /\ pc = "region" /\ pc' = "scan" /\ i = regionLen
        /\ currentChunk'.end = currentChunk.end + regionLen
    BY <1>8 DEF EndRegion, IInv, TypeOK, ChunkType
  <2>2. Cursor = currentChunk.end + i /\ Cursor' = currentChunk.end + i
    BY <2>1 DEF Cursor
  <2>3. v = u
    BY <1>2, <1>3, <2>2
  <2>4. StepsLeft = 4 * u + 5
    BY <1>2, <1>4, <2>1
  <2>5. StepsLeft' \in {4 * u + 3, 4 * u + 4, 4 * u + 1}
    BY <1>5, <2>1, <2>3
  <2> QED
    BY <1>3, <2>4, <2>5
<1>9. CASE PushChunk
  <2>1. /\ pc = "scan" /\ pc' = "scan" /\ HashRegionLen = 0 /\ IsFull
        /\ previousChunk' = currentChunk /\ currentChunk' = currentChunk
    BY <1>9 DEF PushChunk
  <2>2. Cursor = currentChunk.end /\ Cursor' = currentChunk.end
    BY <2>1 DEF Cursor
  <2>3. v = u
    BY <1>2, <1>3, <2>2
  <2>4. ~ IsFull'
    <3>1. IsFull' <=> currentChunk.end - currentChunk.end = MinSize
      BY <2>1 DEF IsFull
    <3> QED
      BY <1>2, <3>1, MinSizeAssumption
  <2>5. StepsLeft = 4 * u + 4
    BY <1>4, <2>1
  <2>6. StepsLeft' \in {4 * u + 3, 4 * u + 1}
    BY <1>5, <2>1, <2>3, <2>4
  <2> QED
    BY <1>3, <2>5, <2>6
<1> QED
    BY <1>6, <1>7, <1>8, <1>9

\* Every step of a call leaves fewer, the one that ends it none.
LEMMA ReaderStepCounts ==
    ASSUME IInv, IInv', Next, pc # "idle" PROVE StepsLeft' < StepsLeft
<1>1. StepsLeft \in Nat /\ StepsLeft > 0
    BY ReaderCanGoOn
<1>2. CASE pc' = "idle"
  <2>1. StepsLeft' = 0
    BY <1>2 DEF StepsLeft
  <2> QED
    BY <1>1, <2>1
<1>3. CASE StartScan
    BY <1>3, StartScanCounts
<1>4. CASE StartRegion \/ HashByte \/ EndRegion \/ PushChunk
    BY <1>4, ScanCounts
<1> QED
    BY <1>2, <1>3, <1>4
    DEF Next, DiscardPrevious, DiscardFails, PeekFails, ReturnEndOfFile, ReturnTail,
        ReturnFirstChunk, ReturnChunk, ReturnError

\* Every step of ReadNextChunk brings the end of the call nearer: the loop never
\* goes round without a byte hashed or a chunk pushed, and none is pushed twice.
THEOREM ReaderStepsCount == Spec => [][pc # "idle" => StepsLeft' < StepsLeft]_vars
<1>1. IInv /\ IInv' /\ [Next]_vars => [pc # "idle" => StepsLeft' < StepsLeft]_vars
    BY ReaderStepCounts
<1> QED
    BY <1>1, Invariance, PTL DEF Spec

\* A call is never stuck, and the steps and the calls that are left are numbers.
ReaderGoesOn == /\ StepsLeft \in Nat /\ CallsLeft \in Nat
                /\ pc # "idle" => CanGoOn

\* ReadNextChunk is never stuck: the length of a region is not negative and no
\* region is left by more bytes than it has, so that the loop has a way to go on.
THEOREM ReaderNeverStuck == Spec => []ReaderGoesOn
<1>1. IInv => ReaderGoesOn
    BY ReaderCanGoOn DEF ReaderGoesOn
<1> QED
    BY <1>1, Invariance, PTL

\* What a step does to the calls that are left.
CallsCount == /\ CallsLeft' <= CallsLeft
              /\ pc' = "idle" => CallsLeft' < CallsLeft \/ result' = "eof"

\* A call that ends returns bytes, or used up one of the errors of the Peeker, or
\* is at the end of the file.
LEMMA ReaderCallCounts ==
    ASSUME IInv, Next
    PROVE  CallsCount
<1>1. fileSize \in Nat /\ handedOut \in Nat /\ faults \in Nat /\ MaxFaults \in Nat
    BY CountedFacts
<1>2. ASSUME NEW size \in Nat \ {0}, handedOut' = handedOut + size, faults' = faults,
             fileSize' = fileSize
      PROVE  CallsCount
    BY <1>1, <1>2 DEF CallsCount, CallsLeft
<1>3. CASE DiscardFails \/ PeekFails
  <2>1. faults' = faults + 1 /\ handedOut' = handedOut /\ fileSize' = fileSize
    BY <1>3 DEF DiscardFails, PeekFails, ReturnError, file
  <2> QED
    BY <1>1, <2>1 DEF CallsCount, CallsLeft
<1>4. CASE ReturnTail
  <2>1. /\ Available(fileSize, pos) \in 1 .. (2 * MinSize - 1) /\ faults' = faults
        /\ handedOut' = handedOut + Available(fileSize, pos) /\ fileSize' = fileSize
    BY <1>4 DEF ReturnTail, ReturnChunk, peeker, file
  <2>2. Available(fileSize, pos) \in Nat \ {0}
    BY <2>1, MinSizeAssumption
  <2> QED
    BY <1>2, <2>1, <2>2
<1>5. CASE ReturnFirstChunk
  <2> DEFINE two == <<previousChunk, currentChunk>>
             kept == oldChunks \o two
  <2>1. /\ pc = "scan" /\ handedOut' = handedOut + kept[1].end
        /\ faults' = faults /\ fileSize' = fileSize
    BY <1>5 DEF ReturnFirstChunk, ReturnChunk, peeker, file
  <2>2. /\ oldChunks \in Seq(ChunkType) /\ Len(oldChunks) \in Nat
        /\ previousChunk \in ChunkType /\ currentChunk \in ChunkType
        /\ Stack \in Seq(ChunkType) /\ Stack # <<>>
        /\ ExtendedBy(oldChunks, Stack, previousChunk)
        /\ Spaced(Stack, 0, Cursor)
    BY <2>1, ScanFacts DEF IInv, TypeOK, Scanning, Sound
  <2>3. Len(Stack) = Len(oldChunks) + 1 /\ 1 \in 1 .. Len(Stack)
    BY <2>2 DEF ExtendedBy
  <2>4. kept[1] = Stack[1]
    <3>1. two \in Seq(ChunkType) /\ Len(two) = 2 /\ two[1] = previousChunk
      BY <2>2
    <3> HIDE DEF two
    <3>2. \A k \in 1 .. (Len(oldChunks) + Len(two)) :
             kept[k] = IF k <= Len(oldChunks) THEN oldChunks[k] ELSE two[k - Len(oldChunks)]
      BY <2>2, <3>1, ConcatProperties
    <3>3. CASE Len(oldChunks) = 0
      BY <2>2, <3>1, <3>2, <3>3 DEF ExtendedBy
    <3>4. CASE Len(oldChunks) > 0
      BY <2>2, <3>1, <3>2, <3>4 DEF ExtendedBy
    <3>5. Len(oldChunks) = 0 \/ Len(oldChunks) > 0
      BY <2>2
    <3> QED
      BY <3>3, <3>4, <3>5
  <2>5. Stack[1].end \in Nat /\ Stack[1].end >= 0 + MinSize
    BY <2>2, <2>3, Entries DEF Spaced
  <2>6. Stack[1].end \in Nat \ {0}
    BY <2>5, MinSizeAssumption
  <2> QED
    BY <1>2, <2>1, <2>4, <2>6
<1>6. ASSUME UNCHANGED <<fileSize, handedOut, faults>>, pc' # "idle" \/ result' = "eof"
      PROVE  CallsCount
    BY <1>1, <1>6 DEF CallsCount, CallsLeft
<1>7. CASE ReturnEndOfFile
    BY <1>6, <1>7 DEF ReturnEndOfFile, file, peeker
<1>8. CASE DiscardPrevious \/ StartScan \/ StartRegion \/ HashByte \/ EndRegion \/ PushChunk
  <2>1. pc' # "idle"
    BY <1>8 DEF DiscardPrevious, StartScan, StartRegion, HashByte, EndRegion, PushChunk
  <2>2. UNCHANGED <<fileSize, handedOut, faults>>
    BY <1>8
    DEF DiscardPrevious, StartScan, StartRegion, HashByte, EndRegion, PushChunk, file, peeker
  <2> QED
    BY <1>6, <2>1, <2>2
<1> QED
    BY <1>3, <1>4, <1>5, <1>7, <1>8 DEF Next

\* There are only so many calls: each one that ends otherwise than with io.EOF
\* leaves fewer, a Discard or a Peek that fails included, and no step leaves more.
\* No call hands out an empty chunk.
THEOREM ReaderCallsCount == Spec => [][CallsCount]_vars
<1>1. IInv /\ [Next]_vars => [CallsCount]_vars
    BY ReaderCallCounts
<1> QED
    BY <1>1, Invariance, PTL DEF Spec

=============================================================================
