------------------------- MODULE RepMaxRule_proofs -------------------------
(***************************************************************************)
(* What the cutting rule of RepMaxCDC computes, for every file and every   *)
(* size and horizon.  The rule is a recursive function: here it is shown   *)
(* to unfold, and to pass through every cutting point that stands out, so  *)
(* that a proof about a reader needs no induction of its own.              *)
(***************************************************************************)
EXTENDS RepMaxRule, WellFoundedInduction, TLAPS

-----------------------------------------------------------------------------
\* Least members

\* A set of natural numbers that is not empty has a least member.
LEMMA LeastMember ==
    ASSUME NEW S \in SUBSET Nat, S # {}
    PROVE  \E x \in S : \A y \in S : x <= y
<1> DEFINE R == OpToRel(<, Nat)
<1>1. IsWellFoundedOn(R, Nat)
    BY NatLessThanWellFounded
<1>2. \A x, y \in Nat : <<y, x>> \in R <=> y < x
    BY DEF OpToRel
<1> HIDE DEF R
<1>3. PICK x \in S : \A y \in S : ~ (<<y, x>> \in R)
    BY <1>1, WFMin
<1>4. ASSUME NEW y \in S PROVE x <= y
  <2>1. x \in Nat /\ y \in Nat
    OBVIOUS
  <2>2. ~ (<<y, x>> \in R)
    BY <1>3
  <2>3. ~ (y < x)
    BY <1>2, <2>1, <2>2
  <2> QED
    BY <2>1, <2>3
<1> QED
    BY <1>4

-----------------------------------------------------------------------------
\* The best cutting point of a range

\* The score of the cutting point at offset o of a chunk that begins at start.
ScoreAt(sc, start, o) == sc[start + MinSize + o]

\* The cutting points at the offsets 0 .. last have scores.
Scored(sc, start, last) == \A o \in 0 .. last : ScoreAt(sc, start, o) \in Nat

\* Nothing in the range exceeds b, and what comes before it is smaller.
IsBest(sc, start, last, b) ==
    /\ b \in 0 .. last
    /\ \A o \in 0 .. last : ScoreAt(sc, start, o) <= ScoreAt(sc, start, b)
    /\ \A o \in 0 .. (b - 1) : ScoreAt(sc, start, o) < ScoreAt(sc, start, b)

\* Every range has a leftmost best point.
LEMMA BestExists ==
    ASSUME NEW sc, NEW start, NEW last \in Nat, Scored(sc, start, last)
    PROVE  \E b \in 0 .. last : IsBest(sc, start, last, b)
<1> DEFINE bad == {n \in 0 .. last : ~ \E b \in 0 .. n : IsBest(sc, start, n, b)}
<1> SUFFICES ASSUME bad # {} PROVE FALSE
    BY DEF bad
<1>1. bad \in SUBSET Nat
    OBVIOUS
<1>2. PICK n \in bad : \A m \in bad : n <= m
    BY <1>1, LeastMember
<1>3. n \in 0 .. last /\ ~ \E b \in 0 .. n : IsBest(sc, start, n, b)
    BY DEF bad
<1>4. \A o \in 0 .. n : ScoreAt(sc, start, o) \in Nat
    BY <1>3 DEF Scored
<1>5. CASE n = 0
    BY <1>3, <1>4, <1>5 DEF IsBest
<1>6. CASE n # 0
  <2>1. n - 1 \in 0 .. last /\ n - 1 \notin bad
    BY <1>2, <1>3, <1>6
  <2> HIDE DEF bad
  <2>2. PICK b \in 0 .. (n - 1) : IsBest(sc, start, n - 1, b)
    BY <2>1 DEF bad
  <2>3. CASE ScoreAt(sc, start, n) <= ScoreAt(sc, start, b)
    <3>1. \A o \in 0 .. n : o = n \/ o \in 0 .. (n - 1)
      BY <1>3
    <3>2. IsBest(sc, start, n, b)
      BY <1>3, <1>4, <2>2, <2>3, <3>1 DEF IsBest
    <3> QED
      BY <1>3, <2>2, <3>2
  <2>4. CASE ScoreAt(sc, start, b) < ScoreAt(sc, start, n)
    <3>1. ASSUME NEW o \in 0 .. (n - 1) PROVE ScoreAt(sc, start, o) < ScoreAt(sc, start, n)
      <4>1. ScoreAt(sc, start, o) <= ScoreAt(sc, start, b) /\ o \in 0 .. n /\ b \in 0 .. n
        BY <1>3, <2>2 DEF IsBest
      <4> QED
        BY <1>3, <1>4, <2>4, <4>1
    <3>2. IsBest(sc, start, n, n)
      BY <1>3, <1>4, <3>1 DEF IsBest
    <3> QED
      BY <1>3, <3>2
  <2>5. b \in 0 .. n /\ n \in 0 .. n
    BY <1>3
  <2> QED
    BY <1>4, <2>3, <2>4, <2>5
<1> QED
    BY <1>5, <1>6

\* There is only one.
LEMMA BestIsOnly ==
    ASSUME NEW sc, NEW start, NEW last \in Nat, Scored(sc, start, last),
           NEW b, IsBest(sc, start, last, b), NEW c, IsBest(sc, start, last, c)
    PROVE  b = c
<1>1. b \in 0 .. last /\ c \in 0 .. last
    BY DEF IsBest
<1>2. ~ (b < c)
  <2> SUFFICES ASSUME b < c PROVE FALSE
    OBVIOUS
  <2>1. ScoreAt(sc, start, b) < ScoreAt(sc, start, c) /\ ScoreAt(sc, start, c) <= ScoreAt(sc, start, b)
    BY <1>1 DEF IsBest
  <2> QED
    BY <1>1, <2>1 DEF Scored
<1>3. ~ (c < b)
  <2> SUFFICES ASSUME c < b PROVE FALSE
    OBVIOUS
  <2>1. ScoreAt(sc, start, c) < ScoreAt(sc, start, b) /\ ScoreAt(sc, start, b) <= ScoreAt(sc, start, c)
    BY <1>1 DEF IsBest
  <2> QED
    BY <1>1, <2>1 DEF Scored
<1> QED
    BY <1>1, <1>2, <1>3

\* BestOffset is that point.
LEMMA BestOffsetIsBest ==
    ASSUME NEW sc, NEW start, NEW last \in Nat, Scored(sc, start, last)
    PROVE  IsBest(sc, start, last, BestOffset(sc, start, last))
<1>1. PICK b \in 0 .. last : IsBest(sc, start, last, b)
    BY BestExists
<1>2. BestOffset(sc, start, last) =
        CHOOSE c \in 0 .. last :
            /\ \A o \in 0 .. last : ScoreAt(sc, start, o) <= ScoreAt(sc, start, c)
            /\ \A o \in 0 .. (c - 1) : ScoreAt(sc, start, o) < ScoreAt(sc, start, c)
    BY DEF BestOffset, ScoreAt
<1>3. \E c \in 0 .. last :
            /\ \A o \in 0 .. last : ScoreAt(sc, start, o) <= ScoreAt(sc, start, c)
            /\ \A o \in 0 .. (c - 1) : ScoreAt(sc, start, o) < ScoreAt(sc, start, c)
    BY <1>1 DEF IsBest
<1> QED
    BY <1>2, <1>3 DEF IsBest

LEMMA BestIs ==
    ASSUME NEW sc, NEW start, NEW last \in Nat, Scored(sc, start, last),
           NEW b, IsBest(sc, start, last, b)
    PROVE  BestOffset(sc, start, last) = b
BY BestOffsetIsBest, BestIsOnly

-----------------------------------------------------------------------------
\* The rule unfolds

\* Where the search goes on from a best point at offset o.
After(sc, start, last, o) ==
    IF o < MinSize THEN MinSize + o ELSE SizesWithin(sc, start, last)[o]

\* The recursive function satisfies its equation, as every search is shorter
\* than the one before.
LEMMA Unfolds ==
    ASSUME NEW sc, NEW start, NEW last \in Nat, last >= MinSize,
           Scored(sc, start, last - MinSize), NEW d \in MinSize .. last
    PROVE  SizesWithin(sc, start, last)[d]
             = After(sc, start, last, BestOffset(sc, start, d - MinSize))
<1> USE MinSizeAssumption
<1> DEFINE Best(x) == BestOffset(sc, start, x - MinSize)
           Body(f, x) == IF Best(x) < MinSize THEN MinSize + Best(x) ELSE f[Best(x)]
           Sizes(n, f) == \A x \in MinSize .. n : f[x] = Body(f, x)
           bad == {n \in 0 .. last : ~ \E f : Sizes(n, f)}
<1>1. ASSUME NEW x \in MinSize .. last PROVE Best(x) \in 0 .. (x - MinSize)
  <2>1. x - MinSize \in Nat /\ Scored(sc, start, x - MinSize)
    BY DEF Scored
  <2> QED
    BY <2>1, BestOffsetIsBest DEF IsBest
<1>2. bad = {}
  <2> SUFFICES ASSUME bad # {} PROVE FALSE
    OBVIOUS
  <2>1. PICK n \in bad : \A m \in bad : n <= m
    <3>1. bad \in SUBSET Nat
      OBVIOUS
    <3> HIDE DEF bad
    <3> QED
      BY <3>1, LeastMember
  <2>2. n \in 0 .. last /\ ~ \E f : Sizes(n, f)
    OBVIOUS
  <2>3. n >= MinSize
    <3> SUFFICES ASSUME n < MinSize PROVE FALSE
      BY <2>2
    <3>1. MinSize .. n = {}
      BY <2>2
    <3>2. Sizes(n, 0)
      BY <3>1
    <3> QED
      BY <2>2, <3>2
  <2>4. PICK g : Sizes(n - 1, g)
    <3>1. n - 1 \in 0 .. last
      BY <2>2, <2>3
    <3>2. n - 1 \notin bad
      <4> HIDE DEF bad
      <4> QED
        BY <2>1, <2>2
    <3> HIDE DEF Sizes
    <3> QED
      BY <3>1, <3>2
  <2> DEFINE h == [x \in MinSize .. n |-> IF x = n THEN Body(g, n) ELSE g[x]]
  <2>5. ASSUME NEW x \in MinSize .. n PROVE h[x] = Body(h, x)
    <3>1. x \in MinSize .. last /\ Best(x) \in 0 .. (x - MinSize)
      BY <1>1, <2>2
    <3> HIDE DEF Best
    <3>2. Body(h, x) = Body(g, x)
      <4>1. CASE Best(x) < MinSize
        BY <4>1
      <4>2. CASE Best(x) >= MinSize
        <5>1. Best(x) \in MinSize .. n /\ Best(x) # n
          BY <2>2, <3>1, <4>2
        <5> QED
          BY <5>1
      <4> QED
        BY <2>2, <3>1, <4>1, <4>2
    <3>3. CASE x = n
      BY <3>2, <3>3
    <3>4. CASE x # n
      <4>1. x \in MinSize .. (n - 1)
        BY <2>2, <3>4
      <4>2. g[x] = Body(g, x)
        BY <2>4, <4>1
      <4>3. h[x] = g[x]
        BY <3>4
      <4> HIDE DEF h
      <4> QED
        BY <3>2, <4>2, <4>3
    <3> QED
      BY <3>3, <3>4
  <2>6. Sizes(n, h)
    <3> HIDE DEF h, Body
    <3> QED
      BY <2>5
  <2> HIDE DEF h, Sizes
  <2> QED
    BY <2>2, <2>6
<1>3. PICK g : Sizes(last, g)
  <2>1. last \notin bad
    BY <1>2
  <2> HIDE DEF Sizes
  <2> QED
    BY <2>1
<1> DEFINE dom == MinSize .. last
           f0 == [x \in dom |-> g[x]]
<1>4. f0 = [x \in dom |-> Body(f0, x)]
  <2>1. ASSUME NEW x \in dom PROVE f0[x] = Body(f0, x)
    <3>1. g[x] = Body(g, x)
      BY <1>3
    <3>2. Best(x) \in 0 .. (x - MinSize)
      BY <1>1
    <3> HIDE DEF Best
    <3>3. Best(x) < MinSize \/ Best(x) \in dom
      BY <3>2
    <3> QED
      BY <3>1, <3>3
  <2> HIDE DEF Body, dom
  <2> QED
    BY <2>1
<1>5. SizesWithin(sc, start, last) = CHOOSE f : f = [x \in dom |-> Body(f, x)]
  BY DEF SizesWithin
<1> DEFINE s == SizesWithin(sc, start, last)
<1>6. s = [x \in dom |-> Body(s, x)]
  <2> HIDE DEF f0, Body, dom
  <2> QED
    BY <1>4, <1>5
<1>7. s[d] = Body(s, d)
  <2> HIDE DEF s, Body
  <2> QED
    BY <1>6
<1> QED
  BY <1>7 DEF After

-----------------------------------------------------------------------------
\* Points that stand out

\* The point at offset c exceeds all before it, and the next ones, as far as
\* they are searched, do not exceed it.
StandsOut(sc, start, last, c) ==
    /\ c \in 0 .. last
    /\ \A o \in 0 .. (c - 1) : ScoreAt(sc, start, o) < ScoreAt(sc, start, c)
    /\ \A o \in (c + 1) .. last :
          o < c + MinSize => ScoreAt(sc, start, o) <= ScoreAt(sc, start, c)

\* Whatever lies beyond a point that stands out, the search gets there: a better
\* one is so far away that the next search still sees it.
THEOREM PassesThrough ==
    ASSUME NEW sc, NEW start, NEW last \in Nat, last >= MinSize,
           Scored(sc, start, last - MinSize),
           NEW c, StandsOut(sc, start, last - MinSize, c)
    PROVE  SizesWithin(sc, start, last)[last] = After(sc, start, last, c)
<1> USE MinSizeAssumption
<1> DEFINE sizes == SizesWithin(sc, start, last)
           bad == {x \in (c + MinSize) .. last : sizes[x] # After(sc, start, last, c)}
<1>1. c \in 0 .. (last - MinSize)
  BY DEF StandsOut
<1>2. bad = {}
  <2> SUFFICES ASSUME bad # {} PROVE FALSE
    OBVIOUS
  <2>1. PICK x \in bad : \A y \in bad : x <= y
    <3>1. bad \in SUBSET Nat
      BY <1>1
    <3> HIDE DEF bad
    <3> QED
      BY <3>1, LeastMember
  <2>2. x \in (c + MinSize) .. last /\ sizes[x] # After(sc, start, last, c)
    OBVIOUS
  <2> DEFINE best == BestOffset(sc, start, x - MinSize)
  <2>3. x \in MinSize .. last /\ x - MinSize \in Nat /\ x - MinSize >= c
        /\ x - MinSize <= last - MinSize
    BY <1>1, <2>2
  <2>4. Scored(sc, start, x - MinSize)
    BY <1>1, <2>2 DEF Scored
  <2>5. IsBest(sc, start, x - MinSize, best)
    BY <2>3, <2>4, BestOffsetIsBest
  <2>6. sizes[x] = After(sc, start, last, best)
    BY <2>3, Unfolds
  <2> HIDE DEF best, sizes, bad
  <2>7. best # c
    BY <2>2, <2>6
  <2>8. best \in 0 .. (x - MinSize) /\ c \in 0 .. (x - MinSize)
    BY <1>1, <2>3, <2>5 DEF IsBest
  <2>9. ScoreAt(sc, start, best) \in Nat /\ ScoreAt(sc, start, c) \in Nat
    BY <2>4, <2>8 DEF Scored
  <2>10. ~ (best < c)
    <3> SUFFICES ASSUME best < c PROVE FALSE
      OBVIOUS
    <3>1. ScoreAt(sc, start, best) < ScoreAt(sc, start, c)
      BY <1>1, <2>8 DEF StandsOut
    <3>2. ScoreAt(sc, start, c) <= ScoreAt(sc, start, best)
      BY <2>5, <2>8 DEF IsBest
    <3> QED
      BY <2>9, <3>1, <3>2
  <2>11. best >= c + MinSize
    <3> SUFFICES ASSUME best < c + MinSize PROVE FALSE
      BY <1>1, <2>8
    <3>1. best > c /\ best \in (c + 1) .. (last - MinSize)
      BY <1>1, <2>3, <2>7, <2>8, <2>10
    <3>2. ScoreAt(sc, start, best) <= ScoreAt(sc, start, c)
      BY <3>1 DEF StandsOut
    <3>3. ScoreAt(sc, start, c) < ScoreAt(sc, start, best)
      BY <1>1, <2>5, <2>8, <3>1 DEF IsBest
    <3> QED
      BY <2>9, <3>2, <3>3
  <2>12. sizes[x] = sizes[best]
    BY <1>1, <2>6, <2>8, <2>11 DEF After, sizes
  <2>13. best \in (c + MinSize) .. last /\ best < x
    BY <1>1, <2>2, <2>3, <2>8, <2>11
  <2>14. best \in bad
    BY <2>2, <2>12, <2>13 DEF bad
  <2> QED
    BY <1>1, <2>1, <2>2, <2>13, <2>14
<1>3. last \in (c + MinSize) .. last
  BY <1>1
<1> QED
  BY <1>2, <1>3

-----------------------------------------------------------------------------
\* The same in positions of the file

\* What is seen at a position of the file.
LEMMA AvailableBounds ==
    ASSUME NEW size \in Nat, NEW p \in Nat, p <= size
    PROVE  /\ MinSize \in Nat /\ MinSize > 0 /\ PeekSize \in Nat
           /\ Available(size, p) \in Nat /\ Available(size, p) <= PeekSize
           /\ p + Available(size, p) <= size
           /\ Available(size, p) = PeekSize \/ p + Available(size, p) = size
<1>1. MinSize \in Nat /\ MinSize > 0 /\ PeekSize \in Nat
    BY MinSizeAssumption, HorizonAssumption DEF PeekSize
<1> QED
    BY <1>1 DEF Available

\* Every point that may be searched from p has a score.
LEMMA AllScored ==
    ASSUME NEW size \in Nat, NEW sc, \A q \in CutsOf(size) : sc[q] \in Nat,
           NEW p \in Nat, p <= size
    PROVE  Scored(sc, p, Available(size, p) - 2 * MinSize)
<1>1. ASSUME NEW o \in 0 .. (Available(size, p) - 2 * MinSize)
      PROVE  ScoreAt(sc, p, o) \in Nat
  <2> DEFINE a == Available(size, p)
  <2>1. MinSize \in Nat /\ a \in Nat /\ p + a <= size /\ o \in 0 .. (a - 2 * MinSize)
    BY AvailableBounds
  <2> HIDE DEF a
  <2>2. p + MinSize + o \in CutsOf(size)
    BY <2>1 DEF CutsOf
  <2> QED
    BY <2>2 DEF ScoreAt
<1> QED
    BY <1>1 DEF Scored

\* The search for the end of the chunk that begins at p gets to this cut.
Reaches(size, sc, p, cut) ==
    p + MinSize <= cut =>
        RuleChunkSize(sc, p, Available(size, p))
          = After(sc, p, Available(size, p) - MinSize, cut - p - MinSize)

\* It gets to every cut that stands out.
LEMMA ReachesPeak ==
    ASSUME NEW size \in Nat, NEW sc \in [CutsOf(size) -> Nat],
           NEW p \in Nat, p <= size, NEW cut \in Nat,
           cut <= p + Available(size, p) - MinSize,
           \A q \in (p + MinSize) .. (cut - 1) : sc[q] < sc[cut],
           \A q \in (cut + 1) .. (p + Available(size, p) - MinSize) :
              q < cut + MinSize => sc[q] <= sc[cut]
    PROVE  Reaches(size, sc, p, cut)
<1> SUFFICES ASSUME p + MinSize <= cut
             PROVE  RuleChunkSize(sc, p, Available(size, p))
                      = After(sc, p, Available(size, p) - MinSize, cut - p - MinSize)
    BY DEF Reaches
<1> DEFINE a == Available(size, p)
           last == a - MinSize
           c == cut - p - MinSize
<1>1. /\ MinSize \in Nat /\ MinSize > 0 /\ a \in Nat /\ last \in Nat /\ last >= MinSize
      /\ c \in 0 .. (last - MinSize) /\ last - MinSize = a - 2 * MinSize
      /\ cut = p + MinSize + c /\ p + a - MinSize = p + last
  <2>1. MinSize \in Nat /\ MinSize > 0 /\ a \in Nat
    BY AvailableBounds
  <2>2. cut <= p + a - MinSize
    OBVIOUS
  <2> HIDE DEF a
  <2> QED
    BY <2>1, <2>2
<1>2. Scored(sc, p, last - MinSize)
    BY <1>1, AllScored
<1>3. /\ \A q \in (p + MinSize) .. (cut - 1) : sc[q] < sc[cut]
      /\ \A q \in (cut + 1) .. (p + last) : q < cut + MinSize => sc[q] <= sc[cut]
    BY <1>1
<1> HIDE DEF a, last, c
<1>4. StandsOut(sc, p, last - MinSize, c)
  <2>1. ASSUME NEW o \in 0 .. (c - 1) PROVE ScoreAt(sc, p, o) < ScoreAt(sc, p, c)
    <3>1. p + MinSize + o \in (p + MinSize) .. (cut - 1)
      BY <1>1
    <3> QED
      BY <1>1, <1>3, <3>1 DEF ScoreAt
  <2>2. ASSUME NEW o \in (c + 1) .. (last - MinSize), o < c + MinSize
        PROVE  ScoreAt(sc, p, o) <= ScoreAt(sc, p, c)
    <3>1. p + MinSize + o \in (cut + 1) .. (p + last) /\ p + MinSize + o < cut + MinSize
      BY <1>1, <2>2
    <3> QED
      BY <1>1, <1>3, <3>1 DEF ScoreAt
  <2> QED
    BY <1>1, <2>1, <2>2 DEF StandsOut
<1>5. SizesWithin(sc, p, last)[last] = After(sc, p, last, c)
    BY <1>1, <1>2, <1>4, PassesThrough
<1>6. RuleChunkSize(sc, p, a) = SizesWithin(sc, p, last)[last]
  <2>1. ~ (a < 2 * MinSize)
    BY <1>1
  <2> QED
    BY <2>1 DEF RuleChunkSize, last
<1> QED
    BY <1>5, <1>6 DEF a, last, c

\* From a cut that leaves room for another it goes on to the best one there.
LEMMA ReachesBefore ==
    ASSUME NEW size \in Nat, NEW sc \in [CutsOf(size) -> Nat],
           NEW p \in Nat, p <= size, NEW near \in Nat, NEW far \in Nat,
           Reaches(size, sc, p, far), far <= p + Available(size, p) - MinSize,
           near + MinSize <= far,
           \A q \in (p + MinSize) .. (far - MinSize) :
              sc[q] <= sc[near] /\ (q < near => sc[q] < sc[near])
    PROVE  Reaches(size, sc, p, near)
<1> SUFFICES ASSUME p + MinSize <= near
             PROVE  RuleChunkSize(sc, p, Available(size, p))
                      = After(sc, p, Available(size, p) - MinSize, near - p - MinSize)
    BY DEF Reaches
<1> DEFINE last == Available(size, p) - MinSize
           c == far - p - MinSize
           b == near - p - MinSize
<1>1. /\ MinSize \in Nat /\ MinSize > 0 /\ last \in Nat /\ last >= MinSize
      /\ last - MinSize = Available(size, p) - 2 * MinSize
      /\ c \in MinSize .. last /\ c <= last - MinSize
      /\ c - MinSize \in Nat /\ b \in 0 .. (c - MinSize)
      /\ near = p + MinSize + b /\ far - MinSize = p + MinSize + (c - MinSize)
      /\ p + MinSize <= far
  <2> DEFINE a == Available(size, p)
  <2>1. MinSize \in Nat /\ MinSize > 0 /\ a \in Nat /\ last = a - MinSize
    BY AvailableBounds
  <2>2. far <= p + a - MinSize
    OBVIOUS
  <2> HIDE DEF a, last
  <2> QED
    BY <2>1, <2>2 DEF c, b, a
<1>2. Scored(sc, p, last - MinSize)
    BY <1>1, AllScored
<1>3. RuleChunkSize(sc, p, Available(size, p)) = After(sc, p, last, c)
    BY <1>1 DEF Reaches
<1> HIDE DEF last, c, b
<1>4. After(sc, p, last, c) = SizesWithin(sc, p, last)[c]
    BY <1>1 DEF After
<1>5. Scored(sc, p, c - MinSize)
  <2>1. \A o \in 0 .. (c - MinSize) : o \in 0 .. (last - MinSize)
    BY <1>1
  <2> QED
    BY <1>2, <2>1 DEF Scored
<1>6. IsBest(sc, p, c - MinSize, b)
  <2>1. ASSUME NEW o \in 0 .. (c - MinSize)
        PROVE  /\ ScoreAt(sc, p, o) <= ScoreAt(sc, p, b)
               /\ o < b => ScoreAt(sc, p, o) < ScoreAt(sc, p, b)
    <3>1. /\ p + MinSize + o \in (p + MinSize) .. (far - MinSize)
          /\ o < b => p + MinSize + o < near
      BY <1>1
    <3> QED
      BY <1>1, <3>1 DEF ScoreAt
  <2>2. \A o \in 0 .. (b - 1) : o \in 0 .. (c - MinSize) /\ o < b
    BY <1>1
  <2> QED
    BY <1>1, <2>1, <2>2 DEF IsBest
<1>7. SizesWithin(sc, p, last)[c] = After(sc, p, last, b)
  <2>1. BestOffset(sc, p, c - MinSize) = b
    BY <1>1, <1>5, <1>6, BestIs
  <2> QED
    BY <1>1, <1>2, <2>1, Unfolds
<1> QED
    BY <1>3, <1>4, <1>7 DEF last, b

\* A cut that leaves no room for another is the end of the chunk.
LEMMA ReachesEnd ==
    ASSUME NEW size, NEW sc, NEW p \in Nat, NEW cut \in Nat, Reaches(size, sc, p, cut),
           p + MinSize <= cut, cut < p + 2 * MinSize
    PROVE  RuleChunkSize(sc, p, Available(size, p)) = cut - p
<1>1. MinSize \in Nat
    BY MinSizeAssumption
<1>2. cut - p - MinSize < MinSize /\ MinSize + (cut - p - MinSize) = cut - p
    BY <1>1
<1> QED
    BY <1>2 DEF Reaches, After

-----------------------------------------------------------------------------
\* The sizes of the chunks

\* Every search ends in a chunk of a legal size within the data it is given.
LEMMA SizesAreLegal ==
    ASSUME NEW sc, NEW start, NEW last \in Nat, last >= MinSize,
           Scored(sc, start, last - MinSize), NEW end \in MinSize .. last
    PROVE  /\ SizesWithin(sc, start, last)[end] \in MinSize .. (2 * MinSize - 1)
           /\ SizesWithin(sc, start, last)[end] <= end
<1> DEFINE sizes == SizesWithin(sc, start, last)
           legal(d) == sizes[d] \in MinSize .. (2 * MinSize - 1) /\ sizes[d] <= d
           bad == {d \in MinSize .. last : ~ legal(d)}
<1>1. MinSize \in Nat /\ MinSize > 0
    BY MinSizeAssumption
<1>2. bad = {}
  <2> SUFFICES ASSUME bad # {} PROVE FALSE
    OBVIOUS
  <2>1. PICK d \in bad : \A e \in bad : d <= e
    <3>1. bad \in SUBSET Nat
      BY <1>1
    <3> HIDE DEF bad
    <3> QED
      BY <3>1, LeastMember
  <2>2. d \in MinSize .. last /\ ~ legal(d)
    OBVIOUS
  <2> DEFINE best == BestOffset(sc, start, d - MinSize)
  <2>3. sizes[d] = After(sc, start, last, best)
    BY <1>1, <2>2, Unfolds
  <2>4. best \in 0 .. (d - MinSize)
    <3>1. d - MinSize \in Nat /\ Scored(sc, start, d - MinSize)
      <4>1. d - MinSize \in Nat /\ \A o \in 0 .. (d - MinSize) : o \in 0 .. (last - MinSize)
        BY <1>1, <2>2
      <4> QED
        BY <4>1 DEF Scored
    <3> QED
      BY <3>1, BestOffsetIsBest DEF IsBest
  <2> HIDE DEF best
  <2>5. best >= MinSize /\ sizes[d] = sizes[best]
    BY <1>1, <2>2, <2>3, <2>4 DEF After
  <2>6. best \in MinSize .. last /\ best < d
    BY <1>1, <2>2, <2>4, <2>5
  <2> HIDE DEF sizes
  <2>7. best \in bad
    BY <1>1, <2>2, <2>5, <2>6
  <2> HIDE DEF bad
  <2> QED
    BY <1>1, <2>1, <2>2, <2>6, <2>7
<1> QED
    BY <1>2

\* The search for the end of a chunk that two chunks are left for.
LEMMA RuleSizeIsSearched ==
    ASSUME NEW size \in Nat, NEW sc, \A q \in CutsOf(size) : sc[q] \in Nat,
           NEW p \in 0 .. (size - 1), 2 * MinSize <= Available(size, p)
    PROVE  LET last == Available(size, p) - MinSize
           IN  /\ last \in Nat /\ last >= MinSize /\ last \in MinSize .. last
               /\ Scored(sc, p, last - MinSize)
               /\ RuleSizes(size, sc)[p] = SizesWithin(sc, p, last)[last]
<1> DEFINE last == Available(size, p) - MinSize
           sizes == SizesWithin(sc, p, last)
<1>1. /\ MinSize \in Nat /\ MinSize > 0 /\ last \in Nat /\ last >= MinSize
      /\ last - MinSize = Available(size, p) - 2 * MinSize /\ p \in Nat /\ p <= size
  <2> DEFINE a == Available(size, p)
  <2>1. MinSize \in Nat /\ MinSize > 0 /\ a \in Nat /\ last = a - MinSize
    BY AvailableBounds
  <2>2. 2 * MinSize <= a
    OBVIOUS
  <2> HIDE DEF a, last
  <2> QED
    BY <2>1, <2>2 DEF a
<1>2. Scored(sc, p, last - MinSize)
    BY <1>1, AllScored
<1>3. RuleSizes(size, sc)[p] = sizes[last]
  <2> DEFINE a == Available(size, p)
  <2>1. a \in Nat /\ MinSize \in Nat /\ 2 * MinSize <= a
    BY <1>1, AvailableBounds
  <2> HIDE DEF a
  <2>2. ~ (a < 2 * MinSize)
    BY <2>1
  <2> QED
    BY <2>2 DEF RuleSizes, RuleChunkSize, a
<1> HIDE DEF last
<1>4. last \in MinSize .. last
    BY <1>1
<1> QED
    BY <1>1, <1>2, <1>3, <1>4 DEF last

\* Wherever two chunks fit, the chunk of the rule has MinSize to 2*MinSize - 1
\* bytes: ReadNextChunk of the simple reader stops at a cut that leaves no room
\* for another, and every search before it leaves some.
THEOREM RuleSizesAreLegal ==
    ASSUME NEW size \in Nat, NEW sc, \A q \in CutsOf(size) : sc[q] \in Nat,
           NEW p \in 0 .. (size - 1), 2 * MinSize <= Available(size, p)
    PROVE  RuleSizes(size, sc)[p] \in MinSize .. (2 * MinSize - 1)
BY RuleSizeIsSearched, SizesAreLegal

\* Every chunk has a byte at least and lies within the file.
LEMMA RuleSizesFit ==
    ASSUME NEW size \in Nat, NEW sc, \A q \in CutsOf(size) : sc[q] \in Nat,
           NEW p \in 0 .. (size - 1)
    PROVE  RuleSizes(size, sc)[p] \in 1 .. (size - p)
<1> DEFINE a == Available(size, p)
           s == RuleSizes(size, sc)[p]
<1>1. MinSize \in Nat /\ MinSize > 0 /\ Horizon \in Nat
    BY MinSizeAssumption, HorizonAssumption
<1>2. a \in 1 .. (size - p)
    BY <1>1 DEF Available, PeekSize
<1>3. s = RuleChunkSize(sc, p, a)
    BY DEF RuleSizes
<1>4. CASE a < 2 * MinSize
  <2>1. s = a
    BY <1>3, <1>4 DEF RuleChunkSize
  <2> HIDE DEF a, s
  <2> QED
    BY <1>2, <2>1 DEF s
<1>5. CASE ~ (a < 2 * MinSize)
  <2> DEFINE last == a - MinSize
  <2>1. /\ last \in Nat /\ last >= MinSize /\ last \in MinSize .. last
        /\ Scored(sc, p, last - MinSize) /\ s = SizesWithin(sc, p, last)[last]
    <3>1. 2 * MinSize <= a
      <4> HIDE DEF a
      <4> QED
        BY <1>1, <1>2, <1>5
    <3> QED
      BY <3>1, RuleSizeIsSearched
  <2>2. last = a - MinSize
    OBVIOUS
  <2> HIDE DEF a, last, s
  <2>3. s \in MinSize .. (2 * MinSize - 1) /\ s <= last
    BY <2>1, SizesAreLegal
  <2>4. s \in 1 .. (size - p)
    BY <1>1, <1>2, <2>1, <2>2, <2>3
  <2> QED
    BY <2>4 DEF s
<1> QED
    BY <1>4, <1>5

-----------------------------------------------------------------------------
\* Points that every reader cuts at

\* The point at cut exceeds the MinSize - 1 points before it, and the MinSize - 1
\* points after it do not exceed it.
IsPeak(sc, cut) ==
    /\ \A q \in (cut - (MinSize - 1)) .. (cut - 1) : sc[q] < sc[cut]
    /\ \A q \in (cut + 1) .. (cut + MinSize - 1) : sc[q] <= sc[cut]

\* No search that sees a peak leaves a chunk that ends between it and the last
\* point before it that leaves room for a chunk.
LEMMA SearchRespectsPeak ==
    ASSUME NEW sc, NEW p \in Nat, NEW last \in Nat, last >= MinSize,
           Scored(sc, p, last - MinSize),
           NEW cut \in Nat, p + MinSize <= cut, cut <= p + last, IsPeak(sc, cut),
           NEW end \in MinSize .. last, cut <= p + end
    PROVE  LET s == SizesWithin(sc, p, last)[end]
           IN  p + s = cut \/ p + s + MinSize <= cut
<1> DEFINE sizes == SizesWithin(sc, p, last)
           c == cut - p - MinSize
           ok(d) == p + sizes[d] = cut \/ p + sizes[d] + MinSize <= cut
           bad == {d \in MinSize .. last : cut <= p + d /\ ~ ok(d)}
<1>1. MinSize \in Nat /\ MinSize > 0 /\ c \in Nat /\ cut = p + MinSize + c
    BY MinSizeAssumption
<1>2. bad = {}
  <2> SUFFICES ASSUME bad # {} PROVE FALSE
    OBVIOUS
  <2>1. PICK d \in bad : \A e \in bad : d <= e
    <3>1. bad \in SUBSET Nat
      BY <1>1
    <3> HIDE DEF bad
    <3> QED
      BY <3>1, LeastMember
  <2>2. d \in MinSize .. last /\ cut <= p + d /\ ~ ok(d)
    OBVIOUS
  <2> DEFINE b == BestOffset(sc, p, d - MinSize)
  <2>3. sizes[d] = After(sc, p, last, b)
    BY <1>1, <2>2, Unfolds
  <2>4. IsBest(sc, p, d - MinSize, b)
    <3>1. d - MinSize \in Nat /\ Scored(sc, p, d - MinSize)
      <4>1. d - MinSize \in Nat /\ \A o \in 0 .. (d - MinSize) : o \in 0 .. (last - MinSize)
        BY <1>1, <2>2
      <4> QED
        BY <4>1 DEF Scored
    <3> QED
      BY <3>1, BestOffsetIsBest
  <2> HIDE DEF b, sizes, c
  <2>5. /\ b \in 0 .. (d - MinSize)
        /\ \A o \in 0 .. (d - MinSize) : ScoreAt(sc, p, o) <= ScoreAt(sc, p, b)
        /\ \A o \in 0 .. (b - 1) : ScoreAt(sc, p, o) < ScoreAt(sc, p, b)
    BY <2>4 DEF IsBest
  <2>6. /\ c \in 0 .. (d - MinSize)
        /\ \A o \in 0 .. (d - MinSize) :
              /\ ScoreAt(sc, p, o) \in Nat
              /\ c - MinSize < o /\ o < c => ScoreAt(sc, p, o) < ScoreAt(sc, p, c)
              /\ c < o /\ o < c + MinSize => ScoreAt(sc, p, o) <= ScoreAt(sc, p, c)
    <3>1. c \in 0 .. (d - MinSize)
      BY <1>1, <2>2
    <3>2. ASSUME NEW o \in 0 .. (d - MinSize)
          PROVE  /\ ScoreAt(sc, p, o) \in Nat
                 /\ c - MinSize < o /\ o < c => ScoreAt(sc, p, o) < ScoreAt(sc, p, c)
                 /\ c < o /\ o < c + MinSize => ScoreAt(sc, p, o) <= ScoreAt(sc, p, c)
      <4>1. o \in 0 .. (last - MinSize)
        BY <1>1, <2>2
      <4>2. ScoreAt(sc, p, o) \in Nat
        BY <4>1 DEF Scored
      <4>3. /\ c - MinSize < o /\ o < c =>
                   p + MinSize + o \in (cut - (MinSize - 1)) .. (cut - 1)
            /\ c < o /\ o < c + MinSize =>
                   p + MinSize + o \in (cut + 1) .. (cut + MinSize - 1)
        BY <1>1
      <4> QED
        BY <1>1, <4>2, <4>3 DEF IsPeak, ScoreAt
    <3> QED
      BY <3>1, <3>2
  <2> HIDE DEF bad, ok
  <2>7. b = c \/ b >= c + MinSize \/ b + MinSize <= c
    <3> DEFINE at(o) == ScoreAt(sc, p, o)
    <3>1. at(c) <= at(b) /\ at(b) \in Nat /\ at(c) \in Nat /\ b \in Nat /\ c \in Nat
      BY <1>1, <2>5, <2>6
    <3>2. c < b => at(c) < at(b)
      BY <1>1, <2>5, <3>1
    <3>3. c - MinSize < b /\ b < c => at(b) < at(c)
      BY <2>5, <2>6
    <3>4. c < b /\ b < c + MinSize => at(b) <= at(c)
      BY <2>5, <2>6
    <3> HIDE DEF at
    <3> QED
      BY <1>1, <3>1, <3>2, <3>3, <3>4
  <2>8. CASE b < MinSize
    <3>1. sizes[d] = MinSize + b
      BY <2>3, <2>8 DEF After
    <3> QED
      BY <1>1, <2>2, <2>5, <2>7, <2>8, <3>1 DEF ok
  <2>9. CASE b >= MinSize
    <3>1. sizes[d] = sizes[b] /\ b \in MinSize .. last /\ b < d
      BY <1>1, <2>2, <2>3, <2>5, <2>9 DEF After, sizes
    <3>2. CASE b >= c + MinSize
      <4>1. cut <= p + b /\ ~ ok(b)
        BY <1>1, <2>2, <3>1, <3>2 DEF ok
      <4>2. b \in bad
        BY <3>1, <4>1 DEF bad
      <4> QED
        BY <1>1, <2>1, <2>2, <3>1, <4>2
    <3>3. CASE b <= c
      <4>1. sizes[b] <= b /\ sizes[b] \in Nat
        BY <1>1, <3>1, SizesAreLegal DEF sizes
      <4>2. p + sizes[d] + MinSize <= cut
        BY <1>1, <2>5, <3>1, <3>3, <4>1
      <4> QED
        BY <2>2, <4>2 DEF ok
    <3> QED
      BY <1>1, <2>5, <2>7, <3>2, <3>3
  <2> QED
    BY <1>1, <2>5, <2>8, <2>9
<1> QED
    BY <1>2

\* A reader that may still cut at a peak does so, or cuts where it still may:
\* either it sees the peak, or its horizon keeps it from getting too close.
THEOREM ChunkRespectsPeak ==
    ASSUME Horizon >= 2 * (MinSize - 1),
           NEW size \in Nat, NEW sc, \A q \in CutsOf(size) : sc[q] \in Nat,
           NEW cut \in Nat, cut + MinSize <= size, IsPeak(sc, cut),
           NEW p \in Nat, p + MinSize <= cut
    PROVE  LET s == RuleSizes(size, sc)[p]
           IN  s \in Nat /\ s > 0 /\ (p + s = cut \/ p + s + MinSize <= cut)
<1> DEFINE a == Available(size, p)
           last == a - MinSize
           s == RuleSizes(size, sc)[p]
<1>1. MinSize \in Nat /\ MinSize > 0 /\ Horizon \in Nat
    BY MinSizeAssumption, HorizonAssumption
<1>2. /\ a \in Nat /\ p + a <= size /\ 2 * MinSize <= a
      /\ a = 2 * MinSize + Horizon \/ p + a = size
    BY <1>1 DEF Available, PeekSize
<1>3. p \in 0 .. (size - 1)
    BY <1>1
<1>4. /\ last \in Nat /\ last >= MinSize /\ last \in MinSize .. last
      /\ Scored(sc, p, last - MinSize) /\ s = SizesWithin(sc, p, last)[last]
    BY <1>2, <1>3, RuleSizeIsSearched
<1>5. s \in MinSize .. (2 * MinSize - 1)
    BY <1>2, <1>3, RuleSizesAreLegal
<1>6. CASE cut <= p + last
  <2>1. p + s = cut \/ p + s + MinSize <= cut
    <3> HIDE DEF a, last, s
    <3> QED
      BY <1>4, <1>6, SearchRespectsPeak
  <2>2. s \in Nat /\ s > 0
    <3> HIDE DEF s
    <3> QED
      BY <1>1, <1>5
  <2> QED
    BY <2>1, <2>2
<1>7. CASE ~ (cut <= p + last)
  <2>1. last = a - MinSize
    OBVIOUS
  <2> HIDE DEF a, last, s
  <2>2. a = 2 * MinSize + Horizon
    BY <1>1, <1>2, <1>7, <2>1
  <2>3. last = MinSize + Horizon
    BY <1>1, <2>1, <2>2
  <2>4. Horizon >= 2 * MinSize - 2
    BY <1>1
  <2>5. s \in Nat /\ s > 0 /\ p + s + MinSize <= cut
    BY <1>1, <1>5, <1>7, <2>3, <2>4
  <2> QED
    BY <2>5 DEF s
<1> QED
    BY <1>6, <1>7

-----------------------------------------------------------------------------
\* Boundaries

\* Those after p: the end of the chunk at p, and those after that end.
LEMMA BoundariesUnfold ==
    ASSUME NEW size \in Nat, NEW scores,
           \A p \in 0 .. (size - 1) : RuleSizes(size, scores)[p] \in 1 .. (size - p)
    PROVE  /\ BoundariesAfter(size, scores)[size] = {}
           /\ \A p \in 0 .. (size - 1) :
                 LET q == p + RuleSizes(size, scores)[p]
                 IN  BoundariesAfter(size, scores)[p] = {q} \cup BoundariesAfter(size, scores)[q]
<1> DEFINE sizeAt == RuleSizes(size, scores)
           next(p) == p + sizeAt[p]
           Body(f, p) == IF p = size THEN {} ELSE LET q == p + sizeAt[p] IN {q} \cup f[q]
           Closed(p, S) == \A x \in S \cup {p} : x # size => next(x) \in S
           f0 == [p \in 0 .. size |->
                     {q \in 0 .. size : \A S \in SUBSET (0 .. size) : Closed(p, S) => q \in S}]
           from == CHOOSE f : f = [p \in 0 .. size |-> Body(f, p)]
<1>1. BoundariesAfter(size, scores) = from
    BY DEF BoundariesAfter
<1>2. \A p \in 0 .. size : p # size => next(p) \in 0 .. size
  <2> SUFFICES ASSUME NEW p \in 0 .. size, p # size PROVE next(p) \in 0 .. size
    OBVIOUS
  <2>1. p \in 0 .. (size - 1)
    OBVIOUS
  <2>2. sizeAt[p] \in 1 .. (size - p)
    BY <2>1
  <2> HIDE DEF sizeAt
  <2> QED
    BY <2>1, <2>2
<1> HIDE DEF next, from
<1>3. ASSUME NEW p \in 0 .. size PROVE f0[p] = Body(f0, p)
  <2>1. CASE p = size
    <3>1. Closed(p, {})
      BY <2>1
    <3>2. f0[p] = {}
      BY <3>1
    <3> QED
      BY <2>1, <3>2
  <2>2. CASE p # size
    <3> DEFINE n == next(p)
    <3>1. n \in 0 .. size
      BY <1>2, <2>2
    <3>2. ASSUME NEW S \in SUBSET (0 .. size), Closed(p, S) PROVE n \in S /\ Closed(n, S)
      BY <2>2, <3>2
    <3>3. ASSUME NEW S \in SUBSET (0 .. size), Closed(n, S) PROVE Closed(p, S \cup {n})
      BY <2>2, <3>3
    <3> HIDE DEF Closed, n
    <3>4. ASSUME NEW q \in f0[p], q # n PROVE q \in f0[n]
      <4>1. q \in 0 .. size
        BY <3>4
      <4>2. ASSUME NEW S \in SUBSET (0 .. size), Closed(n, S) PROVE q \in S
        <5>1. S \cup {n} \in SUBSET (0 .. size) /\ Closed(p, S \cup {n})
          BY <3>1, <3>3, <4>2
        <5> QED
          BY <3>4, <5>1
      <4> QED
        BY <3>1, <4>1, <4>2
    <3>5. n \in f0[p]
      BY <3>1, <3>2
    <3>6. ASSUME NEW q \in f0[n] PROVE q \in f0[p]
      BY <3>1, <3>2, <3>6
    <3>7. f0[p] = {n} \cup f0[n]
      <4> HIDE DEF f0
      <4> QED
        BY <3>4, <3>5, <3>6
    <3> QED
      BY <2>2, <3>7 DEF n, next
  <2> QED
    BY <2>1, <2>2
<1>4. f0 = [p \in 0 .. size |-> Body(f0, p)]
  <2> DEFINE g == [p \in 0 .. size |-> Body(f0, p)]
  <2>1. \A p \in 0 .. size : f0[p] = g[p]
    <3> HIDE DEF f0, Body
    <3> QED
      BY <1>3
  <2>2. f0 = [p \in 0 .. size |-> f0[p]] /\ g = [p \in 0 .. size |-> g[p]]
    OBVIOUS
  <2> HIDE DEF f0, g
  <2>3. f0 = g
    BY <2>1, <2>2
  <2> QED
    BY <2>3 DEF g
<1>5. from = [p \in 0 .. size |-> Body(from, p)]
  <2> HIDE DEF f0, Body
  <2> QED
    BY <1>4 DEF from
<1>6. \A p \in 0 .. (size - 1) : from[p] = Body(from, p) /\ p # size
  <2> HIDE DEF Body
  <2>1. \A p \in 0 .. (size - 1) : p \in 0 .. size /\ p # size
    OBVIOUS
  <2> QED
    BY <1>5, <2>1
<1>7. from[size] = {}
  <2>1. size \in 0 .. size
    OBVIOUS
  <2> QED
    BY <1>5, <2>1
<1> QED
    BY <1>1, <1>6, <1>7

\* A point that no chunk passes over or ends too close to is a boundary.
LEMMA IsBoundary ==
    ASSUME NEW size \in Nat, NEW scores,
           \A p \in 0 .. (size - 1) : RuleSizes(size, scores)[p] \in 1 .. (size - p),
           NEW cut \in Nat, MinSize <= cut, cut <= size,
           \A p \in 0 .. (cut - MinSize) :
              LET s == RuleSizes(size, scores)[p]
              IN  p + s = cut \/ p + s + MinSize <= cut
    PROVE  cut \in Boundaries(size, scores)
<1>1. MinSize \in Nat /\ MinSize > 0
    BY MinSizeAssumption
<1> DEFINE from == BoundariesAfter(size, scores)
<1>2. /\ Boundaries(size, scores) = from[0]
      /\ \A p \in 0 .. (size - 1) :
            from[p] = {p + RuleSizes(size, scores)[p]}
                        \cup from[p + RuleSizes(size, scores)[p]]
    BY BoundariesUnfold DEF Boundaries
<1> HIDE DEF from
<1> DEFINE bad == {d \in MinSize .. cut : cut \notin from[cut - d]}
<1>3. bad = {}
  <2> SUFFICES ASSUME bad # {} PROVE FALSE
    OBVIOUS
  <2>1. PICK d \in bad : \A e \in bad : d <= e
    <3>1. bad \in SUBSET Nat
      BY <1>1
    <3> HIDE DEF bad
    <3> QED
      BY <1>1, <3>1, LeastMember
  <2> DEFINE p == cut - d
             s == RuleSizes(size, scores)[p]
  <2>2. /\ d \in MinSize .. cut /\ cut \notin from[p]
        /\ p \in 0 .. (cut - MinSize) /\ p \in 0 .. (size - 1)
    BY <1>1
  <2>3. /\ s \in 1 .. (size - p) /\ (p + s = cut \/ p + s + MinSize <= cut)
        /\ from[p] = {p + s} \cup from[p + s]
    BY <1>2, <2>2
  <2>4. d = cut - p
    BY <2>2
  <2> HIDE DEF s, p
  <2>5. p + s # cut /\ cut \notin from[p + s]
    BY <2>2, <2>3
  <2>6. cut - (p + s) \in MinSize .. cut /\ cut - (cut - (p + s)) = p + s
        /\ ~ (d <= cut - (p + s))
    BY <1>1, <2>2, <2>3, <2>4, <2>5
  <2>7. cut - (p + s) \in bad
    BY <2>5, <2>6
  <2> HIDE DEF bad
  <2> QED
    BY <2>1, <2>6, <2>7
<1>4. cut \in MinSize .. cut /\ cut - cut = 0
    BY <1>1
<1> QED
    BY <1>2, <1>3, <1>4

\* The boundaries after a boundary are boundaries, and come after it.
LEMMA BoundariesFollow ==
    ASSUME NEW size \in Nat, NEW sc, \A q \in CutsOf(size) : sc[q] \in Nat,
           NEW p \in 0 .. size, NEW q \in BoundariesAfter(size, sc)[p]
    PROVE  /\ q \in (p + 1) .. size
           /\ BoundariesAfter(size, sc)[q] \subseteq BoundariesAfter(size, sc)[p]
<1> DEFINE from == BoundariesAfter(size, sc)
           sizes == RuleSizes(size, sc)
           ok(x, y) == y \in (x + 1) .. size /\ from[y] \subseteq from[x]
           bad == {d \in 0 .. size : \E y \in from[size - d] : ~ ok(size - d, y)}
<1>1. \A x \in 0 .. (size - 1) : sizes[x] \in 1 .. (size - x)
    BY RuleSizesFit
<1>2. /\ from[size] = {}
      /\ \A x \in 0 .. (size - 1) : from[x] = {x + sizes[x]} \cup from[x + sizes[x]]
    BY <1>1, BoundariesUnfold
<1> HIDE DEF from, sizes
<1>3. bad = {}
  <2> SUFFICES ASSUME bad # {} PROVE FALSE
    OBVIOUS
  <2>1. PICK d \in bad : \A e \in bad : d <= e
    <3>1. bad \in SUBSET Nat
      OBVIOUS
    <3> HIDE DEF bad
    <3> QED
      BY <3>1, LeastMember
  <2>2. PICK y \in from[size - d] : ~ ok(size - d, y)
    OBVIOUS
  <2>3. d \in 0 .. size /\ d # 0
    BY <1>2, <2>2
  <2> DEFINE x == size - d
             n == x + sizes[x]
  <2>4. x \in 0 .. (size - 1) /\ d = size - x
    BY <2>3
  <2> HIDE DEF x
  <2>5. /\ n \in (x + 1) .. size /\ from[x] = {n} \cup from[n]
    BY <1>1, <1>2, <2>4
  <2> HIDE DEF n
  <2>6. size - n \in 0 .. size /\ size - (size - n) = n /\ ~ (d <= size - n)
    BY <2>4, <2>5
  <2>7. \A z \in from[n] : ok(n, z)
    <3>1. size - n \notin bad
      BY <2>1, <2>6
    <3> QED
      BY <2>6, <3>1
  <2>8. ok(x, y)
    <3>1. CASE y = n
      BY <2>5, <3>1
    <3>2. CASE y \in from[n]
      BY <2>4, <2>5, <2>7, <3>2
    <3> QED
      BY <2>2, <2>4, <2>5, <3>1, <3>2 DEF x
  <2> QED
    BY <2>2, <2>8 DEF x
<1>4. size - p \in 0 .. size /\ size - (size - p) = p
    OBVIOUS
<1>5. \A y \in from[p] : ok(p, y)
    BY <1>3, <1>4
<1> QED
    BY <1>5 DEF from

\* Every reader of a file cuts it at each of its peaks, wherever it begins.
THEOREM PeakIsBoundary ==
    ASSUME Horizon >= 2 * (MinSize - 1),
           NEW size \in Nat, NEW sc, \A q \in CutsOf(size) : sc[q] \in Nat,
           NEW cut \in Nat, MinSize <= cut, cut + MinSize <= size, IsPeak(sc, cut)
    PROVE  cut \in Boundaries(size, sc)
<1>1. MinSize \in Nat /\ MinSize > 0 /\ cut <= size
    BY MinSizeAssumption
<1>2. \A p \in 0 .. (size - 1) : RuleSizes(size, sc)[p] \in 1 .. (size - p)
    BY RuleSizesFit
<1>3. ASSUME NEW p \in 0 .. (cut - MinSize)
      PROVE  LET s == RuleSizes(size, sc)[p]
             IN  p + s = cut \/ p + s + MinSize <= cut
  <2>1. p \in Nat /\ p + MinSize <= cut
    BY <1>1
  <2> QED
    BY <2>1, ChunkRespectsPeak
<1> QED
    BY <1>1, <1>2, <1>3, IsBoundary

=============================================================================
