------------------------- MODULE RepMaxHashes_proofs -------------------------
(***************************************************************************)
(* Proofs about the hashes of RepMaxCDC, for every width of an integer,    *)
(* Gear table, base and window: what the hash of a window becomes when a   *)
(* byte enters it; that all the scanners of a reader find the same         *)
(* candidates, the cuts whose windows have the highest scores so far; and  *)
(* that the streaming hash holds the last bytes in its ring, is their      *)
(* hash, and ends its scans where it should, however bytes are handed in.  *)
(***************************************************************************)
EXTENDS RepMaxHashes, SequenceTheorems, WellFoundedInduction, TLAPS

\* A set of natural numbers has a smallest member.
LEMMA LeastMember ==
    ASSUME NEW S \in SUBSET Nat, S # {}
    PROVE  \E x \in S : \A y \in S : x <= y
<1> DEFINE R == OpToRel(<, Nat)
<1>1. IsWellFoundedOn(R, Nat)
    BY NatLessThanWellFounded
<1>2. \A x, y \in Nat : <<y, x>> \in R <=> y < x
    BY DEF OpToRel
<1> HIDE DEF R
<1>3. PICK x \in S : \A y \in S : ~ (<<y, x>> \in R)
    BY <1>1, WFMin
<1>4. ASSUME NEW y \in S PROVE x <= y
  <2>1. x \in Nat /\ y \in Nat /\ ~ (y < x)
    BY <1>2, <1>3
  <2> QED
    BY <2>1
<1> QED
    BY <1>4

-----------------------------------------------------------------------------
\* Powers

\* A function that satisfies the recursion of the powers of a number up to n.
Powers(c, n, f) == f[0] = 1 /\ \A j \in 0 .. (n - 1) : f[j + 1] = c * f[j]

LEMMA PowersExist == ASSUME NEW c PROVE \A n \in Nat : \E f : Powers(c, n, f)
<1> DEFINE bad == {n \in Nat : ~ \E f : Powers(c, n, f)}
<1> SUFFICES ASSUME bad # {} PROVE FALSE
    OBVIOUS
<1>1. PICK n \in bad : \A m \in bad : n <= m
  <2>1. bad \in SUBSET Nat
    OBVIOUS
  <2> HIDE DEF bad
  <2> QED
    BY <2>1, LeastMember
<1>2. n # 0
  <2>1. Powers(c, 0, [j \in {0} |-> 1])
    BY DEF Powers
  <2> QED
    BY <1>1, <2>1
<1>3. n - 1 \in Nat /\ n - 1 \notin bad
  <2>1. n - 1 \in Nat /\ ~ (n <= n - 1)
    BY <1>1, <1>2
  <2> QED
    BY <1>1, <2>1
<1>4. PICK g : Powers(c, n - 1, g)
    BY <1>3
<1> DEFINE h == [j \in 0 .. n |-> IF j = n THEN c * g[n - 1] ELSE g[j]]
<1>5. Powers(c, n, h)
  <2>1. h[0] = 1
    BY <1>1, <1>2, <1>4 DEF Powers
  <2>2. ASSUME NEW j \in 0 .. (n - 1) PROVE h[j + 1] = c * h[j]
    <3>1. CASE j = n - 1
      BY <1>1, <3>1
    <3>2. CASE j # n - 1
      <4>1. j \in 0 .. (n - 1 - 1) /\ j + 1 # n /\ j # n /\ j \in 0 .. n /\ j + 1 \in 0 .. n
        BY <1>1, <3>2
      <4>2. h[j + 1] = g[j + 1] /\ h[j] = g[j]
        BY <4>1
      <4>3. g[j + 1] = c * g[j]
        BY <1>4, <4>1 DEF Powers
      <4> HIDE DEF h
      <4> QED
        BY <4>2, <4>3
    <3> QED
      BY <3>1, <3>2
  <2> HIDE DEF h
  <2> QED
    BY <2>1, <2>2 DEF Powers
<1> QED
    BY <1>1, <1>5
\* Two such functions agree as far as both go.
LEMMA PowersAgree ==
    ASSUME NEW c, NEW n \in Nat, NEW f, Powers(c, n, f), NEW g, Powers(c, n + 1, g)
    PROVE  g[n] = f[n]
<1> DEFINE bad == {j \in 0 .. n : g[j] # f[j]}
<1> SUFFICES ASSUME bad # {} PROVE FALSE
    OBVIOUS
<1>1. PICK j \in bad : \A m \in bad : j <= m
  <2>1. bad \in SUBSET Nat
    OBVIOUS
  <2> HIDE DEF bad
  <2> QED
    BY <2>1, LeastMember
<1>2. j # 0
    BY <1>1 DEF Powers
<1>3. j - 1 \in 0 .. n /\ j - 1 \notin bad
  <2>1. j - 1 \in 0 .. n /\ ~ (j <= j - 1)
    BY <1>1, <1>2
  <2> QED
    BY <1>1, <2>1
<1>4. j - 1 \in 0 .. (n - 1) /\ j - 1 \in 0 .. (n + 1 - 1) /\ j = (j - 1) + 1
    BY <1>1, <1>2
<1>5. f[j] = c * f[j - 1] /\ g[j] = c * g[j - 1]
    BY <1>4 DEF Powers
<1>6. g[j - 1] = f[j - 1]
    BY <1>3
<1> QED
    BY <1>1, <1>5, <1>6
\* The function that the recursion defines is the powers.
LEMMA PowersRecur ==
    ASSUME NEW c \in Int, NEW G,
           G = CHOOSE g : g = [n \in Nat |-> IF n = 0 THEN 1 ELSE c * g[n - 1]]
    PROVE  G[0] = 1 /\ \A n \in Nat : G[n + 1] = c * G[n]
<1> DEFINE f(n) == CHOOSE f : Powers(c, n, f)
           F == [n \in Nat |-> f(n)[n]]
           Body(g, n) == IF n = 0 THEN 1 ELSE c * g[n - 1]
<1>1. \A n \in Nat : Powers(c, n, f(n))
    BY PowersExist
<1> HIDE DEF f
<1>2. F[0] = 1
    BY <1>1 DEF Powers
<1>3. ASSUME NEW n \in Nat PROVE F[n + 1] = c * F[n]
  <2>1. Powers(c, n, f(n)) /\ Powers(c, n + 1, f(n + 1))
    BY <1>1
  <2>2. f(n + 1)[n] = f(n)[n]
    BY <2>1, PowersAgree
  <2>3. f(n + 1)[n + 1] = c * f(n + 1)[n]
    <3>1. n \in 0 .. (n + 1 - 1)
      OBVIOUS
    <3> QED
      BY <2>1, <3>1 DEF Powers
  <2> QED
    BY <2>2, <2>3
<1>4. F = [n \in Nat |-> Body(F, n)]
  <2>1. ASSUME NEW n \in Nat PROVE F[n] = Body(F, n)
    <3>1. CASE n = 0
      BY <1>2, <3>1
    <3>2. CASE n # 0
      <4>1. n - 1 \in Nat /\ n = (n - 1) + 1
        BY <3>2
      <4>2. F[n] = c * F[n - 1]
        BY <1>3, <4>1
      <4> HIDE DEF F
      <4> QED
        BY <3>2, <4>2
    <3> QED
      BY <3>1, <3>2
  <2> HIDE DEF Body
  <2> QED
    BY <2>1
<1>5. G = [n \in Nat |-> Body(G, n)]
  <2>1. G = CHOOSE g : g = [n \in Nat |-> Body(g, n)]
    OBVIOUS
  <2> HIDE DEF F, Body
  <2> QED
    BY <1>4, <2>1
<1>6. \A n \in Nat : G[n] = Body(G, n)
  <2> HIDE DEF Body
  <2> QED
    BY <1>5
<1>7. ASSUME NEW n \in Nat PROVE G[n + 1] = c * G[n]
  <2>1. n + 1 \in Nat /\ n + 1 # 0 /\ n + 1 - 1 = n
    OBVIOUS
  <2> QED
    BY <1>6, <2>1
<1> QED
    BY <1>6, <1>7

LEMMA TwoToDoubles ==
    TwoTo[0] = 1 /\ \A n \in Nat : TwoTo[n + 1] = 2 * TwoTo[n]
<1>1. TwoTo = CHOOSE g : g = [n \in Nat |-> IF n = 0 THEN 1 ELSE 2 * g[n - 1]]
    BY DEF TwoTo
<1> QED
    BY <1>1, PowersRecur

LEMMA BaseToGrows ==
    BaseTo[0] = 1 /\ \A n \in Nat : BaseTo[n + 1] = Base * BaseTo[n]
<1>1. BaseTo = CHOOSE g : g = [n \in Nat |-> IF n = 0 THEN 1 ELSE Base * g[n - 1]]
    BY DEF BaseTo
<1>2. Base \in Int
    BY PolynomialAssumption
<1> QED
    BY <1>1, <1>2, PowersRecur

LEMMA TwoToIsPositive == \A n \in Nat : TwoTo[n] \in Nat /\ TwoTo[n] > 0
<1> DEFINE bad == {n \in Nat : ~ (TwoTo[n] \in Nat /\ TwoTo[n] > 0)}
<1> SUFFICES ASSUME bad # {} PROVE FALSE
    OBVIOUS
<1>1. PICK n \in bad : \A m \in bad : n <= m
  <2>1. bad \in SUBSET Nat
    OBVIOUS
  <2> HIDE DEF bad
  <2> QED
    BY <2>1, LeastMember
<1>2. n # 0
    BY <1>1, TwoToDoubles
<1>3. n - 1 \in Nat /\ n - 1 \notin bad /\ n = (n - 1) + 1
  <2>1. n - 1 \in Nat /\ ~ (n <= n - 1) /\ n = (n - 1) + 1
    BY <1>1, <1>2
  <2> QED
    BY <1>1, <2>1
<1>4. TwoTo[n - 1] \in Nat /\ TwoTo[n - 1] > 0 /\ TwoTo[n] = 2 * TwoTo[n - 1]
    BY <1>3, TwoToDoubles
<1> QED
    BY <1>1, <1>4

\* A product is a number, and takes one factor at a time.
LEMMA ProductAdds ==
    ASSUME NEW c \in Int, NEW x \in Int, NEW y \in Int
    PROVE  /\ c * x \in Int
           /\ c * (x + y) = c * x + c * y
           /\ c * x = x * c
           /\ c * (x + 1) = c * x + c
OBVIOUS

LEMMA ProductIsNatural ==
    ASSUME NEW c \in Nat, NEW x \in Nat
    PROVE  c * x \in Nat
OBVIOUS

LEMMA BaseToIsNatural ==
    ASSUME Base \in Nat
    PROVE  \A n \in Nat : BaseTo[n] \in Nat
<1> DEFINE bad == {n \in Nat : BaseTo[n] \notin Nat}
<1> SUFFICES ASSUME bad # {} PROVE FALSE
    OBVIOUS
<1>1. PICK n \in bad : \A m \in bad : n <= m
  <2>1. bad \in SUBSET Nat
    OBVIOUS
  <2> HIDE DEF bad
  <2> QED
    BY <2>1, LeastMember
<1>2. n # 0
    BY <1>1, BaseToGrows
<1>3. n - 1 \in Nat /\ n - 1 \notin bad /\ n = (n - 1) + 1
  <2>1. n - 1 \in Nat /\ ~ (n <= n - 1) /\ n = (n - 1) + 1
    BY <1>1, <1>2
  <2> QED
    BY <1>1, <2>1
<1>4. BaseTo[n - 1] \in Nat /\ BaseTo[n] = Base * BaseTo[n - 1]
    BY <1>3, BaseToGrows
<1>5. BaseTo[n] \in Nat
    BY <1>4, ProductIsNatural
<1> QED
    BY <1>1, <1>5

-----------------------------------------------------------------------------
\* Numbers modulo a power of two

\* Division with a remainder, of natural numbers and of integers.
LEMMA NaturalDivision ==
    ASSUME NEW m \in Nat, m > 0, NEW a \in Nat
    PROVE  \E q \in Nat, r \in 0 .. (m - 1) : a = m * q + r
<1> DEFINE divides(n) == \E q \in Nat, r \in 0 .. (m - 1) : n = m * q + r
           bad == {n \in Nat : ~ divides(n)}
<1> SUFFICES ASSUME bad # {} PROVE FALSE
    OBVIOUS
<1>1. PICK n \in bad : \A x \in bad : n <= x
  <2>1. bad \in SUBSET Nat
    OBVIOUS
  <2> HIDE DEF bad
  <2> QED
    BY <2>1, LeastMember
<1>2. n >= m
  <2> SUFFICES ASSUME n < m PROVE FALSE
    BY <1>1
  <2>1. n \in 0 .. (m - 1) /\ m * 0 = 0 /\ n = 0 + n
    BY <1>1
  <2>2. divides(n)
    BY <2>1
  <2> QED
    BY <1>1, <2>2
<1>3. n - m \in Nat /\ divides(n - m)
  <2>1. n - m \in Nat /\ ~ (n <= n - m)
    BY <1>1, <1>2
  <2> QED
    BY <1>1, <2>1
<1>4. PICK q \in Nat, r \in 0 .. (m - 1) : n - m = m * q + r
    BY <1>3
<1>5. m * (q + 1) = m * q + m /\ m * q \in Int
    BY ProductAdds
<1>6. n = m * (q + 1) + r
  <2> DEFINE p == m * q
             t == m * (q + 1)
  <2>1. t = p + m /\ p \in Int /\ n - m = p + r
    BY <1>4, <1>5
  <2> HIDE DEF p, t
  <2>2. n = t + r
    BY <1>1, <2>1
  <2> QED
    BY <2>2 DEF t
<1>7. divides(n)
  <2>1. q + 1 \in Nat /\ r \in 0 .. (m - 1)
    OBVIOUS
  <2> QED
    BY <1>6, <2>1
<1> QED
    BY <1>1, <1>7

LEMMA Division ==
    ASSUME NEW m \in Nat, m > 0, NEW a \in Int
    PROVE  \E q \in Int, r \in 0 .. (m - 1) : a = m * q + r
<1>1. CASE a >= 0
    BY <1>1, NaturalDivision
<1>2. CASE a < 0
  <2>0. 0 - a \in Nat
    BY <1>2
  <2>1. PICK q \in Nat, r \in 0 .. (m - 1) : 0 - a = m * q + r
    BY <2>0, NaturalDivision
  <2> DEFINE p == m * q
  <2>2. p \in Int /\ m * (0 - q) = 0 - p /\ m * (0 - q - 1) = 0 - p - m
    OBVIOUS
  <2>3. 0 - a = p + r
    BY <2>1
  <2> HIDE DEF p
  <2>4. CASE r = 0
    <3>1. a = m * (0 - q) + 0 /\ 0 - q \in Int /\ 0 \in 0 .. (m - 1)
      BY <2>2, <2>3, <2>4
    <3> QED
      BY <3>1
  <2>5. CASE r # 0
    <3>1. a = m * (0 - q - 1) + (m - r) /\ 0 - q - 1 \in Int /\ m - r \in 0 .. (m - 1)
      BY <2>2, <2>3, <2>5
    <3> QED
      BY <3>1
  <2> QED
    BY <2>4, <2>5
<1> QED
    BY <1>1, <1>2

\* The remainder is the one that % computes.
LEMMA Remainder ==
    ASSUME NEW m \in Nat, m > 0, NEW q \in Int, NEW r \in 0 .. (m - 1)
    PROVE  (m * q + r) % m = r
OBVIOUS

Modulus == TwoTo[Width]

LEMMA ModulusIsPositive == Modulus \in Nat /\ Modulus > 0
BY TwoToIsPositive, WidthAssumption DEF Modulus

\* Numbers that wrapping does not tell apart.
Same(a, b) == \E q \in Int : a = b + Modulus * q

LEMMA SameItself == ASSUME NEW a \in Int PROVE Same(a, a)
<1>1. Modulus * 0 = 0 /\ a = a + 0
    BY ModulusIsPositive
<1> QED
    BY <1>1 DEF Same

LEMMA SameAsWrapped ==
    ASSUME NEW a \in Int
    PROVE  Wrap(a) \in 0 .. (Modulus - 1) /\ Wrap(a) \in Nat /\ Same(Wrap(a), a)
<1>1. Modulus \in Nat /\ Modulus > 0
    BY ModulusIsPositive
<1>2. PICK q \in Int, r \in 0 .. (Modulus - 1) : a = Modulus * q + r
    BY <1>1, Division
<1>3. (Modulus * q + r) % Modulus = r
    BY <1>1, Remainder
<1>4. Wrap(a) = r
    BY <1>2, <1>3 DEF Wrap, Modulus
<1>5. r = a + Modulus * (0 - q) /\ 0 - q \in Int
  <2> DEFINE p == Modulus * q
  <2>1. p \in Int /\ Modulus * (0 - q) = 0 - p /\ a = p + r
    BY <1>1, <1>2
  <2> HIDE DEF p
  <2> QED
    BY <1>1, <2>1
<1> QED
    BY <1>1, <1>4, <1>5 DEF Same

LEMMA SameTurns == ASSUME NEW a \in Int, NEW b \in Int, Same(a, b) PROVE Same(b, a)
<1>1. PICK q \in Int : a = b + Modulus * q
    BY DEF Same
<1> DEFINE p == Modulus * q
<1>2. p \in Int /\ Modulus * (0 - q) = 0 - p /\ a = b + p
    BY <1>1, ModulusIsPositive
<1> HIDE DEF p
<1>3. b = a + Modulus * (0 - q) /\ 0 - q \in Int
    BY <1>2
<1> QED
    BY <1>3 DEF Same

LEMMA SameAdds ==
    ASSUME NEW a \in Int, NEW b \in Int, NEW c \in Int, NEW d \in Int, Same(a, b), Same(c, d)
    PROVE  Same(a + c, b + d) /\ Same(a - c, b - d)
<1>1. PICK q \in Int : a = b + Modulus * q
    BY DEF Same
<1>2. PICK r \in Int : c = d + Modulus * r
    BY DEF Same
<1> DEFINE x == Modulus * q
           y == Modulus * r
<1>3. /\ x \in Int /\ y \in Int /\ a = b + x /\ c = d + y
      /\ Modulus * (q + r) = x + y /\ Modulus * (q - r) = x - y
    BY <1>1, <1>2, ModulusIsPositive
<1> HIDE DEF x, y
<1>4. /\ a + c = b + d + Modulus * (q + r) /\ q + r \in Int
      /\ a - c = b - d + Modulus * (q - r) /\ q - r \in Int
    BY <1>3
<1> QED
    BY <1>4 DEF Same

LEMMA SameTimes ==
    ASSUME NEW a \in Int, NEW b \in Int, NEW c \in Int, Same(a, b)
    PROVE  Same(a * c, b * c) /\ Same(c * a, c * b)
<1>1. PICK q \in Int : a = b + Modulus * q
    BY DEF Same
<1> DEFINE x == Modulus * q
           y == q * c
<1>2. x \in Int /\ y \in Int /\ a = b + x /\ Modulus \in Int
    BY <1>1, ModulusIsPositive
<1>3. x * c = Modulus * y /\ Modulus * y \in Int
    BY <1>2
<1> HIDE DEF x, y
<1>4. a * c = b * c + x * c /\ a * c = c * a /\ b * c = c * b
    BY <1>2
<1> QED
    BY <1>2, <1>3, <1>4 DEF Same

\* They wrap to the same number.
LEMMA WrapSame ==
    ASSUME NEW a \in Int, NEW b \in Int, Same(a, b)
    PROVE  Wrap(a) = Wrap(b)
<1>1. Modulus \in Nat /\ Modulus > 0
    BY ModulusIsPositive
<1>2. PICK q \in Int, r \in 0 .. (Modulus - 1) : b = Modulus * q + r
    BY <1>1, Division
<1>3. PICK p \in Int : a = b + Modulus * p
    BY DEF Same
<1>4. a = Modulus * (q + p) + r
  <2> DEFINE x == Modulus * q
             y == Modulus * p
  <2>1. x \in Int /\ y \in Int /\ Modulus * (q + p) = x + y /\ b = x + r /\ a = b + y
    BY <1>1, <1>2, <1>3
  <2> HIDE DEF x, y
  <2> QED
    BY <2>1
<1>5. (Modulus * (q + p) + r) % Modulus = r /\ (Modulus * q + r) % Modulus = r
    BY <1>1, Remainder
<1> QED
    BY <1>2, <1>4, <1>5 DEF Wrap, Modulus

\* A number below the modulus does not wrap.
LEMMA WrapOfSmall ==
    ASSUME NEW a \in 0 .. (Modulus - 1)
    PROVE  Wrap(a) = a
<1>1. Modulus \in Nat /\ Modulus > 0
    BY ModulusIsPositive
<1>2. (Modulus * 0 + a) % Modulus = a
    BY <1>1, Remainder
<1>3. Modulus * 0 + a = a
    BY <1>1
<1> QED
    BY <1>2, <1>3 DEF Wrap, Modulus

-----------------------------------------------------------------------------
\* The sum over a window

\* A function that adds terms from an index up to a last one.
Adds(term, first, top, t) ==
    t[top] = 0 /\ \A p \in first .. (top - 1) : t[p] = term[p] + t[p + 1]

\* Such sums exist.
LEMMA SumsExist ==
    ASSUME NEW top \in Int, NEW term
    PROVE  \A n \in Nat : \E t : Adds(term, top - n, top, t)
<1> DEFINE bad == {n \in Nat : ~ \E t : Adds(term, top - n, top, t)}
<1> SUFFICES ASSUME bad # {} PROVE FALSE
    OBVIOUS
<1>1. PICK n \in bad : \A m \in bad : n <= m
  <2>1. bad \in SUBSET Nat
    OBVIOUS
  <2> HIDE DEF bad
  <2> QED
    BY <2>1, LeastMember
<1>2. n # 0
  <2>1. Adds(term, top - 0, top, [p \in {top} |-> 0])
    BY DEF Adds
  <2> QED
    BY <1>1, <2>1
<1>3. n - 1 \in Nat /\ n - 1 \notin bad
  <2>1. n - 1 \in Nat /\ ~ (n <= n - 1)
    BY <1>1, <1>2
  <2> QED
    BY <1>1, <2>1
<1>4. PICK g : Adds(term, top - (n - 1), top, g)
    BY <1>3
<1> DEFINE a == top - n
           h == [p \in a .. top |-> IF p = a THEN term[a] + g[a + 1] ELSE g[p]]
<1>5. a \in Int /\ a < top /\ top - (n - 1) = a + 1
    BY <1>1, <1>2
<1> HIDE DEF a
<1>6. Adds(term, a, top, h)
  <2>1. h[top] = 0
    <3>1. h[top] = g[top]
      BY <1>5
    <3> QED
      BY <1>4, <3>1 DEF Adds
  <2>2. ASSUME NEW p \in a .. (top - 1) PROVE h[p] = term[p] + h[p + 1]
    <3>0. p + 1 \in a .. top /\ p + 1 # a /\ p \in a .. top
      BY <1>5
    <3>1. h[p + 1] = g[p + 1]
      BY <3>0
    <3>2. CASE p = a
      <4>1. h[p] = term[a] + g[a + 1]
        BY <3>0, <3>2
      <4> HIDE DEF h
      <4> QED
        BY <3>1, <3>2, <4>1
    <3>3. CASE p # a
      <4>1. h[p] = g[p]
        BY <3>0, <3>3
      <4>2. p \in (a + 1) .. (top - 1)
        BY <1>5, <3>3
      <4>3. g[p] = term[p] + g[p + 1]
        BY <1>4, <1>5, <4>2 DEF Adds
      <4> HIDE DEF h
      <4> QED
        BY <3>1, <4>1, <4>3
    <3> QED
      BY <3>2, <3>3
  <2> HIDE DEF h
  <2> QED
    BY <2>1, <2>2 DEF Adds
<1> HIDE DEF h
<1> QED
    BY <1>1, <1>6 DEF a

\* Sums of natural numbers are natural numbers.
LEMMA SumsAreNatural ==
    ASSUME NEW first \in Int, NEW top \in Int, NEW term, NEW t, Adds(term, first, top, t),
           \A p \in first .. (top - 1) : term[p] \in Nat
    PROVE  \A p \in first .. top : t[p] \in Nat
<1> DEFINE bad == {n \in Nat : n <= top - first /\ t[top - n] \notin Nat}
<1>1. bad = {}
  <2> SUFFICES ASSUME bad # {} PROVE FALSE
    OBVIOUS
  <2>1. PICK n \in bad : \A m \in bad : n <= m
    <3>1. bad \in SUBSET Nat
      OBVIOUS
    <3> HIDE DEF bad
    <3> QED
      BY <3>1, LeastMember
  <2>2. n # 0
    BY <2>1 DEF Adds
  <2>3. n - 1 \in Nat /\ n - 1 \notin bad /\ n - 1 <= top - first
    <3>1. n - 1 \in Nat /\ ~ (n <= n - 1) /\ n - 1 <= top - first
      BY <2>1, <2>2
    <3> QED
      BY <2>1, <3>1
  <2> DEFINE p == top - n
  <2>4. p \in first .. (top - 1) /\ top - (n - 1) = p + 1
    BY <2>1, <2>2
  <2>5. t[p + 1] \in Nat
    BY <2>3, <2>4
  <2>6. t[p] = term[p] + t[p + 1] /\ term[p] \in Nat
    BY <2>4 DEF Adds
  <2>7. t[p] \in Nat
    BY <2>5, <2>6
  <2> QED
    BY <2>1, <2>7
<1>2. ASSUME NEW p \in first .. top PROVE t[p] \in Nat
  <2>1. top - p \in Nat /\ top - p <= top - first /\ top - (top - p) = p
    OBVIOUS
  <2> QED
    BY <1>1, <2>1
<1> QED
    BY <1>2

\* Sums of the same terms are the same.
LEMMA SumsAgree ==
    ASSUME NEW first \in Int, NEW top \in Int, NEW term, NEW other, NEW t, NEW u,
           Adds(term, first, top, t), Adds(other, first, top, u),
           \A p \in first .. (top - 1) : term[p] = other[p]
    PROVE  \A p \in first .. top : t[p] = u[p]
<1> DEFINE bad == {n \in Nat : n <= top - first /\ t[top - n] # u[top - n]}
<1>1. bad = {}
  <2> SUFFICES ASSUME bad # {} PROVE FALSE
    OBVIOUS
  <2>1. PICK n \in bad : \A m \in bad : n <= m
    <3>1. bad \in SUBSET Nat
      OBVIOUS
    <3> HIDE DEF bad
    <3> QED
      BY <3>1, LeastMember
  <2>2. n # 0
    BY <2>1 DEF Adds
  <2>3. n - 1 \in Nat /\ n - 1 \notin bad /\ n - 1 <= top - first
    <3>1. n - 1 \in Nat /\ ~ (n <= n - 1) /\ n - 1 <= top - first
      BY <2>1, <2>2
    <3> QED
      BY <2>1, <3>1
  <2> DEFINE p == top - n
  <2>4. p \in first .. (top - 1) /\ top - (n - 1) = p + 1
    BY <2>1, <2>2
  <2>5. t[p + 1] = u[p + 1]
    BY <2>3, <2>4
  <2>6. t[p] = term[p] + t[p + 1] /\ u[p] = other[p] + u[p + 1] /\ term[p] = other[p]
    BY <2>4 DEF Adds
  <2> QED
    BY <2>1, <2>5, <2>6
<1>2. ASSUME NEW p \in first .. top PROVE t[p] = u[p]
  <2>1. top - p \in Nat /\ top - p <= top - first /\ top - (top - p) = p
    OBVIOUS
  <2> QED
    BY <1>1, <2>1
<1> QED
    BY <1>2

\* A sum of multiples, with one term more.
LEMMA SumsRoll ==
    ASSUME NEW first \in Int, NEW last \in Int, NEW term, NEW other, NEW t, NEW u,
           NEW c \in Nat, NEW g \in Nat,
           Adds(term, first, last + 1, t), Adds(other, first, (last + 1) + 1, u),
           \A p \in first .. last : term[p] \in Nat /\ other[p] = c * term[p],
           other[last + 1] = g, first <= last + 1
    PROVE  \A p \in first .. (last + 1) : t[p] \in Nat /\ u[p] = c * t[p] + g
<1>1. \A p \in first .. (last + 1) : t[p] \in Nat
  <2> DEFINE top == last + 1
  <2>1. top \in Int /\ (\A p \in first .. (top - 1) : term[p] \in Nat)
    OBVIOUS
  <2> HIDE DEF top
  <2>2. Adds(term, first, top, t)
    BY DEF top
  <2> QED
    BY <2>1, <2>2, SumsAreNatural DEF top
<1> DEFINE ok(p) == u[p] = c * t[p] + g
           bad == {n \in Nat : n <= last + 1 - first /\ ~ ok(last + 1 - n)}
<1>2. bad = {}
  <2> SUFFICES ASSUME bad # {} PROVE FALSE
    OBVIOUS
  <2>1. PICK n \in bad : \A m \in bad : n <= m
    <3>1. bad \in SUBSET Nat
      OBVIOUS
    <3> HIDE DEF bad
    <3> QED
      BY <3>1, LeastMember
  <2>2. n # 0
    <3>1. t[last + 1] = 0 /\ u[last + 1 + 1] = 0
      BY DEF Adds
    <3>2. u[last + 1] = other[last + 1] + u[last + 1 + 1]
      BY DEF Adds
    <3>3. ok(last + 1)
      BY <3>1, <3>2
    <3> QED
      BY <2>1, <3>3
  <2>3. n - 1 \in Nat /\ n - 1 \notin bad /\ n - 1 <= last + 1 - first
    <3>1. n - 1 \in Nat /\ ~ (n <= n - 1) /\ n - 1 <= last + 1 - first
      BY <2>1, <2>2
    <3> QED
      BY <2>1, <3>1
  <2> DEFINE p == last + 1 - n
  <2>4. p \in first .. last /\ last + 1 - (n - 1) = p + 1
    BY <2>1, <2>2
  <2>5. ok(p + 1)
    BY <2>3, <2>4
  <2> HIDE DEF p
  <2>6. t[p] = term[p] + t[p + 1]
    <3>1. p \in first .. (last + 1 - 1)
      BY <2>4
    <3> QED
      BY <3>1 DEF Adds
  <2>7. u[p] = other[p] + u[p + 1]
    <3>1. p \in first .. (last + 1 + 1 - 1)
      BY <2>4
    <3> QED
      BY <3>1 DEF Adds
  <2>8. term[p] \in Nat /\ other[p] = c * term[p] /\ t[p + 1] \in Nat
    <3>1. p + 1 \in first .. (last + 1)
      BY <2>4
    <3> QED
      BY <1>1, <2>4, <3>1
  <2>9. ok(p)
    <3>1. c * (term[p] + t[p + 1]) = c * term[p] + c * t[p + 1] /\ c * term[p] \in Nat
          /\ c * t[p + 1] \in Nat
      BY <2>8, ProductAdds, ProductIsNatural
    <3> DEFINE x == c * term[p]
               y == c * t[p + 1]
               z == c * t[p]
               up == u[p + 1]
    <3>2. x \in Nat /\ y \in Nat /\ z = x + y /\ up = y + g /\ u[p] = x + up
      BY <2>5, <2>6, <2>7, <2>8, <3>1
    <3> HIDE DEF x, y, z, up
    <3>3. u[p] = z + g
      BY <3>2
    <3> QED
      BY <3>3 DEF z
  <2> QED
    BY <2>1, <2>9 DEF p
<1>3. ASSUME NEW p \in first .. (last + 1) PROVE ok(p)
  <2>1. last + 1 - p \in Nat /\ last + 1 - p <= last + 1 - first /\ last + 1 - (last + 1 - p) = p
    OBVIOUS
  <2> HIDE DEF ok
  <2> QED
    BY <1>2, <2>1
<1> QED
    BY <1>1, <1>3

\* The first term of a sum comes before the sum of the others.
LEMMA SumsShift ==
    ASSUME NEW first \in Int, NEW top \in Int, first < top, NEW term, NEW other, NEW t, NEW u,
           Adds(term, first, top, t), Adds(other, first + 1, top, u),
           \A p \in (first + 1) .. (top - 1) : term[p] = other[p]
    PROVE  t[first] = term[first] + u[first + 1]
<1>1. Adds(term, first + 1, top, t)
    BY DEF Adds
<1>2. t[first + 1] = u[first + 1]
  <2> DEFINE second == first + 1
  <2>1. second \in Int /\ second \in second .. top
    OBVIOUS
  <2> HIDE DEF second
  <2>2. /\ Adds(term, second, top, t) /\ Adds(other, second, top, u)
        /\ \A p \in second .. (top - 1) : term[p] = other[p]
    BY <1>1 DEF second
  <2>3. t[second] = u[second]
    BY <2>1, <2>2, SumsAgree
  <2> QED
    BY <2>3 DEF second
<1>3. t[first] = term[first] + t[first + 1]
    BY DEF Adds
<1> QED
    BY <1>2, <1>3

WindowStart(first, last) == IF last - first < Width THEN first ELSE last - Width + 1

\* What a byte of the window adds.
GearTerms(b, first, last) == [p \in first .. last |-> Gear[b[p]] * TwoTo[last - p]]

\* The sum that a window's hash wraps.
LEMMA GearWindowUnfolds ==
    ASSUME NEW b, NEW first \in Int, NEW last \in Int, first <= last + 1
    PROVE  \E t : /\ GearWindow(b, first, last) = Wrap(t[WindowStart(first, last)])
                  /\ Adds(GearTerms(b, first, last), first, last + 1, t)
<1> DEFINE top == last + 1
           dom == first .. top
           Body(f, p) == IF p = top THEN 0 ELSE Gear[b[p]] * TwoTo[last - p] + f[p + 1]
           term == GearTerms(b, first, last)
           sum == CHOOSE f : f = [p \in dom |-> Body(f, p)]
<1>1. PICK g : Adds(term, first, top, g)
  <2> DEFINE n == top - first
  <2>1. n \in Nat /\ top \in Int /\ top - n = first
    OBVIOUS
  <2> HIDE DEF n, top, term
  <2> QED
    BY <2>1, SumsExist
<1> DEFINE f0 == [p \in dom |-> g[p]]
<1>2. f0 = [p \in dom |-> Body(f0, p)]
  <2>1. ASSUME NEW p \in dom PROVE g[p] = Body(f0, p)
    <3>1. CASE p = top
      BY <1>1, <3>1 DEF Adds
    <3>2. CASE p # top
      <4>1. p \in first .. (top - 1) /\ p + 1 \in dom /\ p \in first .. last
        BY <3>2
      <4>2. f0[p + 1] = g[p + 1]
        BY <4>1
      <4>3. g[p] = term[p] + g[p + 1]
        BY <1>1, <4>1 DEF Adds
      <4>4. term[p] = Gear[b[p]] * TwoTo[last - p]
        BY <4>1 DEF GearTerms
      <4> HIDE DEF f0, top, term
      <4> QED
        BY <3>2, <4>2, <4>3, <4>4
    <3> QED
      BY <3>1, <3>2
  <2> HIDE DEF Body, dom
  <2> QED
    BY <2>1
<1>3. sum = [p \in dom |-> Body(sum, p)]
  <2> HIDE DEF f0, Body, dom
  <2> QED
    BY <1>2
<1>4. GearWindow(b, first, last) = Wrap(sum[WindowStart(first, last)])
    BY DEF GearWindow, WindowStart
<1> HIDE DEF sum
<1>5. \A p \in dom : sum[p] = Body(sum, p)
  <2> HIDE DEF Body, dom
  <2> QED
    BY <1>3
<1>6. Adds(term, first, top, sum)
  <2>1. sum[top] = 0
    <3>1. top \in dom
      OBVIOUS
    <3> QED
      BY <1>5, <3>1
  <2>2. ASSUME NEW p \in first .. (top - 1) PROVE sum[p] = term[p] + sum[p + 1]
    <3>1. p \in dom /\ p # top /\ p \in first .. last
      OBVIOUS
    <3>2. sum[p] = Gear[b[p]] * TwoTo[last - p] + sum[p + 1]
      BY <1>5, <3>1
    <3>3. term[p] = Gear[b[p]] * TwoTo[last - p]
      BY <3>1 DEF GearTerms
    <3> HIDE DEF term
    <3> QED
      BY <3>2, <3>3
  <2> HIDE DEF term, top
  <2> QED
    BY <2>1, <2>2 DEF Adds
<1> QED
    BY <1>4, <1>6

\* The polynomial hash: what a byte of the window adds, and the sum.
PolynomialTerms(b, first, last) == [p \in first .. last |-> (b[p] + 1) * BaseTo[last - p]]

\* The sum that a window's hash wraps.
LEMMA PolynomialUnfolds ==
    ASSUME NEW b, NEW first \in Int, NEW last \in Int, first <= last + 1
    PROVE  \E t : /\ PolynomialOf(b, first, last) = Wrap(t[first])
                  /\ Adds(PolynomialTerms(b, first, last), first, last + 1, t)
<1> DEFINE top == last + 1
           dom == first .. top
           Body(f, p) == IF p = top THEN 0 ELSE (b[p] + 1) * BaseTo[last - p] + f[p + 1]
           term == PolynomialTerms(b, first, last)
           sum == CHOOSE f : f = [p \in dom |-> Body(f, p)]
<1>1. PICK g : Adds(term, first, top, g)
  <2> DEFINE n == top - first
  <2>1. n \in Nat /\ top \in Int /\ top - n = first
    OBVIOUS
  <2> HIDE DEF n, top, term
  <2> QED
    BY <2>1, SumsExist
<1> DEFINE f0 == [p \in dom |-> g[p]]
<1>2. f0 = [p \in dom |-> Body(f0, p)]
  <2>1. ASSUME NEW p \in dom PROVE g[p] = Body(f0, p)
    <3>1. CASE p = top
      BY <1>1, <3>1 DEF Adds
    <3>2. CASE p # top
      <4>1. p \in first .. (top - 1) /\ p + 1 \in dom /\ p \in first .. last
        BY <3>2
      <4>2. f0[p + 1] = g[p + 1]
        BY <4>1
      <4>3. g[p] = term[p] + g[p + 1]
        BY <1>1, <4>1 DEF Adds
      <4>4. term[p] = (b[p] + 1) * BaseTo[last - p]
        BY <4>1 DEF PolynomialTerms
      <4> HIDE DEF f0, top, term
      <4> QED
        BY <3>2, <4>2, <4>3, <4>4
    <3> QED
      BY <3>1, <3>2
  <2> HIDE DEF Body, dom
  <2> QED
    BY <2>1
<1>3. sum = [p \in dom |-> Body(sum, p)]
  <2> HIDE DEF f0, Body, dom
  <2> QED
    BY <1>2
<1>4. PolynomialOf(b, first, last) = Wrap(sum[first])
    BY DEF PolynomialOf
<1> HIDE DEF sum
<1>5. \A p \in dom : sum[p] = Body(sum, p)
  <2> HIDE DEF Body, dom
  <2> QED
    BY <1>3
<1>6. Adds(term, first, top, sum)
  <2>1. sum[top] = 0
    <3>1. top \in dom
      OBVIOUS
    <3> QED
      BY <1>5, <3>1
  <2>2. ASSUME NEW p \in first .. (top - 1) PROVE sum[p] = term[p] + sum[p + 1]
    <3>1. p \in dom /\ p # top /\ p \in first .. last
      OBVIOUS
    <3>2. sum[p] = (b[p] + 1) * BaseTo[last - p] + sum[p + 1]
      BY <1>5, <3>1
    <3>3. term[p] = (b[p] + 1) * BaseTo[last - p]
      BY <3>1 DEF PolynomialTerms
    <3> HIDE DEF term
    <3> QED
      BY <3>2, <3>3
  <2> HIDE DEF term, top
  <2> QED
    BY <2>1, <2>2 DEF Adds
<1> QED
    BY <1>4, <1>6

\* The sums of windows of the same bytes.
LEMMA WindowsAgree ==
    ASSUME NEW b, NEW d, NEW first \in Int, NEW last \in Int, first <= last + 1,
           \A p \in first .. last : b[p] = d[p]
    PROVE  /\ GearWindow(b, first, last) = GearWindow(d, first, last)
           /\ PolynomialOf(b, first, last) = PolynomialOf(d, first, last)
<1> DEFINE top == last + 1
<1>0. top \in Int /\ top - 1 = last
    OBVIOUS
<1>1. GearWindow(b, first, last) = GearWindow(d, first, last)
  <2>1. PICK t : /\ GearWindow(b, first, last) = Wrap(t[WindowStart(first, last)])
                 /\ Adds(GearTerms(b, first, last), first, top, t)
    BY GearWindowUnfolds
  <2>2. PICK u : /\ GearWindow(d, first, last) = Wrap(u[WindowStart(first, last)])
                 /\ Adds(GearTerms(d, first, last), first, top, u)
    BY GearWindowUnfolds
  <2>3. \A p \in first .. last : GearTerms(b, first, last)[p] = GearTerms(d, first, last)[p]
    BY DEF GearTerms
  <2>4. WindowStart(first, last) \in first .. top
    BY WidthAssumption DEF WindowStart
  <2> HIDE DEF top
  <2>5. \A p \in first .. top : t[p] = u[p]
    BY <1>0, <2>1, <2>2, <2>3, SumsAgree
  <2> QED
    BY <2>1, <2>2, <2>4, <2>5
<1>2. PolynomialOf(b, first, last) = PolynomialOf(d, first, last)
  <2>1. PICK t : /\ PolynomialOf(b, first, last) = Wrap(t[first])
                 /\ Adds(PolynomialTerms(b, first, last), first, top, t)
    BY PolynomialUnfolds
  <2>2. PICK u : /\ PolynomialOf(d, first, last) = Wrap(u[first])
                 /\ Adds(PolynomialTerms(d, first, last), first, top, u)
    BY PolynomialUnfolds
  <2>3. \A p \in first .. last :
            PolynomialTerms(b, first, last)[p] = PolynomialTerms(d, first, last)[p]
    BY DEF PolynomialTerms
  <2>4. first \in first .. top
    OBVIOUS
  <2> HIDE DEF top
  <2>5. \A p \in first .. top : t[p] = u[p]
    BY <1>0, <2>1, <2>2, <2>3, SumsAgree
  <2> QED
    BY <2>1, <2>2, <2>4, <2>5
<1> QED
    BY <1>1, <1>2

\* A window without bytes.
LEMMA EmptyWindows ==
    ASSUME NEW b, NEW first \in Int, NEW last \in Int, last + 1 = first
    PROVE  GearWindow(b, first, last) = 0 /\ PolynomialOf(b, first, last) = 0
<1>1. WindowStart(first, last) = last + 1
    BY WidthAssumption DEF WindowStart
<1>2. Wrap(0) = 0
  <2>1. 0 \in 0 .. (Modulus - 1)
    BY ModulusIsPositive
  <2> QED
    BY <2>1, WrapOfSmall
<1>3. PICK t : /\ GearWindow(b, first, last) = Wrap(t[WindowStart(first, last)])
               /\ Adds(GearTerms(b, first, last), first, last + 1, t)
    BY GearWindowUnfolds
<1>4. PICK u : /\ PolynomialOf(b, first, last) = Wrap(u[first])
               /\ Adds(PolynomialTerms(b, first, last), first, last + 1, u)
    BY PolynomialUnfolds
<1>5. t[last + 1] = 0 /\ u[first] = 0
    BY <1>3, <1>4 DEF Adds
<1> QED
    BY <1>1, <1>2, <1>3, <1>4, <1>5

\* The Gear hash of a window and of one byte more.
LEMMA GearRolls ==
    ASSUME NEW b, NEW first \in Int, NEW last \in Int, first <= last + 1,
           \A p \in first .. (last + 1) : Gear[b[p]] \in Nat
    PROVE  /\ GearWindow(b, first, last + 1) = GearStep(GearWindow(b, first, last), b[last + 1])
           /\ GearWindow(b, first, last) \in 0 .. (Modulus - 1)
<1> DEFINE g == Gear[b[last + 1]]
           termT == GearTerms(b, first, last)
           termU == GearTerms(b, first, last + 1)
<1>1. PICK t : /\ GearWindow(b, first, last) = Wrap(t[WindowStart(first, last)])
               /\ Adds(termT, first, last + 1, t)
    BY GearWindowUnfolds
<1>2. PICK u : /\ GearWindow(b, first, last + 1) = Wrap(u[WindowStart(first, last + 1)])
               /\ Adds(termU, first, (last + 1) + 1, u)
  <2> DEFINE next1 == last + 1
  <2>1. next1 \in Int /\ first <= next1 + 1
    OBVIOUS
  <2> HIDE DEF next1
  <2>2. \E u : /\ GearWindow(b, first, next1) = Wrap(u[WindowStart(first, next1)])
               /\ Adds(GearTerms(b, first, next1), first, next1 + 1, u)
    BY <2>1, GearWindowUnfolds
  <2> QED
    BY <2>2 DEF next1
<1>3. ASSUME NEW p \in first .. last
      PROVE  /\ termT[p] \in Nat /\ termU[p] = 2 * termT[p]
             /\ termT[p] = Gear[b[p]] * TwoTo[last - p]
  <2> DEFINE c == Gear[b[p]]
             x == TwoTo[last - p]
             y == TwoTo[last + 1 - p]
  <2>1. termT[p] = c * x /\ termU[p] = c * y
    BY DEF GearTerms
  <2>2. c \in Nat /\ x \in Nat /\ y = 2 * x
    <3>1. last - p \in Nat /\ last + 1 - p = (last - p) + 1
      OBVIOUS
    <3>2. p \in first .. (last + 1)
      OBVIOUS
    <3> QED
      BY <3>1, <3>2, TwoToDoubles, TwoToIsPositive
  <2> HIDE DEF c, x, y
  <2>3. c * x \in Nat /\ c * y = 2 * (c * x)
    <3>1. c * x \in Nat
      BY <2>2, ProductIsNatural
    <3>2. c * (x + x) = c * x + c * x
      BY <2>2, ProductAdds
    <3>3. y = x + x
      BY <2>2
    <3> QED
      BY <3>1, <3>2, <3>3
  <2> QED
    BY <2>1, <2>3 DEF c, x
<1>4. termU[last + 1] = g /\ g \in Nat
  <2>1. last + 1 \in first .. (last + 1) /\ last + 1 - (last + 1) = 0
    OBVIOUS
  <2>2. termU[last + 1] = g * TwoTo[0] /\ g \in Nat
    BY <2>1 DEF GearTerms
  <2> HIDE DEF g
  <2> QED
    BY <2>2, TwoToDoubles
<1>5. \A p \in first .. (last + 1) : t[p] \in Nat /\ u[p] = 2 * t[p] + g
  <2> HIDE DEF termT, termU, g
  <2>1. \A p \in first .. last : termT[p] \in Nat /\ termU[p] = 2 * termT[p]
    BY <1>3
  <2> QED
    BY <1>1, <1>2, <1>4, <2>1, SumsRoll
<1> DEFINE o == WindowStart(first, last)
           o1 == WindowStart(first, last + 1)
<1>7. /\ o \in first .. (last + 1)
      /\ o1 = o \/ (o1 = o + 1 /\ o \in first .. last /\ last + 1 - o = Width)
    BY WidthAssumption DEF WindowStart
<1>8. Wrap(u[o1]) = Wrap(u[o])
  <2>1. CASE o1 = o
    BY <2>1
  <2>2. CASE o1 # o
    <3>1. o1 = o + 1 /\ o \in first .. last /\ last + 1 - o = Width
      BY <1>7, <2>2
    <3> HIDE DEF o, o1
    <3>2. u[o] = termU[o] + u[o + 1]
      <4>1. o \in first .. (last + 1 + 1 - 1)
        BY <3>1
      <4> QED
        BY <1>2, <4>1 DEF Adds
    <3>3. termU[o] = Gear[b[o]] * Modulus /\ Gear[b[o]] \in Nat
      <4>1. o \in first .. (last + 1) /\ last + 1 - o = Width
        BY <3>1
      <4> QED
        BY <4>1 DEF GearTerms, Modulus
    <3> DEFINE c == Gear[b[o]]
               x == u[o]
               y == u[o + 1]
    <3>4. y \in Nat
      <4>1. o + 1 \in first .. (last + 1)
        BY <3>1
      <4>2. y = 2 * t[o + 1] + g /\ t[o + 1] \in Nat
        BY <1>5, <4>1
      <4> HIDE DEF g, y
      <4> QED
        BY <1>4, <4>2
    <3>5. x = c * Modulus + y /\ c \in Nat
      BY <3>2, <3>3
    <3> HIDE DEF c, x, y, termU
    <3>6. c * Modulus = Modulus * c /\ Modulus * c \in Nat
      BY <3>5, ModulusIsPositive, ProductIsNatural, ProductAdds
    <3>7. x \in Int /\ x = y + Modulus * c
      BY <3>4, <3>5, <3>6
    <3>8. Same(x, y)
      BY <3>5, <3>7 DEF Same
    <3>9. Wrap(x) = Wrap(y)
      BY <3>4, <3>7, <3>8, WrapSame
    <3> QED
      BY <3>1, <3>9 DEF x, y
  <2> QED
    BY <2>1, <2>2
<1>9. t[o] \in Nat /\ u[o] = 2 * t[o] + g
    BY <1>5, <1>7
<1> HIDE DEF o, o1, g
<1>10. Wrap(2 * Wrap(t[o]) + g) = Wrap(2 * t[o] + g)
  <2> DEFINE w == Wrap(t[o])
             x == t[o]
  <2>1. w \in Nat /\ x \in Nat /\ g \in Nat /\ Same(w, x)
    BY <1>4, <1>9, SameAsWrapped
  <2> HIDE DEF w, x
  <2>0. 2 \in Int /\ w \in Int /\ x \in Int /\ g \in Int
    BY <2>1
  <2>2. Same(2 * w, 2 * x) /\ Same(g, g) /\ 2 * w \in Int /\ 2 * x \in Int
    <3>1. Same(2 * w, 2 * x)
      BY <2>0, <2>1, SameTimes
    <3>2. Same(g, g)
      BY <2>0, SameItself
    <3> QED
      BY <2>0, <3>1, <3>2
  <2>3. Same(2 * w + g, 2 * x + g) /\ 2 * w + g \in Int /\ 2 * x + g \in Int
    BY <2>1, <2>2, SameAdds
  <2>4. Wrap(2 * w + g) = Wrap(2 * x + g)
    BY <2>3, WrapSame
  <2> QED
    BY <2>4 DEF w, x
<1>11. GearWindow(b, first, last) \in 0 .. (Modulus - 1)
    BY <1>1, <1>9, SameAsWrapped DEF o
<1> QED
    BY <1>1, <1>2, <1>8, <1>9, <1>10, <1>11 DEF GearStep, g, o, o1

\* The polynomial hash of a window and of one byte more, as sums.
LEMMA PolynomialSums ==
    ASSUME NEW b, NEW first \in Int, NEW last \in Int, first <= last + 1,
           \A p \in first .. (last + 1) : b[p] \in Nat
    PROVE  \E t, u : /\ PolynomialOf(b, first, last) = Wrap(t[first])
                     /\ PolynomialOf(b, first, last + 1) = Wrap(u[first])
                     /\ Adds(PolynomialTerms(b, first, last + 1), first, (last + 1) + 1, u)
                     /\ t[first] \in Nat
                     /\ u[first] = Base * t[first] + (b[last + 1] + 1)
<1> DEFINE g == b[last + 1] + 1
           termT == PolynomialTerms(b, first, last)
           termU == PolynomialTerms(b, first, last + 1)
<1>0. Base \in Nat
    BY PolynomialAssumption
<1>1. PICK t : /\ PolynomialOf(b, first, last) = Wrap(t[first])
               /\ Adds(termT, first, last + 1, t)
    BY PolynomialUnfolds
<1>2. PICK u : /\ PolynomialOf(b, first, last + 1) = Wrap(u[first])
               /\ Adds(termU, first, (last + 1) + 1, u)
  <2> DEFINE next1 == last + 1
  <2>1. next1 \in Int /\ first <= next1 + 1
    OBVIOUS
  <2> HIDE DEF next1
  <2>2. \E u : /\ PolynomialOf(b, first, next1) = Wrap(u[first])
               /\ Adds(PolynomialTerms(b, first, next1), first, next1 + 1, u)
    BY <2>1, PolynomialUnfolds
  <2> QED
    BY <2>2 DEF next1
<1>3. ASSUME NEW p \in first .. last
      PROVE  termT[p] \in Nat /\ termU[p] = Base * termT[p]
  <2> DEFINE c == b[p] + 1
             x == BaseTo[last - p]
             y == BaseTo[last + 1 - p]
  <2>1. termT[p] = c * x /\ termU[p] = c * y
    BY DEF PolynomialTerms
  <2>2. c \in Nat /\ x \in Nat /\ y = Base * x
    <3>1. last - p \in Nat /\ last + 1 - p = (last - p) + 1
      OBVIOUS
    <3>2. p \in first .. (last + 1)
      OBVIOUS
    <3>3. b[p] \in Nat
      BY <3>2
    <3> QED
      BY <1>0, <3>1, <3>3, BaseToGrows, BaseToIsNatural
  <2> HIDE DEF c, x, y
  <2>3. c * x \in Nat /\ c * y = Base * (c * x)
    <3>1. c * x \in Nat
      BY <2>2, ProductIsNatural
    <3>2. c * (Base * x) = Base * (c * x)
      BY <1>0, <2>2
    <3> QED
      BY <2>2, <3>1, <3>2
  <2> QED
    BY <2>1, <2>3 DEF c, x
<1>4. termU[last + 1] = g /\ g \in Nat
  <2>1. last + 1 \in first .. (last + 1) /\ last + 1 - (last + 1) = 0
    OBVIOUS
  <2>2. termU[last + 1] = g * BaseTo[0] /\ g \in Nat
    BY <2>1 DEF PolynomialTerms
  <2> HIDE DEF g
  <2> QED
    BY <2>2, BaseToGrows
<1>5. \A p \in first .. (last + 1) : t[p] \in Nat /\ u[p] = Base * t[p] + g
  <2> HIDE DEF termT, termU, g
  <2>1. \A p \in first .. last : termT[p] \in Nat /\ termU[p] = Base * termT[p]
    BY <1>3
  <2> QED
    BY <1>0, <1>1, <1>2, <1>4, <2>1, SumsRoll
<1>6. first \in first .. (last + 1)
    OBVIOUS
<1> HIDE DEF termU
<1> QED
    BY <1>1, <1>2, <1>5, <1>6 DEF termU

LEMMA PolynomialFills ==
    ASSUME NEW b, NEW first \in Int, NEW last \in Int, first <= last + 1,
           \A p \in first .. (last + 1) : b[p] \in Nat
    PROVE  /\ PolynomialOf(b, first, last + 1)
                = Wrap(PolynomialOf(b, first, last) * Base + b[last + 1] + 1)
           /\ PolynomialOf(b, first, last) \in 0 .. (Modulus - 1)
<1> DEFINE g == b[last + 1]
<1>1. PICK t, u : /\ PolynomialOf(b, first, last) = Wrap(t[first])
                  /\ PolynomialOf(b, first, last + 1) = Wrap(u[first])
                  /\ t[first] \in Nat
                  /\ u[first] = Base * t[first] + (g + 1)
    BY PolynomialSums
<1>2. g \in Nat /\ Base \in Nat
  <2>1. last + 1 \in first .. (last + 1)
    OBVIOUS
  <2> QED
    BY <2>1, PolynomialAssumption
<1> DEFINE w == Wrap(t[first])
           x == t[first]
<1>3. w \in Nat /\ x \in Nat /\ Same(w, x) /\ w \in 0 .. (Modulus - 1)
    BY <1>1, SameAsWrapped
<1> HIDE DEF w, x, g
<1>4. /\ Same(w * Base, x * Base) /\ w * Base \in Int /\ x * Base \in Int /\ x * Base = Base * x
      /\ Same(g + 1, g + 1)
    BY <1>2, <1>3, SameTimes, SameItself, ProductAdds
<1>5. Same(w * Base + (g + 1), x * Base + (g + 1))
    BY <1>2, <1>4, SameAdds
<1>6. /\ w * Base + (g + 1) = w * Base + g + 1
      /\ x * Base + (g + 1) = Base * x + (g + 1)
      /\ w * Base + (g + 1) \in Int /\ x * Base + (g + 1) \in Int
    BY <1>2, <1>4
<1>7. Wrap(w * Base + g + 1) = Wrap(Base * x + (g + 1))
    BY <1>5, <1>6, WrapSame
<1> QED
    BY <1>1, <1>3, <1>7 DEF w, x, g

\* A full window moves on by one byte: the oldest byte leaves the hash, whether
\* its adjustment comes from the table or from the two constants.
LEMMA PolynomialRolls ==
    ASSUME NEW b, NEW first \in Int, NEW last \in Int, last - first + 1 = PolynomialWindow,
           \A p \in first .. (last + 1) : b[p] \in Nat
    PROVE  LET hash0 == PolynomialOf(b, first, last)
               hash1 == PolynomialOf(b, first + 1, last + 1)
           IN  /\ hash1 = RollPolynomial(hash0, b[first], b[last + 1])
               /\ hash1 = Wrap(hash0 * Base + b[last + 1] - b[first] * RemovalFactor
                               + RollingAdjustment)
               /\ hash1 \in 0 .. (Modulus - 1)
<1> DEFINE g == b[last + 1]
           x == b[first]
           R == BaseTo[PolynomialWindow]
           termU == PolynomialTerms(b, first, last + 1)
           termV == PolynomialTerms(b, first + 1, last + 1)
<1>0. /\ Base \in Nat /\ PolynomialWindow \in Nat \ {0}
      /\ first <= last /\ last + 1 - first = PolynomialWindow
    BY PolynomialAssumption
<1>1. PICK t, u : /\ PolynomialOf(b, first, last) = Wrap(t[first])
                  /\ Adds(termU, first, (last + 1) + 1, u)
                  /\ t[first] \in Nat
                  /\ u[first] = Base * t[first] + (g + 1)
  <2>1. first <= last + 1
    BY <1>0
  <2> QED
    BY <2>1, PolynomialSums
<1>2. PICK v : /\ PolynomialOf(b, first + 1, last + 1) = Wrap(v[first + 1])
               /\ Adds(termV, first + 1, (last + 1) + 1, v)
  <2> DEFINE next1 == last + 1
             second == first + 1
  <2>1. next1 \in Int /\ second \in Int /\ second <= next1 + 1
    BY <1>0
  <2> HIDE DEF next1, second
  <2>2. \E u0 : /\ PolynomialOf(b, second, next1) = Wrap(u0[second])
                /\ Adds(PolynomialTerms(b, second, next1), second, next1 + 1, u0)
    BY <2>1, PolynomialUnfolds
  <2> QED
    BY <2>2 DEF next1, second
<1>3. g \in Nat /\ x \in Nat /\ R \in Nat
  <2>1. last + 1 \in first .. (last + 1) /\ first \in first .. (last + 1)
    BY <1>0
  <2> QED
    BY <1>0, <2>1, BaseToIsNatural
<1>4. termU[first] = (x + 1) * R
  <2>1. first \in first .. (last + 1) /\ last + 1 - first = PolynomialWindow
    BY <1>0
  <2> QED
    BY <2>1 DEF PolynomialTerms
<1>5. u[first] = termU[first] + v[first + 1]
  <2> DEFINE top == (last + 1) + 1
  <2>1. top \in Int /\ first < top /\ top - 1 = last + 1
    BY <1>0
  <2>2. \A p \in (first + 1) .. (top - 1) : termU[p] = termV[p]
    BY <1>0 DEF PolynomialTerms
  <2> HIDE DEF top, termU, termV
  <2>3. Adds(termU, first, top, u) /\ Adds(termV, first + 1, top, v)
    BY <1>1, <1>2 DEF top
  <2> QED
    BY <2>1, <2>2, <2>3, SumsShift
<1> DEFINE w == Wrap(t[first])
           s0 == t[first]
           v1 == v[first + 1]
           F == RemovalFactor
           out == (x + 1) * R
<1>6. w \in Nat /\ s0 \in Nat /\ Same(w, s0)
    BY <1>1, SameAsWrapped
<1>7. F \in Nat /\ Same(F, R)
    BY <1>3, SameAsWrapped DEF RemovalFactor
<1>8. v1 \in Nat
  <2>1. \A p \in (first + 1) .. (last + 1) : termV[p] \in Nat
    <3> SUFFICES ASSUME NEW p \in (first + 1) .. (last + 1) PROVE termV[p] \in Nat
      OBVIOUS
    <3>1. p \in first .. (last + 1) /\ last + 1 - p \in Nat
      BY <1>0
    <3>2. b[p] + 1 \in Nat /\ BaseTo[last + 1 - p] \in Nat
      BY <1>0, <3>1, BaseToIsNatural
    <3>3. (b[p] + 1) * BaseTo[last + 1 - p] \in Nat
      BY <3>2, ProductIsNatural
    <3> QED
      BY <3>3 DEF PolynomialTerms
  <2> DEFINE second == first + 1
             top == (last + 1) + 1
  <2>2. second \in Int /\ top \in Int /\ second \in second .. top /\ top - 1 = last + 1
    BY <1>0
  <2> HIDE DEF second, top, termV
  <2>3. Adds(termV, second, top, v) /\ \A p \in second .. (top - 1) : termV[p] \in Nat
    BY <1>2, <2>1, <2>2 DEF second, top
  <2>4. v[second] \in Nat
    BY <2>2, <2>3, SumsAreNatural
  <2> QED
    BY <2>4 DEF second
<1>9. Base * s0 + (g + 1) = out + v1
    BY <1>1, <1>4, <1>5
<1>10. Wrap(v1) \in 0 .. (Modulus - 1)
  <2> HIDE DEF v1
  <2> QED
    BY <1>8, SameAsWrapped
<1> HIDE DEF w, s0, v1, F, R, g, x
<1>11. w * Base \in Int /\ s0 * Base \in Int /\ s0 * Base = Base * s0 /\ Same(w * Base, s0 * Base)
    BY <1>0, <1>6, SameTimes, ProductAdds
<1>12. /\ x * F \in Int /\ x * R \in Int /\ Same(x * F, x * R)
       /\ (x + 1) * F = x * F + F /\ (x + 1) * R = x * R + R
  <2>1. x \in Int /\ F \in Int /\ R \in Int
    BY <1>3, <1>7
  <2>2. Same(x * F, x * R)
    BY <1>7, <2>1, SameTimes
  <2>3. /\ F * (x + 1) = F * x + F /\ R * (x + 1) = R * x + R
        /\ F * x = x * F /\ R * x = x * R /\ x * F \in Int /\ x * R \in Int
    BY <2>1, ProductAdds
  <2>4. x + 1 \in Int /\ F * (x + 1) = (x + 1) * F /\ R * (x + 1) = (x + 1) * R
    BY <2>1, ProductAdds
  <2> QED
    BY <2>2, <2>3, <2>4
<1> DEFINE a == w * Base
           c == s0 * Base
           y == x * F
           z == x * R
<1>13. /\ a \in Int /\ c \in Int /\ y \in Int /\ z \in Int /\ g \in Int /\ F \in Int /\ R \in Int
       /\ v1 \in Int /\ Same(a, c) /\ Same(y, z) /\ Same(F, R)
       /\ c + (g + 1) = z + R + v1
  <2>1. out = z + R
    BY <1>12
  <2> HIDE DEF out
  <2> QED
    BY <1>3, <1>6, <1>7, <1>8, <1>9, <1>11, <1>12, <2>1
<1> HIDE DEF a, c, y, z, out
<1>14. Same(1, 1) /\ Same(g, g)
    BY <1>13, SameItself
<1>15. Same(a + g, c + g)
    BY <1>13, <1>14, SameAdds
<1>16. Wrap(a + g + Wrap(1 - (y + F))) = Wrap(v1)
  <2> DEFINE d == 1 - (y + F)
             D == Wrap(1 - (y + F))
             e == 1 - (z + R)
  <2>1. Same(y + F, z + R)
    BY <1>13, SameAdds
  <2>2. d \in Int /\ e \in Int /\ Same(d, e)
    BY <1>13, <1>14, <2>1, SameAdds
  <2>3. D \in Int /\ Same(D, d)
    <3> HIDE DEF d
    <3>1. Wrap(d) \in Nat /\ Same(Wrap(d), d)
      BY <2>2, SameAsWrapped
    <3> QED
      BY <3>1 DEF d
  <2>4. a + g \in Int /\ c + g \in Int /\ c + g + e = v1
    BY <1>13
  <2> HIDE DEF d, D, e
  <2>5. Same(a + g + D, c + g + d)
    BY <1>15, <2>2, <2>3, <2>4, SameAdds
  <2>6. Same(c + g + d, c + g + e)
    BY <2>2, <2>4, SameItself, SameAdds
  <2>7. Wrap(a + g + D) = Wrap(c + g + d)
    BY <2>2, <2>3, <2>4, <2>5, WrapSame
  <2>8. Wrap(c + g + d) = Wrap(c + g + e)
    BY <2>2, <2>4, <2>6, WrapSame
  <2> QED
    BY <2>4, <2>7, <2>8 DEF D
<1>17. Wrap(a + g - y + Wrap(1 - F)) = Wrap(v1)
  <2> DEFINE d == 1 - F
             D == Wrap(1 - F)
             e == 1 - R
             h == a + g - y
             k0 == c + g - z
  <2>1. d \in Int /\ e \in Int /\ Same(d, e)
    BY <1>13, <1>14, SameAdds
  <2>2. D \in Int /\ Same(D, d)
    <3> HIDE DEF d
    <3>1. Wrap(d) \in Nat /\ Same(Wrap(d), d)
      BY <2>1, SameAsWrapped
    <3> QED
      BY <3>1 DEF d
  <2>3. a + g \in Int /\ c + g \in Int /\ h \in Int /\ k0 \in Int /\ k0 + e = v1
    BY <1>13
  <2>4. Same(h, k0)
    BY <1>13, <1>15, <2>3, SameAdds
  <2> HIDE DEF d, D, e, h, k0
  <2>5. Same(h + D, k0 + d)
    BY <2>1, <2>2, <2>3, <2>4, SameAdds
  <2>6. Same(k0 + d, k0 + e)
    BY <2>1, <2>3, SameItself, SameAdds
  <2>7. Wrap(h + D) = Wrap(k0 + d)
    BY <2>1, <2>2, <2>3, <2>5, WrapSame
  <2>8. Wrap(k0 + d) = Wrap(k0 + e)
    BY <2>1, <2>3, <2>6, WrapSame
  <2> QED
    BY <2>3, <2>7, <2>8 DEF D, h
<1>18. PolynomialOf(b, first + 1, last + 1) = Wrap(v1) /\ PolynomialOf(b, first, last) = w
    BY <1>1, <1>2 DEF v1, w
<1>19. RollPolynomial(w, x, g) = Wrap(a + g + Wrap(1 - (y + F)))
  <2>1. OutgoingAdjustment(x) = Wrap(1 - (y + F))
    BY <1>12 DEF OutgoingAdjustment, y, F
  <2> QED
    BY <2>1 DEF RollPolynomial, a
<1>20. RollingAdjustment = Wrap(1 - F)
    BY DEF RollingAdjustment, F
<1> QED
    BY <1>10, <1>16, <1>17, <1>18, <1>19, <1>20 DEF a, y, F, g, x

-----------------------------------------------------------------------------
\* The inductive invariant

\* The fields of the ring and their copies, without the hash.
RingTypeOK ==
    /\ kind \in {"gear", "polynomial"}
    /\ pc \in {"idle", "gear", "fill", "roll"}
    /\ next \in Streaming!Slots /\ nextCopy \in Streaming!Slots
    /\ windowSize \in 0 .. PolynomialWindow /\ sizeCopy \in 0 .. PolynomialWindow
    /\ window \in [Streaming!Slots -> Streaming!Bytes]
    /\ fed \in Seq(Streaming!Bytes)

\* Each hash has loops of its own, and the second one runs on a full window.
LoopsAreOfKind ==
    /\ pc = "gear" => kind = "gear"
    /\ pc \in {"fill", "roll"} => kind = "polynomial"
    /\ pc = "roll" => sizeCopy = PolynomialWindow

RingInv == RingTypeOK /\ LoopsAreOfKind /\ Streaming!RingHoldsWindow

USE PolynomialAssumption

-----------------------------------------------------------------------------
\* The ring

\* Where the byte of d bytes ago is in a ring whose next slot is n.
SlotBefore(n, d) == IF d <= n THEN n - d ELSE n - d + PolynomialWindow

\* A ring that holds the last bytes of a stream.
Holds(ring, n, size, stream) ==
    /\ size = IF Len(stream) < PolynomialWindow THEN Len(stream) ELSE PolynomialWindow
    /\ \A d \in 1 .. size : ring[SlotBefore(n, d)] = stream[Len(stream) - d + 1]

LEMMA NextSlotType == \A n \in Streaming!Slots : Streaming!NextSlot(n) \in Streaming!Slots
BY DEF Streaming!NextSlot, Streaming!Slots

\* A byte is one byte further back when another one has come in.
LEMMA SlotMoves ==
    ASSUME NEW n \in Streaming!Slots
    PROVE  /\ SlotBefore(Streaming!NextSlot(n), 1) = n
           /\ \A d \in 1 .. (PolynomialWindow - 1) :
                 /\ SlotBefore(Streaming!NextSlot(n), d + 1) = SlotBefore(n, d)
                 /\ SlotBefore(n, d) \in Streaming!Slots /\ SlotBefore(n, d) # n
BY DEF Streaming!NextSlot, Streaming!Slots, SlotBefore

\* A byte that is entered at the next slot replaces the one that leaves.
LEMMA EnterByte ==
    ASSUME NEW ring \in [Streaming!Slots -> Streaming!Bytes], NEW n \in Streaming!Slots,
           NEW size \in 0 .. PolynomialWindow, NEW stream \in Seq(Streaming!Bytes),
           NEW b \in Streaming!Bytes,
           Holds(ring, n, size, stream)
    PROVE  Holds([ring EXCEPT ![n] = b], Streaming!NextSlot(n),
                 IF size < PolynomialWindow THEN size + 1 ELSE PolynomialWindow,
                 Append(stream, b))
<1> DEFINE ring2 == [ring EXCEPT ![n] = b]
           stream2 == Append(stream, b)
           size2 == IF size < PolynomialWindow THEN size + 1 ELSE PolynomialWindow
<1>1. /\ Len(stream) \in Nat /\ Len(stream2) = Len(stream) + 1
      /\ stream2[Len(stream) + 1] = b
      /\ \A d \in 1 .. Len(stream) : stream2[d] = stream[d]
    OBVIOUS
<1>2. /\ ring2[n] = b
      /\ \A j \in Streaming!Slots : j # n => ring2[j] = ring[j]
    OBVIOUS
<1>3. size = IF Len(stream) < PolynomialWindow THEN Len(stream) ELSE PolynomialWindow
    BY DEF Holds
<1> HIDE DEF ring2, stream2
<1>4. size2 = IF Len(stream2) < PolynomialWindow THEN Len(stream2) ELSE PolynomialWindow
    BY <1>1, <1>3
<1>5. ASSUME NEW d \in 1 .. size2
      PROVE  ring2[SlotBefore(Streaming!NextSlot(n), d)] = stream2[Len(stream2) - d + 1]
  <2>1. CASE d = 1
    BY <1>1, <1>2, <2>1, SlotMoves
  <2>2. CASE d # 1
    <3> DEFINE e == d - 1
    <3>1. /\ e \in 1 .. (PolynomialWindow - 1) /\ e \in 1 .. size /\ d = e + 1
          /\ e <= Len(stream)
      BY <1>1, <1>3, <2>2
    <3>2. /\ SlotBefore(Streaming!NextSlot(n), d) = SlotBefore(n, e)
          /\ SlotBefore(n, e) \in Streaming!Slots /\ SlotBefore(n, e) # n
      BY <3>1, SlotMoves
    <3>3. ring[SlotBefore(n, e)] = stream[Len(stream) - e + 1]
      BY <3>1 DEF Holds
    <3>4. /\ Len(stream2) - d + 1 = Len(stream) - e + 1
          /\ Len(stream) - e + 1 \in 1 .. Len(stream)
      BY <1>1, <3>1
    <3> QED
      BY <1>1, <1>2, <3>2, <3>3, <3>4
  <2> QED
    BY <2>1, <2>2
<1> QED
    BY <1>4, <1>5 DEF Holds, ring2, stream2

\* The property, by the fields or the copies.
LEMMA RingIsHeld ==
    Streaming!RingHoldsWindow <=>
        (kind = "polynomial" => Holds(window, Streaming!Current.next, Streaming!Current.size, fed))
BY DEF Streaming!RingHoldsWindow, Holds, Streaming!SlotOf, SlotBefore

LEMMA RingIsHeldNext ==
    Streaming!RingHoldsWindow' <=>
        (kind' = "polynomial" =>
            Holds(window', Streaming!Current.next', Streaming!Current.size', fed'))
BY DEF Streaming!RingHoldsWindow, Holds, Streaming!SlotOf, SlotBefore

LEMMA CurrentFields ==
    /\ pc = "idle" => Streaming!Current.next = next /\ Streaming!Current.size = windowSize
    /\ pc \in {"gear", "fill"} =>
          Streaming!Current.next = nextCopy /\ Streaming!Current.size = sizeCopy
    /\ pc = "roll" => Streaming!Current.next = nextCopy /\ Streaming!Current.size = PolynomialWindow
BY DEF Streaming!Current

LEMMA CurrentFieldsNext ==
    /\ pc' = "idle" => Streaming!Current.next' = next' /\ Streaming!Current.size' = windowSize'
    /\ pc' \in {"gear", "fill"} =>
          Streaming!Current.next' = nextCopy' /\ Streaming!Current.size' = sizeCopy'
    /\ pc' = "roll" =>
          Streaming!Current.next' = nextCopy' /\ Streaming!Current.size' = PolynomialWindow
BY DEF Streaming!Current

-----------------------------------------------------------------------------
\* The steps

LEMMA InitRing == Streaming!Init => RingInv
<1> SUFFICES ASSUME Streaming!Init PROVE RingInv
    OBVIOUS
<1>1. 0 \in Streaming!Slots /\ 0 \in Streaming!Bytes
    BY PrefixAssumption DEF Streaming!Slots, Streaming!Bytes
<1>2. RingTypeOK /\ LoopsAreOfKind
    BY <1>1 DEF Streaming!Init, RingTypeOK, LoopsAreOfKind
<1>3. Holds(window, next, windowSize, fed)
    BY DEF Streaming!Init, Holds
<1>4. Streaming!RingHoldsWindow
    BY <1>3, RingIsHeld, CurrentFields DEF Streaming!Init
<1> QED
    BY <1>2, <1>4 DEF RingInv

\* One byte of the polynomial hash, in a scan or outside.
LEMMA HoldsAfter ==
    ASSUME RingInv, kind = "polynomial", NEW b \in Streaming!Bytes, NEW n \in Streaming!Slots,
           NEW size \in 0 .. PolynomialWindow,
           n = Streaming!Current.next, size = Streaming!Current.size,
           window' = [window EXCEPT ![n] = b], fed' = Append(fed, b)
    PROVE  /\ Holds(window', Streaming!NextSlot(n),
                    IF size < PolynomialWindow THEN size + 1 ELSE PolynomialWindow, fed')
           /\ window' \in [Streaming!Slots -> Streaming!Bytes] /\ fed' \in Seq(Streaming!Bytes)
<1>1. Holds(window, n, size, fed)
    BY RingIsHeld DEF RingInv
<1>2. window \in [Streaming!Slots -> Streaming!Bytes] /\ fed \in Seq(Streaming!Bytes)
    BY DEF RingInv, RingTypeOK
<1>3. Holds([window EXCEPT ![n] = b], Streaming!NextSlot(n),
            IF size < PolynomialWindow THEN size + 1 ELSE PolynomialWindow, Append(fed, b))
    BY <1>1, <1>2, EnterByte
<1> QED
    BY <1>2, <1>3

LEMMA AddByteRing ==
    ASSUME RingInv, NEW b \in Streaming!Bytes, Streaming!AddByte(b)
    PROVE  RingInv'
<1>1. /\ pc = "idle" /\ pc' = "idle" /\ fed' = Append(fed, b)
      /\ UNCHANGED <<kind, nextCopy, sizeCopy>>
    BY DEF Streaming!AddByte, Streaming!Feed, Streaming!copies
<1>2. fed' \in Seq(Streaming!Bytes)
    BY <1>1 DEF RingInv, RingTypeOK
<1>3. CASE kind = "gear" /\ UNCHANGED <<next, windowSize, window>>
  <2>1. RingTypeOK' /\ LoopsAreOfKind'
    BY <1>1, <1>2, <1>3 DEF RingInv, RingTypeOK, LoopsAreOfKind
  <2>2. Streaming!RingHoldsWindow'
    BY <1>1, <1>3, RingIsHeldNext
  <2> QED
    BY <2>1, <2>2 DEF RingInv
<1>4. CASE /\ kind = "polynomial"
           /\ window' = [window EXCEPT ![next] = b]
           /\ next' = Streaming!NextSlot(next)
           /\ windowSize' = IF windowSize < PolynomialWindow THEN windowSize + 1 ELSE windowSize
  <2>1. next \in Streaming!Slots /\ windowSize \in 0 .. PolynomialWindow
    BY DEF RingInv, RingTypeOK
  <2>2. windowSize' = IF windowSize < PolynomialWindow THEN windowSize + 1 ELSE PolynomialWindow
    BY <1>4, <2>1
  <2>3. /\ Holds(window', next', windowSize', fed')
        /\ window' \in [Streaming!Slots -> Streaming!Bytes]
    BY <1>1, <1>4, <2>1, <2>2, HoldsAfter, CurrentFields
  <2>4. RingTypeOK' /\ LoopsAreOfKind'
    BY <1>1, <1>2, <1>4, <2>1, <2>2, <2>3, NextSlotType DEF RingInv, RingTypeOK, LoopsAreOfKind
  <2>5. Streaming!RingHoldsWindow'
    BY <1>1, <2>3, RingIsHeldNext, CurrentFieldsNext
  <2> QED
    BY <2>4, <2>5 DEF RingInv
<1> QED
    BY <1>3, <1>4 DEF Streaming!AddByte

LEMMA StartScanRing ==
    ASSUME RingInv, NEW m, NEW l, NEW n, Streaming!StartScan(m, l, n)
    PROVE  RingInv'
<1>1. /\ pc = "idle" /\ nextCopy' = next /\ sizeCopy' = windowSize
      /\ pc' = (IF kind = "gear" THEN "gear" ELSE "fill")
      /\ UNCHANGED <<kind, next, windowSize, window, fed>>
    BY DEF Streaming!StartScan, Streaming!fields
<1>2. RingTypeOK' /\ LoopsAreOfKind'
    BY <1>1 DEF RingInv, RingTypeOK, LoopsAreOfKind
<1>3. /\ Streaming!Current.next' = Streaming!Current.next
      /\ Streaming!Current.size' = Streaming!Current.size
    BY <1>1, CurrentFields, CurrentFieldsNext
<1>4. Streaming!RingHoldsWindow'
    BY <1>1, <1>3, RingIsHeld, RingIsHeldNext DEF RingInv
<1> QED
    BY <1>2, <1>4 DEF RingInv

\* A byte of the Gear hash leaves the ring alone.
LEMMA GearByteRing ==
    ASSUME RingInv, NEW b \in Streaming!Bytes, Streaming!GearByte(b)
    PROVE  RingInv'
<1>1. /\ pc = "gear" /\ fed' = Append(fed, b)
      /\ UNCHANGED <<kind, next, windowSize, window, nextCopy, sizeCopy>>
      /\ pc' \in {"idle", "gear"}
    BY DEF Streaming!GearByte, Streaming!Feed, Streaming!Step, Streaming!Store, Streaming!fields
<1>2. kind = "gear"
    BY <1>1 DEF RingInv, LoopsAreOfKind
<1>3. fed' \in Seq(Streaming!Bytes)
    BY <1>1 DEF RingInv, RingTypeOK
<1>4. RingTypeOK' /\ LoopsAreOfKind'
    BY <1>1, <1>2, <1>3 DEF RingInv, RingTypeOK, LoopsAreOfKind
<1>5. Streaming!RingHoldsWindow'
    BY <1>1, <1>2, RingIsHeldNext
<1> QED
    BY <1>4, <1>5 DEF RingInv

\* A scan's byte enters the ring by the copies; if it ends the scan the copies
\* become the fields.
LEMMA ScanByteRing ==
    ASSUME RingInv, NEW b \in Streaming!Bytes, NEW v, NEW size \in 0 .. PolynomialWindow,
           pc \in {"fill", "roll"},
           size = IF Streaming!Current.size < PolynomialWindow
                  THEN Streaming!Current.size + 1 ELSE PolynomialWindow,
           window' = [window EXCEPT ![nextCopy] = b],
           nextCopy' = Streaming!NextSlot(nextCopy),
           sizeCopy' = size,
           Streaming!Step(v, nextCopy', size),
           fed' = Append(fed, b)
    PROVE  RingInv'
<1>1. /\ kind = "polynomial" /\ kind' = kind
      /\ nextCopy \in Streaming!Slots /\ nextCopy = Streaming!Current.next
      /\ Streaming!Current.size \in 0 .. PolynomialWindow
    BY CurrentFields DEF Streaming!Step, RingInv, LoopsAreOfKind, RingTypeOK
<1>2. /\ Holds(window', nextCopy', size, fed')
      /\ window' \in [Streaming!Slots -> Streaming!Bytes] /\ fed' \in Seq(Streaming!Bytes)
    BY <1>1, HoldsAfter
<1>3. /\ nextCopy' \in Streaming!Slots
      /\ pc = "roll" => size = PolynomialWindow
    BY <1>1, NextSlotType, CurrentFields
<1>4. CASE pc' = "idle" /\ next' = nextCopy' /\ windowSize' = size
  <2>1. RingTypeOK' /\ LoopsAreOfKind'
    BY <1>1, <1>2, <1>3, <1>4 DEF RingInv, RingTypeOK, LoopsAreOfKind
  <2>2. Streaming!RingHoldsWindow'
    BY <1>2, <1>4, RingIsHeldNext, CurrentFieldsNext
  <2> QED
    BY <2>1, <2>2 DEF RingInv
<1>5. CASE pc' = pc /\ UNCHANGED <<next, windowSize>>
  <2>1. RingTypeOK' /\ LoopsAreOfKind'
    BY <1>1, <1>2, <1>3, <1>5 DEF RingInv, RingTypeOK, LoopsAreOfKind
  <2>2. Streaming!RingHoldsWindow'
    BY <1>2, <1>3, <1>5, RingIsHeldNext, CurrentFieldsNext
  <2> QED
    BY <2>1, <2>2 DEF RingInv
<1>6. \/ pc' = "idle" /\ next' = nextCopy' /\ windowSize' = size
      \/ pc' = pc /\ UNCHANGED <<next, windowSize>>
    BY DEF Streaming!Step, Streaming!Store, Streaming!fields
<1> QED
    BY <1>4, <1>5, <1>6

LEMMA FillByteRing ==
    ASSUME RingInv, NEW b \in Streaming!Bytes, Streaming!FillByte(b)
    PROVE  RingInv'
<1>1. /\ pc = "fill" /\ sizeCopy < PolynomialWindow /\ sizeCopy' = sizeCopy + 1
      /\ window' = [window EXCEPT ![nextCopy] = b]
      /\ nextCopy' = Streaming!NextSlot(nextCopy)
      /\ Streaming!Step(Streaming!Fill(value, b), nextCopy', sizeCopy')
      /\ fed' = Append(fed, b)
    BY DEF Streaming!FillByte, Streaming!Feed
<1>2. /\ sizeCopy \in 0 .. PolynomialWindow /\ Streaming!Current.size = sizeCopy
    BY <1>1, CurrentFields DEF RingInv, RingTypeOK
<1>3. /\ sizeCopy' \in 0 .. PolynomialWindow
      /\ sizeCopy' = IF Streaming!Current.size < PolynomialWindow THEN Streaming!Current.size + 1
                     ELSE PolynomialWindow
    BY <1>1, <1>2
<1> QED
    BY <1>1, <1>3, ScanByteRing

LEMMA RollByteRing ==
    ASSUME RingInv, NEW b \in Streaming!Bytes, Streaming!RollByte(b)
    PROVE  RingInv'
<1> DEFINE v == Streaming!Wrap(value * Base + b - window[nextCopy] * Streaming!RemovalFactor
                               + Streaming!RollingAdjustment)
<1>1. /\ pc = "roll" /\ sizeCopy' = sizeCopy
      /\ window' = [window EXCEPT ![nextCopy] = b]
      /\ nextCopy' = Streaming!NextSlot(nextCopy)
      /\ Streaming!Step(v, nextCopy', PolynomialWindow)
      /\ fed' = Append(fed, b)
    BY DEF Streaming!RollByte, Streaming!Feed
<1> HIDE DEF v
<1>2. sizeCopy = PolynomialWindow /\ Streaming!Current.size = PolynomialWindow
    BY <1>1, CurrentFields DEF RingInv, LoopsAreOfKind
<1>3. /\ PolynomialWindow \in 0 .. PolynomialWindow /\ sizeCopy' = PolynomialWindow
      /\ PolynomialWindow = IF Streaming!Current.size < PolynomialWindow
                            THEN Streaming!Current.size + 1
                            ELSE PolynomialWindow
    BY <1>1, <1>2
<1> QED
    BY <1>1, <1>2, <1>3, ScanByteRing

LEMMA WindowFilledRing == RingInv /\ Streaming!WindowFilled => RingInv'
<1> SUFFICES ASSUME RingInv, Streaming!WindowFilled PROVE RingInv'
    OBVIOUS
<1>1. /\ pc = "fill" /\ pc' = "roll" /\ sizeCopy >= PolynomialWindow
      /\ UNCHANGED <<kind, next, windowSize, window, nextCopy, sizeCopy, fed>>
    BY DEF Streaming!WindowFilled, Streaming!fields, Streaming!copies
<1>2. RingTypeOK' /\ LoopsAreOfKind' /\ sizeCopy = PolynomialWindow
    BY <1>1 DEF RingInv, RingTypeOK, LoopsAreOfKind
<1>3. Streaming!RingHoldsWindow'
    BY <1>1, <1>2, RingIsHeld, RingIsHeldNext, CurrentFields, CurrentFieldsNext DEF RingInv
<1> QED
    BY <1>2, <1>3 DEF RingInv

LEMMA EndScanRing == RingInv /\ Streaming!EndScan => RingInv'
<1> SUFFICES ASSUME RingInv, Streaming!EndScan PROVE RingInv'
    OBVIOUS
<1>1. /\ pc \in {"gear", "fill", "roll"} /\ pc' = "idle"
      /\ next' = nextCopy
      /\ windowSize' = (IF pc = "roll" THEN PolynomialWindow ELSE sizeCopy)
      /\ UNCHANGED <<kind, window, nextCopy, sizeCopy, fed>>
    BY DEF Streaming!EndScan, Streaming!Store, Streaming!copies
<1>2. RingTypeOK' /\ LoopsAreOfKind'
    BY <1>1 DEF RingInv, RingTypeOK, LoopsAreOfKind
<1>3. Streaming!RingHoldsWindow'
    BY <1>1, RingIsHeld, RingIsHeldNext, CurrentFields, CurrentFieldsNext DEF RingInv
<1> QED
    BY <1>2, <1>3 DEF RingInv

LEMMA NextRing == RingInv /\ [Streaming!Next]_(Streaming!vars) => RingInv'
<1> SUFFICES ASSUME RingInv, [Streaming!Next]_(Streaming!vars) PROVE RingInv'
    OBVIOUS
<1>1. CASE UNCHANGED Streaming!vars
  <2>1. UNCHANGED <<kind, pc, next, windowSize, window, nextCopy, sizeCopy, fed>>
    BY <1>1 DEF Streaming!vars, Streaming!fields, Streaming!copies
  <2>2. RingTypeOK' /\ LoopsAreOfKind'
    BY <2>1 DEF RingInv, RingTypeOK, LoopsAreOfKind
  <2>3. Streaming!RingHoldsWindow'
    BY <2>1, RingIsHeld, RingIsHeldNext, CurrentFields, CurrentFieldsNext DEF RingInv, RingTypeOK
  <2> QED
    BY <2>2, <2>3 DEF RingInv
<1> QED
    BY <1>1, AddByteRing, StartScanRing, GearByteRing, FillByteRing, RollByteRing,
       WindowFilledRing, EndScanRing DEF Streaming!Next

-----------------------------------------------------------------------------
\* The hash of a stream

\* The hash of the first n bytes of a stream.
HashOf(hashKind, stream, n) ==
    IF hashKind = "gear" THEN GearWindow(stream, 1, n)
    ELSE PolynomialOf(stream, IF n > PolynomialWindow THEN n - PolynomialWindow + 1 ELSE 1, n)

\* The scanners and the streaming hash compute with the same operators.
LEMMA SameOperators ==
    /\ Streaming!TwoTo = TwoTo /\ Streaming!BaseTo = BaseTo
    /\ \A n : Streaming!Wrap(n) = Wrap(n)
    /\ Streaming!RemovalFactor = RemovalFactor
    /\ Streaming!RollingAdjustment = RollingAdjustment
    /\ \A h, b : Streaming!GearStep(h, b) = GearStep(h, b)
    /\ \A h, o, b : Streaming!RollPolynomial(h, o, b) = RollPolynomial(h, o, b)
<1>1. Streaming!TwoTo = TwoTo /\ Streaming!BaseTo = BaseTo
    BY DEF Streaming!TwoTo, TwoTo, Streaming!BaseTo, BaseTo
<1>2. \A n : Streaming!Wrap(n) = Wrap(n)
    BY <1>1 DEF Streaming!Wrap, Wrap
<1>3. Streaming!RemovalFactor = RemovalFactor
    BY <1>1, <1>2 DEF Streaming!RemovalFactor, RemovalFactor
<1>4. Streaming!RollingAdjustment = RollingAdjustment
    BY <1>2, <1>3 DEF Streaming!RollingAdjustment, RollingAdjustment
<1>5. \A h, b : Streaming!GearStep(h, b) = GearStep(h, b)
    BY <1>2 DEF Streaming!GearStep, GearStep
<1>6. \A h, o, b : Streaming!RollPolynomial(h, o, b) = RollPolynomial(h, o, b)
    BY <1>2, <1>3 DEF Streaming!RollPolynomial, RollPolynomial,
       Streaming!OutgoingAdjustment, OutgoingAdjustment
<1> QED
    BY <1>1, <1>2, <1>3, <1>4, <1>5, <1>6

LEMMA SameWindows ==
    \A b, f, l : /\ Streaming!GearWindow(b, f, l) = GearWindow(b, f, l)
                 /\ Streaming!PolynomialOf(b, f, l) = PolynomialOf(b, f, l)
BY SameOperators DEF Streaming!GearWindow, GearWindow, Streaming!PolynomialOf, PolynomialOf

LEMMA HashAfterIs == \A n : Streaming!HashAfter(n) = HashOf(kind, fed, n)
BY SameWindows DEF Streaming!HashAfter, HashOf

\* The bytes of a stream, and of one with a byte more.
LEMMA Appended ==
    ASSUME NEW stream \in Seq(Streaming!Bytes), NEW b \in Streaming!Bytes
    PROVE  /\ Len(stream) \in Nat /\ Len(Append(stream, b)) = Len(stream) + 1
           /\ Append(stream, b) \in Seq(Streaming!Bytes)
           /\ \A p \in 1 .. Len(stream) : Append(stream, b)[p] = stream[p]
           /\ Append(stream, b)[Len(stream) + 1] = b
           /\ \A p \in 1 .. (Len(stream) + 1) :
                 /\ Append(stream, b)[p] \in Streaming!Bytes
                 /\ Append(stream, b)[p] \in Nat
                 /\ Gear[Append(stream, b)[p]] \in Nat
           /\ b \in Nat
<1>1. /\ Len(stream) \in Nat /\ Len(Append(stream, b)) = Len(stream) + 1
      /\ Append(stream, b) \in Seq(Streaming!Bytes)
      /\ \A p \in 1 .. Len(stream) :
            Append(stream, b)[p] = stream[p] /\ stream[p] \in Streaming!Bytes
      /\ Append(stream, b)[Len(stream) + 1] = b
    OBVIOUS
<1>2. \A a \in Streaming!Bytes : a \in Nat /\ Gear[a] \in Nat
  <2>1. \A a \in Streaming!Bytes : a \in Nat /\ a \in DOMAIN Gear
    BY PrefixAssumption DEF Streaming!Bytes
  <2>2. \A a \in DOMAIN Gear : Gear[a] \in Nat
    BY GearAssumption
  <2> QED
    BY <2>1, <2>2
<1> DEFINE longer == Append(stream, b)
<1>3. ASSUME NEW p \in 1 .. (Len(stream) + 1)
      PROVE  longer[p] \in Streaming!Bytes
  <2> HIDE DEF longer
  <2>1. p \in 1 .. Len(stream) \/ p = Len(stream) + 1
    BY <1>1
  <2> QED
    BY <1>1, <2>1 DEF longer
<1> HIDE DEF longer
<1> QED
    BY <1>1, <1>2, <1>3 DEF longer

\* The hashes of a stream stay as they are when it goes on.
LEMMA HashOfStays ==
    ASSUME NEW hashKind, NEW stream \in Seq(Streaming!Bytes), NEW b \in Streaming!Bytes,
           NEW n \in 0 .. Len(stream)
    PROVE  HashOf(hashKind, Append(stream, b), n) = HashOf(hashKind, stream, n)
<1> DEFINE longer == Append(stream, b)
           first == IF n > PolynomialWindow THEN n - PolynomialWindow + 1 ELSE 1
<1>1. \A p \in 1 .. n : longer[p] = stream[p]
    BY Appended
<1>2. first \in Int /\ first >= 1 /\ first <= n + 1
    BY PolynomialAssumption
<1> HIDE DEF longer, first
<1>3. GearWindow(longer, 1, n) = GearWindow(stream, 1, n)
    BY <1>1, WindowsAgree
<1>4. PolynomialOf(longer, first, n) = PolynomialOf(stream, first, n)
  <2>1. \A p \in first .. n : longer[p] = stream[p]
    BY <1>1, <1>2
  <2>2. n \in Int
    OBVIOUS
  <2> QED
    BY <1>2, <2>1, <2>2, WindowsAgree
<1> QED
    BY <1>3, <1>4 DEF HashOf, longer, first

\* The hash of a stream that goes on by a byte: whether the window fills or rolls,
\* and whichever way the removal is computed.
LEMMA HashOfNext ==
    ASSUME NEW hashKind, NEW stream \in Seq(Streaming!Bytes), NEW b \in Streaming!Bytes
    PROVE  LET n == Len(stream)
               hash0 == HashOf(hashKind, stream, n)
               hash1 == HashOf(hashKind, Append(stream, b), n + 1)
           IN  /\ hash0 \in 0 .. (Modulus - 1)
               /\ hashKind = "gear" => hash1 = GearStep(hash0, b)
               /\ hashKind # "gear" /\ n < PolynomialWindow => hash1 = Wrap(hash0 * Base + b + 1)
               /\ hashKind # "gear" /\ n >= PolynomialWindow =>
                     LET outgoing == stream[n - PolynomialWindow + 1]
                     IN  /\ hash1 = RollPolynomial(hash0, outgoing, b)
                         /\ hash1 = Wrap(hash0 * Base + b - outgoing * RemovalFactor
                                         + RollingAdjustment)
<1> DEFINE n == Len(stream)
           longer == Append(stream, b)
           hash0 == HashOf(hashKind, stream, n)
           hash1 == HashOf(hashKind, Append(stream, b), n + 1)
<1>1. /\ n \in Nat /\ longer[n + 1] = b
      /\ \A p \in 1 .. n : longer[p] = stream[p]
      /\ \A p \in 1 .. (n + 1) : longer[p] \in Nat /\ Gear[longer[p]] \in Nat
    BY Appended
<1>2. hash0 = HashOf(hashKind, longer, n)
  <2>1. n \in 0 .. Len(stream)
    BY <1>1
  <2> QED
    BY <2>1, HashOfStays
<1>3. PolynomialWindow \in Nat \ {0}
    BY PolynomialAssumption
<1> HIDE DEF longer, n
<1>4. CASE hashKind = "gear"
  <2>1. /\ GearWindow(longer, 1, n + 1) = GearStep(GearWindow(longer, 1, n), longer[n + 1])
        /\ GearWindow(longer, 1, n) \in 0 .. (Modulus - 1)
    BY <1>1, GearRolls
  <2> QED
    BY <1>1, <1>2, <1>4, <2>1 DEF HashOf, longer, n
<1>5. CASE hashKind # "gear" /\ n < PolynomialWindow
  <2>1. /\ PolynomialOf(longer, 1, n + 1)
              = Wrap(PolynomialOf(longer, 1, n) * Base + longer[n + 1] + 1)
        /\ PolynomialOf(longer, 1, n) \in 0 .. (Modulus - 1)
    BY <1>1, PolynomialFills
  <2>2. ~ (n > PolynomialWindow) /\ ~ (n + 1 > PolynomialWindow) /\ ~ (n >= PolynomialWindow)
    BY <1>1, <1>3, <1>5
  <2>3. /\ HashOf(hashKind, longer, n) = PolynomialOf(longer, 1, n)
        /\ HashOf(hashKind, longer, n + 1) = PolynomialOf(longer, 1, n + 1)
    BY <1>5, <2>2 DEF HashOf
  <2> QED
    BY <1>1, <1>2, <1>5, <2>1, <2>2, <2>3 DEF longer, n
<1>6. CASE hashKind # "gear" /\ n >= PolynomialWindow
  <2> DEFINE first == n - PolynomialWindow + 1
  <2>1. /\ first \in 1 .. n /\ n - first + 1 = PolynomialWindow
        /\ (IF n > PolynomialWindow THEN n - PolynomialWindow + 1 ELSE 1) = first
        /\ (IF n + 1 > PolynomialWindow THEN n + 1 - PolynomialWindow + 1 ELSE 1) = first + 1
        /\ ~ (n < PolynomialWindow)
    BY <1>1, <1>3, <1>6
  <2>2. /\ HashOf(hashKind, longer, n) = PolynomialOf(longer, first, n)
        /\ HashOf(hashKind, longer, n + 1) = PolynomialOf(longer, first + 1, n + 1)
    <3> HIDE DEF first
    <3>1. HashOf(hashKind, longer, n) = PolynomialOf(longer, first, n)
      BY <1>6, <2>1 DEF HashOf
    <3>2. HashOf(hashKind, longer, n + 1) = PolynomialOf(longer, first + 1, n + 1)
      <4> DEFINE m == n + 1
                 second == first + 1
      <4>1. m > PolynomialWindow /\ m - PolynomialWindow + 1 = second
        BY <1>1, <1>3, <1>6 DEF first
      <4> HIDE DEF m, second
      <4>2. HashOf(hashKind, longer, m) = PolynomialOf(longer, second, m)
        BY <1>6, <4>1 DEF HashOf
      <4> QED
        BY <4>2 DEF m, second
    <3> QED
      BY <3>1, <3>2
  <2>3. \A p \in first .. (n + 1) : longer[p] \in Nat
    BY <1>1, <2>1
  <2>4. longer[first] = stream[first]
    BY <1>1, <2>1
  <2>5. PolynomialOf(longer, first, n) \in 0 .. (Modulus - 1)
    <3>1. first <= n + 1 /\ n \in Int /\ first \in Int
      BY <1>1, <2>1
    <3> HIDE DEF first
    <3> QED
      BY <2>3, <3>1, PolynomialFills
  <2>6. /\ PolynomialOf(longer, first + 1, n + 1)
              = RollPolynomial(PolynomialOf(longer, first, n), longer[first], longer[n + 1])
        /\ PolynomialOf(longer, first + 1, n + 1)
              = Wrap(PolynomialOf(longer, first, n) * Base + longer[n + 1]
                     - longer[first] * RemovalFactor + RollingAdjustment)
    <3>1. n \in Int /\ first \in Int
      BY <1>1, <2>1
    <3> HIDE DEF first
    <3> QED
      BY <2>1, <2>3, <3>1, PolynomialRolls
  <2> QED
    BY <1>1, <1>2, <1>6, <2>1, <2>2, <2>4, <2>5, <2>6 DEF longer, n
<1> QED
    BY <1>1, <1>3, <1>4, <1>5, <1>6 DEF n

LEMMA HashesAre == Streaming!Hashes = 0 .. (Modulus - 1)
BY SameOperators DEF Streaming!Hashes, Modulus

-----------------------------------------------------------------------------
\* The hash in a scan and outside

HashIsCurrent == (IF pc = "idle" THEN hash ELSE value) = HashOf(kind, fed, Len(fed))

\* The hashes of a stream after 0, 1, ... bytes.
HashesOf(hashKind, stream) == [n \in 0 .. Len(stream) |-> HashOf(hashKind, stream, n)]

\* What a scan of n bytes has found when it was called after c bytes with the
\* maximum m0: the largest hash m, and whether the last one ended it.
ScanIs(h, c, n, bound, m0, m, ended) ==
    /\ m = m0 \/ \E j \in (c + 1) .. (c + n) : m = h[j]
    /\ m0 <= m /\ \A j \in (c + 1) .. (c + n) : h[j] <= m
    /\ \A j \in (c + 1) .. (c + n - 1) : ~ (h[j] > bound /\ h[j] > m0)
    /\ ended <=> n > 0 /\ h[c + n] > bound /\ h[c + n] > m0

ScanInv ==
    /\ called.fed \in Nat /\ called.maximum \in Streaming!Hashes
    /\ called.fed + scanned <= Len(fed)
    /\ pc # "idle" => Len(fed) = called.fed + scanned /\ ~ exceeded
    /\ pc = "idle" /\ ~ exceeded => scanned = dataLen
    /\ ScanIs(HashesOf(kind, fed), called.fed, scanned, limit, called.maximum,
              maximumHash, exceeded)

SearchInv == RingInv /\ Streaming!TypeOK /\ HashIsCurrent /\ ScanInv

\* A scan that has not begun.
LEMMA ScanBegins ==
    ASSUME NEW h, NEW c \in Nat, NEW bound \in Int, NEW m0 \in Int
    PROVE  ScanIs(h, c, 0, bound, m0, m0, FALSE)
BY DEF ScanIs

\* What was found stays true when the stream goes on.
LEMMA ScanStays ==
    ASSUME NEW h, NEW g, NEW c \in Nat, NEW n \in Nat, NEW bound, NEW m0, NEW m, NEW ended,
           ScanIs(h, c, n, bound, m0, m, ended), \A j \in 1 .. (c + n) : g[j] = h[j]
    PROVE  ScanIs(g, c, n, bound, m0, m, ended)
<1>1. /\ \A j \in (c + 1) .. (c + n) : g[j] = h[j]
      /\ \A j \in (c + 1) .. (c + n - 1) : g[j] = h[j]
      /\ n > 0 => g[c + n] = h[c + n]
    OBVIOUS
<1> QED
    BY <1>1 DEF ScanIs

\* One byte more: a hash that exceeds the largest one so far and the limit is the
\* first to exceed the given maximum and the limit.
LEMMA ScanGoesOn ==
    ASSUME NEW h, NEW c \in Nat, NEW n \in Nat, NEW bound \in Int, NEW m0 \in Int, NEW m \in Int,
           NEW v \in Int, ScanIs(h, c, n, bound, m0, m, FALSE), h[c + n + 1] = v,
           \A j \in 1 .. (c + n) : h[j] \in Int
    PROVE  ScanIs(h, c, n + 1, bound, m0, IF m < v THEN v ELSE m, m < v /\ bound < v)
<1> DEFINE m1 == IF m < v THEN v ELSE m
           ended == m < v /\ bound < v
           last == c + n + 1
<1>0. last \in Nat /\ c + (n + 1) = last /\ c + (n + 1) - 1 = c + n /\ h[last] = v
    OBVIOUS
<1>1. \A j \in (c + 1) .. last : j \in (c + 1) .. (c + n) \/ j = last
    OBVIOUS
<1>2. /\ last \in (c + 1) .. last
      /\ \A j \in (c + 1) .. (c + n) : j \in (c + 1) .. last /\ j \in 1 .. (c + n)
    OBVIOUS
<1>3. \A j \in (c + 1) .. (c + n) : ~ (h[j] > bound /\ h[j] > m0)
  <2> SUFFICES ASSUME NEW j \in (c + 1) .. (c + n) PROVE ~ (h[j] > bound /\ h[j] > m0)
    OBVIOUS
  <2>1. CASE j = c + n
    <3>1. n > 0
      BY <2>1
    <3> QED
      BY <2>1, <3>1 DEF ScanIs
  <2>2. CASE j # c + n
    <3>1. j \in (c + 1) .. (c + n - 1)
      BY <2>2
    <3> QED
      BY <3>1 DEF ScanIs
  <2> QED
    BY <2>1, <2>2
<1>4. ended <=> v > bound /\ v > m0
  <2>1. m0 <= m
    BY DEF ScanIs
  <2>2. CASE m = m0
    BY <2>2
  <2>3. CASE \E j \in (c + 1) .. (c + n) : m = h[j]
    <3>1. ~ (m > bound /\ m > m0)
      BY <1>3, <2>3
    <3> QED
      BY <2>1, <3>1
  <2> QED
    BY <2>2, <2>3 DEF ScanIs
<1>5. m1 = m0 \/ \E j \in (c + 1) .. last : m1 = h[j]
  <2>1. CASE m < v
    BY <1>0, <1>2, <2>1
  <2>2. CASE ~ (m < v)
    <3>1. m1 = m
      BY <2>2
    <3> QED
      BY <1>2, <3>1 DEF ScanIs
  <2> QED
    BY <2>1, <2>2
<1>6. m0 <= m1 /\ m <= m1 /\ v <= m1 /\ m1 \in Int
    BY DEF ScanIs
<1>7. ASSUME NEW j \in (c + 1) .. last PROVE h[j] <= m1
  <2>1. CASE j = last
    BY <1>0, <1>6, <2>1
  <2>2. CASE j # last
    <3>1. j \in (c + 1) .. (c + n)
      BY <1>1, <2>2
    <3>2. h[j] <= m /\ h[j] \in Int
      BY <1>2, <3>1 DEF ScanIs
    <3> HIDE DEF m1
    <3> QED
      BY <1>6, <3>2
  <2> QED
    BY <2>1, <2>2
<1> HIDE DEF m1, ended, last
<1>8. /\ m1 = m0 \/ \E j \in (c + 1) .. (c + (n + 1)) : m1 = h[j]
      /\ m0 <= m1 /\ \A j \in (c + 1) .. (c + (n + 1)) : h[j] <= m1
      /\ \A j \in (c + 1) .. (c + (n + 1) - 1) : ~ (h[j] > bound /\ h[j] > m0)
      /\ ended <=> n + 1 > 0 /\ h[c + (n + 1)] > bound /\ h[c + (n + 1)] > m0
    BY <1>0, <1>3, <1>4, <1>5, <1>6, <1>7
<1>9. ScanIs(h, c, n + 1, bound, m0, m1, ended)
    BY <1>8 DEF ScanIs
<1> QED
    BY <1>9 DEF m1, ended

\* The hashes of a stream are numbers, and stay as they are when it goes on.
LEMMA HashesOfNext ==
    ASSUME NEW hashKind, NEW stream \in Seq(Streaming!Bytes), NEW b \in Streaming!Bytes
    PROVE  /\ \A j \in 0 .. Len(stream) :
                 /\ HashesOf(hashKind, Append(stream, b))[j] = HashesOf(hashKind, stream)[j]
                 /\ HashesOf(hashKind, stream)[j] = HashOf(hashKind, stream, j)
           /\ HashesOf(hashKind, Append(stream, b))[Len(stream) + 1]
                 = HashOf(hashKind, Append(stream, b), Len(stream) + 1)
<1>1. Len(stream) \in Nat /\ Len(Append(stream, b)) = Len(stream) + 1
    BY Appended
<1>2. ASSUME NEW j \in 0 .. Len(stream)
      PROVE  HashesOf(hashKind, Append(stream, b))[j] = HashesOf(hashKind, stream)[j]
  <2>1. HashesOf(hashKind, Append(stream, b))[j] = HashOf(hashKind, Append(stream, b), j)
    BY <1>1 DEF HashesOf
  <2> QED
    BY <2>1, HashOfStays DEF HashesOf
<1>3. \A j \in 0 .. Len(stream) : HashesOf(hashKind, stream)[j] = HashOf(hashKind, stream, j)
    BY DEF HashesOf
<1>4. HashesOf(hashKind, Append(stream, b))[Len(stream) + 1]
        = HashOf(hashKind, Append(stream, b), Len(stream) + 1)
  <2>1. Len(stream) + 1 \in 0 .. Len(Append(stream, b))
    BY <1>1
  <2> QED
    BY <2>1 DEF HashesOf
<1> QED
    BY <1>2, <1>3, <1>4

\* Every hash of a stream is in range.
LEMMA HashesInRange ==
    ASSUME NEW hashKind, NEW stream \in Seq(Streaming!Bytes), NEW n \in 0 .. Len(stream)
    PROVE  HashOf(hashKind, stream, n) \in 0 .. (Modulus - 1)
<1>1. PolynomialWindow \in Nat \ {0} /\ n \in Nat
    BY PolynomialAssumption
<1>2. \A p \in 1 .. n : stream[p] \in Nat /\ Gear[stream[p]] \in Nat
  <2>1. \A p \in 1 .. n : stream[p] \in Streaming!Bytes
    OBVIOUS
  <2>2. \A a \in Streaming!Bytes : a \in Nat /\ a \in DOMAIN Gear
    BY PrefixAssumption DEF Streaming!Bytes
  <2>3. \A a \in DOMAIN Gear : Gear[a] \in Nat
    BY GearAssumption
  <2> QED
    BY <2>1, <2>2, <2>3
<1>3. CASE n = 0
  <2>1. GearWindow(stream, 1, 0) = 0 /\ PolynomialOf(stream, 1, 0) = 0
    <3> DEFINE first == 1
               last == 0
    <3>1. first \in Int /\ last \in Int /\ last + 1 = first
      OBVIOUS
    <3> HIDE DEF first, last
    <3>2. GearWindow(stream, first, last) = 0 /\ PolynomialOf(stream, first, last) = 0
      BY <3>1, EmptyWindows
    <3> QED
      BY <3>2 DEF first, last
  <2>2. HashOf(hashKind, stream, 0) = 0
    BY <1>1, <2>1 DEF HashOf
  <2> QED
    BY <1>3, <2>2, ModulusIsPositive
<1>4. CASE n # 0
  <2> DEFINE first == IF n > PolynomialWindow THEN n - PolynomialWindow + 1 ELSE 1
             m == n - 1
  <2>1. first \in Int /\ first >= 1 /\ first <= m + 1 /\ m \in Int /\ m + 1 = n /\ 1 <= m + 1
    BY <1>1, <1>4
  <2> HIDE DEF first, m
  <2>2. GearWindow(stream, 1, m + 1) = GearStep(GearWindow(stream, 1, m), stream[m + 1])
        /\ GearWindow(stream, 1, m) \in 0 .. (Modulus - 1)
    BY <1>2, <2>1, GearRolls
  <2>3. /\ PolynomialOf(stream, first, m + 1)
              = Wrap(PolynomialOf(stream, first, m) * Base + stream[m + 1] + 1)
        /\ PolynomialOf(stream, first, m) \in 0 .. (Modulus - 1)
    <3>1. \A p \in first .. (m + 1) : stream[p] \in Nat
      BY <1>2, <2>1
    <3> QED
      BY <2>1, <3>1, PolynomialFills
  <2>4. GearWindow(stream, 1, n) \in 0 .. (Modulus - 1)
    <3> DEFINE h == GearWindow(stream, 1, m)
               g == Gear[stream[n]]
    <3>1. h \in Nat /\ g \in Nat
      BY <1>2, <1>4, <2>2, ModulusIsPositive
    <3> HIDE DEF h, g
    <3>2. Wrap(2 * h + g) \in 0 .. (Modulus - 1)
      <4>1. 2 * h + g \in Int
        BY <3>1
      <4> QED
        BY <4>1, SameAsWrapped
    <3> QED
      BY <2>1, <2>2, <3>2 DEF GearStep, h, g
  <2>5. PolynomialOf(stream, first, n) \in 0 .. (Modulus - 1)
    <3> DEFINE h == PolynomialOf(stream, first, m)
               g == stream[n]
    <3>1. h \in Nat /\ g \in Nat /\ Base \in Nat
      BY <1>2, <1>4, <2>3, ModulusIsPositive, PolynomialAssumption
    <3> HIDE DEF h, g
    <3>2. Wrap(h * Base + g + 1) \in 0 .. (Modulus - 1)
      <4>1. h * Base \in Nat
        BY <3>1, ProductIsNatural
      <4>2. h * Base + g + 1 \in Int
        BY <3>1, <4>1
      <4> QED
        BY <4>2, SameAsWrapped
    <3> QED
      BY <2>1, <2>3, <3>2 DEF h, g
  <2> QED
    BY <2>4, <2>5 DEF HashOf, first
<1> QED
    BY <1>3, <1>4

-----------------------------------------------------------------------------
\* The steps of the search

\* A byte of a scan: its hash is the next one of the stream.
LEMMA ScanByteSearch ==
    ASSUME SearchInv, RingInv', NEW b \in Streaming!Bytes, NEW v, NEW n, NEW size,
           pc # "idle", scanned < dataLen,
           fed' = Append(fed, b), Streaming!Step(v, n, size),
           v = HashOf(kind, fed', Len(fed) + 1)
    PROVE  SearchInv'
<1> DEFINE h0 == HashesOf(kind, fed)
           h1 == HashesOf(kind, fed')
           m0 == called.maximum
           c == called.fed
<1>1. /\ fed \in Seq(Streaming!Bytes) /\ fed' \in Seq(Streaming!Bytes)
      /\ Len(fed) \in Nat /\ Len(fed') = Len(fed) + 1
    BY Appended DEF SearchInv, Streaming!TypeOK
<1>2. /\ c \in Nat /\ scanned \in Nat /\ c + scanned = Len(fed) /\ ~ exceeded
      /\ limit \in Nat /\ m0 \in Nat /\ maximumHash \in Nat /\ dataLen \in Nat
      /\ ScanIs(h0, c, scanned, limit, m0, maximumHash, exceeded)
      /\ exceeded \in BOOLEAN
  <2>1. Streaming!Hashes \subseteq Nat
    BY HashesAre, ModulusIsPositive
  <2>2. ScanIs(h0, c, scanned, limit, m0, maximumHash, exceeded)
    BY DEF SearchInv, ScanInv
  <2>3. c \in Nat /\ m0 \in Nat
    BY <2>1 DEF SearchInv, ScanInv
  <2>4. c + scanned = Len(fed) /\ ~ exceeded
    BY DEF SearchInv, ScanInv
  <2>5. /\ scanned \in Nat /\ limit \in Nat /\ maximumHash \in Nat /\ dataLen \in Nat
        /\ exceeded \in BOOLEAN
    BY <2>1 DEF SearchInv, Streaming!TypeOK
  <2> QED
    BY <2>2, <2>3, <2>4, <2>5
<1>3. v \in Streaming!Hashes /\ v \in Nat
  <2>1. Len(fed) + 1 \in 0 .. Len(fed')
    BY <1>1
  <2>2. v \in 0 .. (Modulus - 1)
    BY <1>1, <2>1, HashesInRange
  <2> QED
    BY <2>2, HashesAre, ModulusIsPositive
<1>4. \A j \in 1 .. (c + scanned) : h1[j] = h0[j] /\ h0[j] \in Int
  <2> SUFFICES ASSUME NEW j \in 1 .. (c + scanned) PROVE h1[j] = h0[j] /\ h0[j] \in Int
    OBVIOUS
  <2>1. j \in 0 .. Len(fed)
    BY <1>1, <1>2
  <2>2. h1[j] = h0[j] /\ h0[j] = HashOf(kind, fed, j)
    BY <1>1, <2>1, HashesOfNext
  <2>3. HashOf(kind, fed, j) \in 0 .. (Modulus - 1)
    BY <1>1, <2>1, HashesInRange
  <2> QED
    BY <2>2, <2>3
<1>5. h1[c + scanned + 1] = v
    BY <1>1, <1>2, HashesOfNext
<1> HIDE DEF h0, h1, c, m0
<1>6. ScanIs(h1, c, scanned, limit, m0, maximumHash, FALSE)
  <2>1. ScanIs(h0, c, scanned, limit, m0, maximumHash, FALSE)
    BY <1>2
  <2> QED
    BY <1>2, <1>4, <2>1, ScanStays
<1>7. ScanIs(h1, c, scanned + 1, limit, m0, IF maximumHash < v THEN v ELSE maximumHash,
             maximumHash < v /\ limit < v)
  <2>1. \A j \in 1 .. (c + scanned) : h1[j] \in Int
    BY <1>4
  <2>2. limit \in Int /\ m0 \in Int /\ maximumHash \in Int /\ v \in Int
    BY <1>2, <1>3
  <2> QED
    BY <1>2, <1>5, <1>6, <2>1, <2>2, ScanGoesOn
<1>8. /\ value' = v /\ scanned' = scanned + 1
      /\ maximumHash' = (IF maximumHash < v THEN v ELSE maximumHash)
      /\ UNCHANGED <<kind, dataLen, limit, called>>
      /\ \/ Streaming!ExceedsLimit(v) /\ exceeded' = TRUE /\ pc' = "idle" /\ hash' = v
         \/ ~ Streaming!ExceedsLimit(v) /\ UNCHANGED <<exceeded, pc, hash>>
    BY DEF Streaming!Step, Streaming!Store, Streaming!fields
<1>9. Streaming!ExceedsLimit(v) <=> maximumHash < v /\ limit < v
    BY DEF Streaming!ExceedsLimit
<1>10. exceeded' \in BOOLEAN /\ (exceeded' <=> maximumHash < v /\ limit < v)
  <2>1. CASE Streaming!ExceedsLimit(v)
    BY <1>8, <1>9, <2>1
  <2>2. CASE ~ Streaming!ExceedsLimit(v)
    <3>1. exceeded' = exceeded
      BY <1>8, <2>2
    <3> QED
      BY <1>2, <1>9, <2>2, <3>1
  <2> QED
    BY <2>1, <2>2
<1>11. HashIsCurrent'
    BY <1>1, <1>8 DEF HashIsCurrent
<1>12. ScanInv'
  <2>1. called' = called /\ HashesOf(kind', fed') = h1 /\ c = called.fed /\ m0 = called.maximum
    BY <1>8 DEF h1, c, m0
  <2>2. exceeded' = (maximumHash < v /\ limit < v)
    BY <1>10
  <2>3. ScanIs(h1, c, scanned', limit', m0, maximumHash', exceeded')
    BY <1>7, <1>8, <2>2
  <2>4. c + scanned' = Len(fed') /\ c + scanned' <= Len(fed')
    BY <1>1, <1>2, <1>8
  <2>5. (pc' # "idle" => ~ exceeded') /\ (pc' = "idle" => exceeded')
    BY <1>2, <1>8
  <2>6. c \in Nat /\ m0 \in Streaming!Hashes
    BY DEF SearchInv, ScanInv, c, m0
  <2> QED
    BY <2>1, <2>3, <2>4, <2>5, <2>6 DEF ScanInv
<1>13. Streaming!TypeOK'
  <2>1. /\ limit \in Streaming!Hashes /\ maximumHash \in Streaming!Hashes
        /\ hash \in Streaming!Hashes /\ scanned \in 0 .. dataLen
    BY DEF SearchInv, Streaming!TypeOK
  <2>2. scanned' \in 0 .. dataLen' /\ dataLen' \in Nat
    BY <1>2, <1>8
  <2>3. /\ limit' \in Streaming!Hashes /\ maximumHash' \in Streaming!Hashes
        /\ hash' \in Streaming!Hashes /\ value' \in Streaming!Hashes
    BY <1>3, <1>8, <2>1
  <2> QED
    BY <1>10, <2>2, <2>3 DEF Streaming!TypeOK, RingInv, RingTypeOK
<1> QED
    BY <1>11, <1>12, <1>13 DEF SearchInv

\* What the ring says of the byte that is about to leave it.
LEMMA OutgoingByte ==
    ASSUME SearchInv, kind = "polynomial"
    PROVE  /\ Streaming!Current.size < PolynomialWindow => Len(fed) < PolynomialWindow
           /\ Streaming!Current.size >= PolynomialWindow =>
                 /\ Len(fed) >= PolynomialWindow
                 /\ window[Streaming!Current.next] = fed[Len(fed) - PolynomialWindow + 1]
<1> DEFINE n == Streaming!Current.next
           size == Streaming!Current.size
<1>1. Holds(window, n, size, fed)
    BY RingIsHeld DEF SearchInv, RingInv
<1>2. n \in Streaming!Slots /\ Len(fed) \in Nat
    BY CurrentFields DEF SearchInv, RingInv, RingTypeOK
<1> HIDE DEF n, size
<1>3. size = IF Len(fed) < PolynomialWindow THEN Len(fed) ELSE PolynomialWindow
    BY <1>1 DEF Holds
<1>4. ASSUME size >= PolynomialWindow
      PROVE  window[n] = fed[Len(fed) - PolynomialWindow + 1]
  <2>1. size = PolynomialWindow /\ PolynomialWindow \in 1 .. size
    BY <1>2, <1>3, <1>4
  <2>2. SlotBefore(n, PolynomialWindow) = n
    BY <1>2 DEF SlotBefore, Streaming!Slots
  <2> QED
    BY <1>1, <2>1, <2>2 DEF Holds
<1> QED
    BY <1>2, <1>3, <1>4 DEF n, size

LEMMA InitSearch == Streaming!Init => SearchInv
<1> SUFFICES ASSUME Streaming!Init PROVE SearchInv
    OBVIOUS
<1>1. RingInv
    BY InitRing
<1>2. 0 \in Streaming!Hashes
    BY HashesAre, ModulusIsPositive
<1>3. Streaming!TypeOK
  <2>1. scanned \in 0 .. dataLen /\ dataLen \in Nat
    BY DEF Streaming!Init
  <2>2. /\ hash \in Streaming!Hashes /\ value \in Streaming!Hashes /\ exceeded \in BOOLEAN
        /\ maximumHash \in Streaming!Hashes /\ limit \in Streaming!Hashes
    BY <1>2 DEF Streaming!Init
  <2> QED
    BY <1>1, <2>1, <2>2 DEF Streaming!TypeOK, RingInv, RingTypeOK
<1>4. /\ pc = "idle" /\ hash = 0 /\ fed = <<>> /\ Len(fed) = 0 /\ scanned = 0 /\ dataLen = 0
      /\ called = [fed |-> 0, maximum |-> 0] /\ maximumHash = 0 /\ limit = 0 /\ exceeded = FALSE
    BY DEF Streaming!Init
<1>5. HashIsCurrent
  <2> DEFINE first == 1
             last == 0
  <2>1. first \in Int /\ last \in Int /\ last + 1 = first
    OBVIOUS
  <2> HIDE DEF first, last
  <2>2. GearWindow(fed, first, last) = 0 /\ PolynomialOf(fed, first, last) = 0
    BY <2>1, EmptyWindows
  <2>3. HashOf(kind, fed, 0) = 0
    BY <2>2 DEF HashOf, first, last
  <2> QED
    BY <1>4, <2>3 DEF HashIsCurrent
<1>6. ScanInv
  <2> DEFINE h == HashesOf(kind, fed)
  <2> HIDE DEF h
  <2>1. called.fed \in Nat /\ limit \in Int /\ called.maximum \in Int
    BY <1>4
  <2>2. ScanIs(h, called.fed, 0, limit, called.maximum, called.maximum, FALSE)
    BY <2>1, ScanBegins
  <2>3. called.maximum = maximumHash /\ called.fed + scanned <= Len(fed)
    BY <1>4
  <2>4. ScanIs(h, called.fed, scanned, limit, called.maximum, maximumHash, exceeded)
    BY <1>4, <2>2, <2>3
  <2>5. called.maximum \in Streaming!Hashes
    BY <1>2, <1>4
  <2> QED
    BY <1>4, <2>1, <2>3, <2>4, <2>5 DEF ScanInv, h
<1> QED
    BY <1>1, <1>3, <1>5, <1>6 DEF SearchInv

LEMMA AddByteSearch ==
    ASSUME SearchInv, RingInv', NEW b \in Streaming!Bytes, Streaming!AddByte(b)
    PROVE  SearchInv'
<1>1. /\ pc = "idle" /\ pc' = "idle" /\ fed' = Append(fed, b)
      /\ kind' = kind
      /\ UNCHANGED <<value, nextCopy, sizeCopy, dataLen, scanned, maximumHash, limit, exceeded,
                     called>>
    BY DEF Streaming!AddByte, Streaming!Feed, Streaming!copies, Streaming!scan
<1>2. /\ fed \in Seq(Streaming!Bytes) /\ fed' \in Seq(Streaming!Bytes)
      /\ Len(fed) \in Nat /\ Len(fed') = Len(fed) + 1
    BY <1>1, Appended DEF SearchInv, Streaming!TypeOK
<1>3. hash = HashOf(kind, fed, Len(fed))
    BY <1>1 DEF SearchInv, HashIsCurrent
<1> DEFINE hash1 == HashOf(kind, fed', Len(fed) + 1)
<1>4. hash' = hash1
  <2>1. CASE kind = "gear" /\ hash' = Streaming!GearStep(hash, b)
    <3>1. hash1 = GearStep(hash, b)
      BY <1>1, <1>2, <1>3, <2>1, HashOfNext
    <3> QED
      BY <2>1, <3>1, SameOperators
  <2>2. CASE /\ kind = "polynomial" /\ windowSize < PolynomialWindow
             /\ hash' = Streaming!Fill(hash, b)
    <3>1. Len(fed) < PolynomialWindow
      BY <1>1, <2>2, CurrentFields, OutgoingByte
    <3>2. hash1 = Wrap(hash * Base + b + 1)
      BY <1>1, <1>2, <1>3, <2>2, <3>1, HashOfNext
    <3> QED
      BY <2>2, <3>2, SameOperators DEF Streaming!Fill
  <2>3. CASE /\ kind = "polynomial" /\ ~ (windowSize < PolynomialWindow)
             /\ hash' = Streaming!RollPolynomial(hash, window[next], b)
    <3>1. windowSize >= PolynomialWindow
      BY <2>3 DEF SearchInv, Streaming!TypeOK
    <3>2. /\ Len(fed) >= PolynomialWindow
          /\ window[next] = fed[Len(fed) - PolynomialWindow + 1]
      BY <1>1, <2>3, <3>1, CurrentFields, OutgoingByte
    <3>3. hash1 = RollPolynomial(hash, window[next], b)
      BY <1>1, <1>2, <1>3, <2>3, <3>2, HashOfNext
    <3> QED
      BY <2>3, <3>3, SameOperators
  <2> QED
    BY <2>1, <2>2, <2>3 DEF Streaming!AddByte
<1>5. hash1 \in Streaming!Hashes
  <2>1. Len(fed) + 1 \in 0 .. Len(fed')
    BY <1>2
  <2> QED
    BY <1>2, <2>1, HashesInRange, HashesAre
<1> HIDE DEF hash1
<1>6. Streaming!TypeOK'
    BY <1>1, <1>4, <1>5 DEF SearchInv, Streaming!TypeOK, RingInv, RingTypeOK
<1>7. HashIsCurrent'
    BY <1>1, <1>2, <1>4 DEF HashIsCurrent, hash1
<1>8. ScanInv'
  <2> DEFINE h0 == HashesOf(kind, fed)
             h1 == HashesOf(kind, fed')
             c == called.fed
             m0 == called.maximum
  <2>1. c \in Nat /\ scanned \in Nat /\ c + scanned <= Len(fed) /\ m0 \in Streaming!Hashes
    BY DEF SearchInv, ScanInv, Streaming!TypeOK
  <2>2. \A j \in 1 .. (c + scanned) : h1[j] = h0[j]
    <3> SUFFICES ASSUME NEW j \in 1 .. (c + scanned) PROVE h1[j] = h0[j]
      OBVIOUS
    <3>1. j \in 0 .. Len(fed)
      BY <1>2, <2>1
    <3> QED
      BY <1>1, <1>2, <3>1, HashesOfNext
  <2>3. ScanIs(h0, c, scanned, limit, m0, maximumHash, exceeded)
    BY DEF SearchInv, ScanInv
  <2> HIDE DEF h0, h1, c, m0
  <2>4. ScanIs(h1, c, scanned, limit, m0, maximumHash, exceeded)
    BY <2>1, <2>2, <2>3, ScanStays
  <2>5. ~ exceeded => scanned = dataLen
    BY <1>1 DEF SearchInv, ScanInv
  <2>6. c + scanned <= Len(fed')
    BY <1>2, <2>1
  <2> QED
    BY <1>1, <2>1, <2>4, <2>5, <2>6 DEF ScanInv, h1, c, m0
<1> QED
    BY <1>6, <1>7, <1>8 DEF SearchInv

LEMMA StartScanSearch ==
    ASSUME SearchInv, RingInv', NEW m \in Thresholds, NEW bound \in Thresholds,
           NEW n \in 0 .. MaxData, Streaming!StartScan(m, bound, n)
    PROVE  SearchInv'
<1>1. /\ pc = "idle" /\ pc' # "idle" /\ value' = hash /\ nextCopy' = next /\ sizeCopy' = windowSize
      /\ maximumHash' = m /\ limit' = bound /\ dataLen' = n /\ scanned' = 0 /\ exceeded' = FALSE
      /\ called' = [fed |-> Len(fed), maximum |-> m]
      /\ UNCHANGED <<kind, hash, fed>>
    BY DEF Streaming!StartScan, Streaming!fields
<1>2. m \in Streaming!Hashes /\ bound \in Streaming!Hashes /\ n \in Nat
    BY StreamingConstants DEF Streaming!StreamingAssumption, Streaming!Hashes
<1>3. Len(fed) \in Nat
    BY DEF SearchInv, Streaming!TypeOK
<1>4. Streaming!TypeOK'
  <2>1. scanned' \in 0 .. dataLen' /\ dataLen' \in Nat
    BY <1>1, <1>2
  <2> QED
    BY <1>1, <1>2, <2>1 DEF SearchInv, Streaming!TypeOK, RingInv, RingTypeOK
<1>5. HashIsCurrent'
    BY <1>1 DEF SearchInv, HashIsCurrent
<1>6. ScanInv'
  <2> DEFINE h == HashesOf(kind, fed)
             c == Len(fed)
  <2>1. m \in Int /\ bound \in Int
    BY <1>2, HashesAre
  <2> HIDE DEF h, c
  <2>2. ScanIs(h, c, 0, bound, m, m, FALSE)
    BY <1>3, <2>1, ScanBegins DEF c
  <2>3. called'.fed = c /\ called'.maximum = m /\ c = Len(fed')
    BY <1>1 DEF c
  <2>4. HashesOf(kind', fed') = h
    BY <1>1 DEF h
  <2>5. ScanIs(HashesOf(kind', fed'), called'.fed, scanned', limit', called'.maximum,
               maximumHash', exceeded')
    BY <1>1, <2>2, <2>3, <2>4
  <2>6. called'.fed + scanned' = Len(fed') /\ called'.fed \in Nat
    BY <1>1, <1>3, <2>3 DEF c
  <2>7. called'.fed + scanned' <= Len(fed')
    BY <1>1, <1>3, <2>6
  <2> QED
    BY <1>1, <1>2, <2>3, <2>5, <2>6, <2>7 DEF ScanInv
<1> QED
    BY <1>4, <1>5, <1>6 DEF SearchInv

LEMMA GearByteSearch ==
    ASSUME SearchInv, RingInv', NEW b \in Streaming!Bytes, Streaming!GearByte(b)
    PROVE  SearchInv'
<1> DEFINE v == Streaming!GearStep(value, b)
<1>1. /\ pc = "gear" /\ scanned < dataLen /\ fed' = Append(fed, b)
      /\ Streaming!Step(v, next, windowSize)
    BY DEF Streaming!GearByte, Streaming!Feed
<1>2. kind = "gear" /\ value = HashOf(kind, fed, Len(fed)) /\ fed \in Seq(Streaming!Bytes)
    BY <1>1 DEF SearchInv, RingInv, LoopsAreOfKind, HashIsCurrent, Streaming!TypeOK
<1>3. v = HashOf(kind, fed', Len(fed) + 1)
  <2>1. HashOf(kind, fed', Len(fed) + 1) = GearStep(value, b)
    BY <1>1, <1>2, HashOfNext
  <2> QED
    BY <2>1, SameOperators
<1> HIDE DEF v
<1> QED
    BY <1>1, <1>3, ScanByteSearch

LEMMA FillByteSearch ==
    ASSUME SearchInv, RingInv', NEW b \in Streaming!Bytes, Streaming!FillByte(b)
    PROVE  SearchInv'
<1> DEFINE v == Streaming!Fill(value, b)
<1>1. /\ pc = "fill" /\ scanned < dataLen /\ sizeCopy < PolynomialWindow /\ fed' = Append(fed, b)
      /\ Streaming!Step(v, nextCopy', sizeCopy')
    BY DEF Streaming!FillByte, Streaming!Feed
<1>2. kind = "polynomial" /\ value = HashOf(kind, fed, Len(fed)) /\ fed \in Seq(Streaming!Bytes)
    BY <1>1 DEF SearchInv, RingInv, LoopsAreOfKind, HashIsCurrent, Streaming!TypeOK
<1>3. v = HashOf(kind, fed', Len(fed) + 1)
  <2>1. Len(fed) < PolynomialWindow
    BY <1>1, <1>2, CurrentFields, OutgoingByte
  <2>2. HashOf(kind, fed', Len(fed) + 1) = Wrap(value * Base + b + 1)
    BY <1>1, <1>2, <2>1, HashOfNext
  <2> QED
    BY <2>2, SameOperators DEF Streaming!Fill
<1> HIDE DEF v
<1> QED
    BY <1>1, <1>3, ScanByteSearch

LEMMA RollByteSearch ==
    ASSUME SearchInv, RingInv', NEW b \in Streaming!Bytes, Streaming!RollByte(b)
    PROVE  SearchInv'
<1> DEFINE v == Streaming!Wrap(value * Base + b - window[nextCopy] * Streaming!RemovalFactor
                               + Streaming!RollingAdjustment)
<1>1. /\ pc = "roll" /\ scanned < dataLen /\ fed' = Append(fed, b)
      /\ Streaming!Step(v, nextCopy', PolynomialWindow)
    BY DEF Streaming!RollByte, Streaming!Feed
<1>2. kind = "polynomial" /\ value = HashOf(kind, fed, Len(fed)) /\ fed \in Seq(Streaming!Bytes)
    BY <1>1 DEF SearchInv, RingInv, LoopsAreOfKind, HashIsCurrent, Streaming!TypeOK
<1>3. v = HashOf(kind, fed', Len(fed) + 1)
  <2>1. Streaming!Current.next = nextCopy /\ Streaming!Current.size = PolynomialWindow
    BY <1>1, CurrentFields
  <2>2. /\ Len(fed) >= PolynomialWindow
        /\ window[nextCopy] = fed[Len(fed) - PolynomialWindow + 1]
    BY <1>2, <2>1, OutgoingByte
  <2>3. HashOf(kind, fed', Len(fed) + 1)
          = Wrap(value * Base + b - window[nextCopy] * RemovalFactor + RollingAdjustment)
    BY <1>1, <1>2, <2>2, HashOfNext
  <2> QED
    BY <2>3, SameOperators
<1> HIDE DEF v
<1> QED
    BY <1>1, <1>3, ScanByteSearch

\* The other steps hand in no byte.
LEMMA QuietSearch ==
    ASSUME SearchInv, RingInv', pc' # "idle" <=> pc # "idle" , UNCHANGED <<kind, fed>>,
           UNCHANGED <<value, hash, dataLen, scanned, maximumHash, limit, exceeded, called>>
    PROVE  SearchInv'
<1>1. Streaming!TypeOK'
    BY DEF SearchInv, Streaming!TypeOK, RingInv, RingTypeOK
<1>2. HashIsCurrent'
    BY DEF SearchInv, HashIsCurrent
<1>3. ScanInv'
    BY DEF SearchInv, ScanInv
<1> QED
    BY <1>1, <1>2, <1>3 DEF SearchInv

LEMMA EndScanSearch == ASSUME SearchInv, RingInv', Streaming!EndScan PROVE SearchInv'
<1>1. /\ pc # "idle" /\ pc' = "idle" /\ scanned = dataLen /\ hash' = value
      /\ UNCHANGED <<kind, fed, value, dataLen, scanned, maximumHash, limit, exceeded, called>>
    BY DEF Streaming!EndScan, Streaming!Store, Streaming!copies, Streaming!scan
<1>2. Streaming!TypeOK'
    BY <1>1 DEF SearchInv, Streaming!TypeOK, RingInv, RingTypeOK
<1>3. HashIsCurrent'
    BY <1>1 DEF SearchInv, HashIsCurrent
<1>4. ScanInv'
    BY <1>1 DEF SearchInv, ScanInv
<1> QED
    BY <1>2, <1>3, <1>4 DEF SearchInv

LEMMA NextSearch == ASSUME SearchInv, [Streaming!Next]_(Streaming!vars) PROVE SearchInv'
<1>1. RingInv'
    BY NextRing DEF SearchInv
<1>2. CASE \E b \in Streaming!Bytes : Streaming!AddByte(b)
    BY <1>1, <1>2, AddByteSearch
<1>3. CASE \E m, bound \in Thresholds, n \in 0 .. MaxData : Streaming!StartScan(m, bound, n)
    BY <1>1, <1>3, StartScanSearch
<1>4. CASE \E b \in Streaming!Bytes :
              Streaming!GearByte(b) \/ Streaming!FillByte(b) \/ Streaming!RollByte(b)
    BY <1>1, <1>4, GearByteSearch, FillByteSearch, RollByteSearch
<1>5. CASE Streaming!WindowFilled
  <2>1. /\ pc' # "idle" /\ pc # "idle" /\ UNCHANGED <<kind, fed>>
        /\ UNCHANGED <<value, hash, dataLen, scanned, maximumHash, limit, exceeded, called>>
    BY <1>5 DEF Streaming!WindowFilled, Streaming!fields, Streaming!copies, Streaming!scan
  <2> QED
    BY <1>1, <2>1, QuietSearch
<1>6. CASE Streaming!EndScan
    BY <1>1, <1>6, EndScanSearch
<1>7. CASE UNCHANGED Streaming!vars
  <2>1. /\ pc' = pc /\ UNCHANGED <<kind, fed>>
        /\ UNCHANGED <<value, hash, dataLen, scanned, maximumHash, limit, exceeded, called>>
    BY <1>7 DEF Streaming!vars, Streaming!fields, Streaming!copies, Streaming!scan
  <2> QED
    BY <1>1, <2>1, QuietSearch
<1> QED
    BY <1>2, <1>3, <1>4, <1>5, <1>6, <1>7 DEF Streaming!Next

-----------------------------------------------------------------------------
\* Numbers of several bytes

\* What holds of 0, and with a number of the next one, holds of every number.
LEMMA AllNumbers ==
    ASSUME NEW S, 0 \in S, \A n \in Nat : n \in S => n + 1 \in S
    PROVE  \A n \in Nat : n \in S
<1> DEFINE bad == {n \in Nat : n \notin S}
<1> SUFFICES ASSUME bad # {} PROVE FALSE
    OBVIOUS
<1>1. PICK n \in bad : \A m \in bad : n <= m
  <2>1. bad \in SUBSET Nat
    OBVIOUS
  <2> HIDE DEF bad
  <2> QED
    BY <2>1, LeastMember
<1>2. n # 0
    BY <1>1
<1>3. n - 1 \in Nat /\ n - 1 \in S /\ (n - 1) + 1 = n
  <2>1. n - 1 \in Nat /\ ~ (n <= n - 1) /\ (n - 1) + 1 = n
    BY <1>1, <1>2
  <2> QED
    BY <1>1, <2>1
<1> QED
    BY <1>1, <1>3

\* Powers of a positive number are positive, and their exponents add up.
LEMMA PowersArePositive ==
    ASSUME NEW c \in Nat, c > 0, NEW G, G[0] = 1, \A n \in Nat : G[n + 1] = c * G[n]
    PROVE  \A n \in Nat : G[n] \in Nat /\ G[n] > 0
<1> DEFINE S == {n \in Nat : G[n] \in Nat /\ G[n] > 0}
<1>1. 0 \in S
    OBVIOUS
<1>2. ASSUME NEW n \in Nat, n \in S PROVE n + 1 \in S
  <2>1. c * G[n] \in Nat /\ c * G[n] > 0
    BY <1>2
  <2> QED
    BY <2>1
<1>3. \A n \in Nat : n \in S
  <2> HIDE DEF S
  <2> QED
    BY <1>1, <1>2, AllNumbers
<1> QED
    BY <1>3

LEMMA PowersAdd ==
    ASSUME NEW c \in Nat, NEW G, G[0] = 1, \A n \in Nat : G[n + 1] = c * G[n],
           \A n \in Nat : G[n] \in Nat, NEW m \in Nat
    PROVE  \A n \in Nat : G[m + n] = G[m] * G[n]
<1> DEFINE S == {n \in Nat : G[m + n] = G[m] * G[n]}
<1>1. 0 \in S
  <2>1. m + 0 = m /\ G[m] \in Nat
    OBVIOUS
  <2> QED
    BY <2>1
<1>2. ASSUME NEW n \in Nat, n \in S PROVE n + 1 \in S
  <2> DEFINE x == G[m]
             y == G[n]
  <2>1. m + (n + 1) = (m + n) + 1 /\ m + n \in Nat
    OBVIOUS
  <2>2. G[(m + n) + 1] = c * G[m + n] /\ G[n + 1] = c * y
    BY <2>1
  <2>3. G[m + n] = x * y /\ x \in Nat /\ y \in Nat
    BY <1>2
  <2> HIDE DEF x, y
  <2>4. c * (x * y) = x * (c * y)
    BY <2>3
  <2>5. G[m + (n + 1)] = x * G[n + 1]
    BY <2>1, <2>2, <2>3, <2>4
  <2> QED
    BY <2>5 DEF x
<1>3. \A n \in Nat : n \in S
  <2> HIDE DEF S
  <2> QED
    BY <1>1, <1>2, AllNumbers
<1> QED
    BY <1>3

Digit == Top + 1

LEMMA DigitIsPositive == Digit \in Nat /\ Digit > 0 /\ Top = Digit - 1
BY PrefixAssumption DEF Digit

LEMMA DigitToGrows ==
    DigitTo[0] = 1 /\ \A n \in Nat : DigitTo[n + 1] = Digit * DigitTo[n]
<1>1. DigitTo = CHOOSE g : g = [n \in Nat |-> IF n = 0 THEN 1 ELSE Digit * g[n - 1]]
    BY DEF DigitTo, Digit
<1>2. Digit \in Int
    BY DigitIsPositive
<1> QED
    BY <1>1, <1>2, PowersRecur

LEMMA DigitToIsPositive == \A n \in Nat : DigitTo[n] \in Nat /\ DigitTo[n] > 0
BY DigitIsPositive, DigitToGrows, PowersArePositive

LEMMA DigitToAdds == \A m, n \in Nat : DigitTo[m + n] = DigitTo[m] * DigitTo[n]
BY DigitIsPositive, DigitToGrows, DigitToIsPositive, PowersAdd

LEMMA TwoToAdds == \A m, n \in Nat : TwoTo[m + n] = TwoTo[m] * TwoTo[n]
BY TwoToDoubles, TwoToIsPositive, PowersAdd

\* What a byte adds to the number.
NumberTerms(b, first, last) == [p \in first .. last |-> b[p] * DigitTo[last - p]]

LEMMA NumberUnfolds ==
    ASSUME NEW b, NEW first \in Int, NEW last \in Int, first <= last + 1
    PROVE  \E t : /\ NumberOf(b, first, last) = t[first]
                  /\ Adds(NumberTerms(b, first, last), first, last + 1, t)
<1> DEFINE top == last + 1
           dom == first .. top
           Body(f, p) == IF p = top THEN 0 ELSE b[p] * DigitTo[last - p] + f[p + 1]
           term == NumberTerms(b, first, last)
           sum == CHOOSE f : f = [p \in dom |-> Body(f, p)]
<1>1. PICK g : Adds(term, first, top, g)
  <2> DEFINE n == top - first
  <2>1. n \in Nat /\ top \in Int /\ top - n = first
    OBVIOUS
  <2> HIDE DEF n, top, term
  <2> QED
    BY <2>1, SumsExist
<1> DEFINE f0 == [p \in dom |-> g[p]]
<1>2. f0 = [p \in dom |-> Body(f0, p)]
  <2>1. ASSUME NEW p \in dom PROVE g[p] = Body(f0, p)
    <3>1. CASE p = top
      BY <1>1, <3>1 DEF Adds
    <3>2. CASE p # top
      <4>1. p \in first .. (top - 1) /\ p + 1 \in dom /\ p \in first .. last
        BY <3>2
      <4>2. f0[p + 1] = g[p + 1]
        BY <4>1
      <4>3. g[p] = term[p] + g[p + 1]
        BY <1>1, <4>1 DEF Adds
      <4>4. term[p] = b[p] * DigitTo[last - p]
        BY <4>1 DEF NumberTerms
      <4> HIDE DEF f0, top, term
      <4> QED
        BY <3>2, <4>2, <4>3, <4>4
    <3> QED
      BY <3>1, <3>2
  <2> HIDE DEF Body, dom
  <2> QED
    BY <2>1
<1>3. sum = [p \in dom |-> Body(sum, p)]
  <2> HIDE DEF f0, Body, dom
  <2> QED
    BY <1>2
<1>4. NumberOf(b, first, last) = sum[first]
    BY DEF NumberOf
<1> HIDE DEF sum
<1>5. \A p \in dom : sum[p] = Body(sum, p)
  <2> HIDE DEF Body, dom
  <2> QED
    BY <1>3
<1>6. Adds(term, first, top, sum)
  <2>1. sum[top] = 0
    <3>1. top \in dom
      OBVIOUS
    <3> QED
      BY <1>5, <3>1
  <2>2. ASSUME NEW p \in first .. (top - 1) PROVE sum[p] = term[p] + sum[p + 1]
    <3>1. p \in dom /\ p # top /\ p \in first .. last
      OBVIOUS
    <3>2. sum[p] = b[p] * DigitTo[last - p] + sum[p + 1]
      BY <1>5, <3>1
    <3>3. term[p] = b[p] * DigitTo[last - p]
      BY <3>1 DEF NumberTerms
    <3> HIDE DEF term
    <3> QED
      BY <3>2, <3>3
  <2> HIDE DEF term, top
  <2> QED
    BY <2>1, <2>2 DEF Adds
<1> QED
    BY <1>4, <1>6

LEMMA EmptyNumber ==
    ASSUME NEW b, NEW first \in Int, NEW last \in Int, last + 1 = first
    PROVE  NumberOf(b, first, last) = 0
BY NumberUnfolds DEF Adds

\* A number of one byte more.
LEMMA NumberGrows ==
    ASSUME NEW b, NEW first \in Int, NEW last \in Int, first <= last + 1,
           \A p \in first .. (last + 1) : b[p] \in Nat
    PROVE  /\ NumberOf(b, first, last + 1) = NumberOf(b, first, last) * Digit + b[last + 1]
           /\ NumberOf(b, first, last) \in Nat
<1> DEFINE g == b[last + 1]
           termT == NumberTerms(b, first, last)
           termU == NumberTerms(b, first, last + 1)
<1>0. Digit \in Nat
    BY DigitIsPositive
<1>1. PICK t : /\ NumberOf(b, first, last) = t[first]
               /\ Adds(termT, first, last + 1, t)
    BY NumberUnfolds
<1>2. PICK u : /\ NumberOf(b, first, last + 1) = u[first]
               /\ Adds(termU, first, (last + 1) + 1, u)
  <2> DEFINE next1 == last + 1
  <2>1. next1 \in Int /\ first <= next1 + 1
    OBVIOUS
  <2> HIDE DEF next1
  <2>2. \E u : /\ NumberOf(b, first, next1) = u[first]
               /\ Adds(NumberTerms(b, first, next1), first, next1 + 1, u)
    BY <2>1, NumberUnfolds
  <2> QED
    BY <2>2 DEF next1
<1>3. ASSUME NEW p \in first .. last
      PROVE  termT[p] \in Nat /\ termU[p] = Digit * termT[p]
  <2> DEFINE c == b[p]
             x == DigitTo[last - p]
             y == DigitTo[last + 1 - p]
  <2>1. termT[p] = c * x /\ termU[p] = c * y
    BY DEF NumberTerms
  <2>2. c \in Nat /\ x \in Nat /\ y = Digit * x
    <3>1. last - p \in Nat /\ last + 1 - p = (last - p) + 1
      OBVIOUS
    <3>2. p \in first .. (last + 1)
      OBVIOUS
    <3> QED
      BY <3>1, <3>2, DigitToGrows, DigitToIsPositive
  <2> HIDE DEF c, x, y
  <2>3. c * x \in Nat /\ c * y = Digit * (c * x)
    <3>1. c * x \in Nat
      BY <2>2, ProductIsNatural
    <3>2. c * (Digit * x) = Digit * (c * x)
      BY <1>0, <2>2
    <3> QED
      BY <2>2, <3>1, <3>2
  <2> QED
    BY <2>1, <2>3 DEF c, x
<1>4. termU[last + 1] = g /\ g \in Nat
  <2>1. last + 1 \in first .. (last + 1) /\ last + 1 - (last + 1) = 0
    OBVIOUS
  <2>2. termU[last + 1] = g * DigitTo[0] /\ g \in Nat
    BY <2>1 DEF NumberTerms
  <2> HIDE DEF g
  <2> QED
    BY <2>2, DigitToGrows
<1>5. \A p \in first .. (last + 1) : t[p] \in Nat /\ u[p] = Digit * t[p] + g
  <2> HIDE DEF termT, termU, g
  <2>1. \A p \in first .. last : termT[p] \in Nat /\ termU[p] = Digit * termT[p]
    BY <1>3
  <2> QED
    BY <1>0, <1>1, <1>2, <1>4, <2>1, SumsRoll
<1>6. first \in first .. (last + 1)
    OBVIOUS
<1>7. t[first] \in Nat /\ u[first] = Digit * t[first] + g /\ Digit * t[first] = t[first] * Digit
    BY <1>0, <1>5, <1>6
<1> QED
    BY <1>1, <1>2, <1>7

\* A number is below the power of a digit that its bytes need.
LEMMA NumberIsBelow ==
    ASSUME NEW b, NEW first \in Int, NEW last \in Int, first <= last + 1,
           \A p \in first .. last : b[p] \in 0 .. Top
    PROVE  /\ NumberOf(b, first, last) \in Nat
           /\ NumberOf(b, first, last) < DigitTo[last - first + 1]
<1> DEFINE N(n) == NumberOf(b, first, first - 1 + n)
           S == {n \in Nat : first - 1 + n <= last => N(n) \in Nat /\ N(n) < DigitTo[n]}
<1>1. 0 \in S
  <2>1. N(0) = 0
    BY EmptyNumber
  <2> QED
    BY <2>1, DigitToGrows
<1>2. ASSUME NEW n \in Nat, n \in S PROVE n + 1 \in S
  <2> SUFFICES ASSUME first - 1 + (n + 1) <= last
               PROVE  N(n + 1) \in Nat /\ N(n + 1) < DigitTo[n + 1]
    OBVIOUS
  <2> DEFINE end == first - 1 + n
             x == NumberOf(b, first, end)
             g == b[end + 1]
             y == DigitTo[n]
  <2>1. end \in Int /\ first <= end + 1 /\ end + 1 \in first .. last /\ first - 1 + (n + 1) = end + 1
    OBVIOUS
  <2>2. x \in Nat /\ x < y /\ y \in Nat
    BY <1>2, DigitToIsPositive
  <2>3. g \in 0 .. Top
    BY <2>1
  <2>4. \A p \in first .. (end + 1) : b[p] \in Nat
    BY <2>1, PrefixAssumption
  <2> HIDE DEF end
  <2>5. NumberOf(b, first, end + 1) = x * Digit + g
    BY <2>1, <2>4, NumberGrows
  <2>6. DigitTo[n + 1] = Digit * y
    BY DigitToGrows
  <2> HIDE DEF x, g, y
  <2>7. x * Digit \in Nat /\ x * Digit <= (y - 1) * Digit /\ (y - 1) * Digit = Digit * y - Digit
        /\ Digit * y \in Int
    BY <2>2, DigitIsPositive
  <2>8. x * Digit + g \in Nat /\ x * Digit + g < Digit * y
    <3> DEFINE u == x * Digit
               v == Digit * y
    <3>1. u \in Nat /\ v \in Int /\ u <= v - Digit /\ g \in 0 .. (Digit - 1)
      BY <2>3, <2>7, DigitIsPositive
    <3> HIDE DEF u, v
    <3>2. u + g \in Nat /\ u + g < v
      BY <3>1, DigitIsPositive
    <3> QED
      BY <3>2 DEF u, v
  <2> QED
    BY <2>1, <2>5, <2>6, <2>8
<1>3. \A n \in Nat : n \in S
  <2> HIDE DEF S
  <2> QED
    BY <1>1, <1>2, AllNumbers
<1>4. last - first + 1 \in Nat /\ first - 1 + (last - first + 1) = last
    OBVIOUS
<1> QED
    BY <1>3, <1>4

\* A number is that of its first bytes, shifted, and that of the others.
LEMMA NumberSplits ==
    ASSUME NEW b, NEW first \in Int, NEW mid \in Int, NEW last \in Int,
           first <= mid, mid <= last + 1, \A p \in first .. last : b[p] \in Nat
    PROVE  NumberOf(b, first, last)
              = NumberOf(b, first, mid - 1) * DigitTo[last - mid + 1] + NumberOf(b, mid, last)
<1> DEFINE N(n) == NumberOf(b, first, mid - 1 + n)
           A == NumberOf(b, first, mid - 1)
           M(n) == NumberOf(b, mid, mid - 1 + n)
           S == {n \in Nat : mid - 1 + n <= last => N(n) = A * DigitTo[n] + M(n)}
<1>1. 0 \in S
  <2> SUFFICES ASSUME mid - 1 + 0 <= last PROVE N(0) = A * DigitTo[0] + M(0)
    OBVIOUS
  <2>1. M(0) = 0 /\ mid - 1 + 0 = mid - 1
    BY EmptyNumber
  <2>2. A \in Int
    <3>1. CASE mid = first
      BY <3>1, EmptyNumber
    <3>2. CASE mid # first
      <4> DEFINE end == mid - 2
      <4>1. end \in Int /\ first <= end + 1 /\ end + 1 = mid - 1
        BY <3>2
      <4>2. \A p \in first .. (end + 1) : b[p] \in Nat
        BY <4>1
      <4> HIDE DEF end
      <4>3. /\ NumberOf(b, first, end + 1) = NumberOf(b, first, end) * Digit + b[end + 1]
            /\ NumberOf(b, first, end) \in Nat
        BY <4>1, <4>2, NumberGrows
      <4>4. b[end + 1] \in Nat
        BY <4>1, <4>2
      <4>5. NumberOf(b, first, end + 1) \in Int
        BY <4>3, <4>4, DigitIsPositive
      <4> QED
        BY <4>1, <4>5
    <3> QED
      BY <3>1, <3>2
  <2> HIDE DEF A
  <2>3. N(0) = A
    BY <2>1 DEF A
  <2> QED
    BY <2>1, <2>2, <2>3, DigitToGrows
<1>2. ASSUME NEW n \in Nat, n \in S PROVE n + 1 \in S
  <2> SUFFICES ASSUME mid - 1 + (n + 1) <= last PROVE N(n + 1) = A * DigitTo[n + 1] + M(n + 1)
    OBVIOUS
  <2> DEFINE end == mid - 1 + n
             x == NumberOf(b, first, end)
             z == NumberOf(b, mid, end)
             g == b[end + 1]
             y == DigitTo[n]
  <2>1. /\ end \in Int /\ first <= end + 1 /\ mid <= end + 1 /\ end + 1 \in first .. last
        /\ mid - 1 + (n + 1) = end + 1
    OBVIOUS
  <2>2. x = A * y + z /\ y \in Nat
    BY <1>2, DigitToIsPositive
  <2>3. /\ \A p \in first .. (end + 1) : b[p] \in Nat
        /\ \A p \in mid .. (end + 1) : b[p] \in Nat
        /\ g \in Nat
    BY <2>1
  <2> HIDE DEF end
  <2>4. NumberOf(b, first, end + 1) = x * Digit + g /\ x \in Nat
    BY <2>1, <2>3, NumberGrows
  <2>5. NumberOf(b, mid, end + 1) = z * Digit + g /\ z \in Nat
    BY <2>1, <2>3, NumberGrows
  <2>6. DigitTo[n + 1] = Digit * y
    BY DigitToGrows
  <2>7. A \in Nat
    <3>1. CASE mid = first
      BY <3>1, EmptyNumber
    <3>2. CASE mid # first
      <4> DEFINE early == mid - 1
      <4>1. early \in Int /\ first <= early + 1
        OBVIOUS
      <4>2. \A p \in first .. (early + 1) : b[p] \in Nat
        BY <2>1, <2>3 DEF end
      <4> HIDE DEF early
      <4>3. NumberOf(b, first, early) \in Nat
        BY <4>1, <4>2, NumberGrows
      <4> QED
        BY <4>3 DEF early
    <3> QED
      BY <3>1, <3>2
  <2> HIDE DEF x, g, y, z, A
  <2>8. (A * y + z) * Digit = A * (Digit * y) + z * Digit
    <3> DEFINE w == A * y
    <3>1. w \in Int /\ A * (Digit * y) = w * Digit
      BY <2>2, <2>7, DigitIsPositive
    <3> HIDE DEF w
    <3>2. (w + z) * Digit = w * Digit + z * Digit
      BY <2>5, <3>1, DigitIsPositive
    <3> QED
      BY <3>1, <3>2 DEF w
  <2>9. x * Digit + g = A * (Digit * y) + (z * Digit + g)
    <3> DEFINE u == A * (Digit * y)
               v == z * Digit
               w == x * Digit
    <3>1. u \in Int /\ v \in Int /\ w = u + v
      BY <2>2, <2>5, <2>7, <2>8, DigitIsPositive
    <3> HIDE DEF u, v, w
    <3>2. w + g = u + (v + g)
      BY <2>3, <3>1
    <3> QED
      BY <3>2 DEF u, v, w
  <2> QED
    BY <2>1, <2>4, <2>5, <2>6, <2>9
<1>3. \A n \in Nat : n \in S
  <2> HIDE DEF S
  <2> QED
    BY <1>1, <1>2, AllNumbers
<1>4. last - mid + 1 \in Nat /\ mid - 1 + (last - mid + 1) = last
    OBVIOUS
<1> QED
    BY <1>3, <1>4

-----------------------------------------------------------------------------
\* The hash of a first window

\* Two functions that agree at the start, and with one index at the next.
AgreesOnward(f, g, start, end) ==
    /\ f[start] = g[start]
    /\ \A p \in (start + 1) .. end : f[p - 1] = g[p - 1] => f[p] = g[p]

LEMMA AgreeOnward ==
    ASSUME NEW start \in Int, NEW end \in Int, NEW f, NEW g, AgreesOnward(f, g, start, end)
    PROVE  \A p \in start .. end : f[p] = g[p]
<1> USE DEF AgreesOnward
<1> DEFINE S == {n \in Nat : start + n <= end => f[start + n] = g[start + n]}
<1>1. 0 \in S
    OBVIOUS
<1>2. ASSUME NEW n \in Nat, n \in S PROVE n + 1 \in S
  <2> SUFFICES ASSUME start + (n + 1) <= end PROVE f[start + (n + 1)] = g[start + (n + 1)]
    OBVIOUS
  <2> DEFINE q == start + (n + 1)
  <2>1. q \in (start + 1) .. end /\ q - 1 = start + n /\ start + n <= end
    OBVIOUS
  <2>2. f[start + n] = g[start + n]
    BY <1>2, <2>1
  <2> HIDE DEF q
  <2>3. f[q] = g[q]
    BY <2>1, <2>2
  <2> QED
    BY <2>3 DEF q
<1> HIDE DEF AgreesOnward
<1>3. \A n \in Nat : n \in S
  <2> HIDE DEF S
  <2> QED
    BY <1>1, <1>2, AllNumbers
<1>4. ASSUME NEW p \in start .. end PROVE f[p] = g[p]
  <2>1. p - start \in Nat /\ start + (p - start) = p
    OBVIOUS
  <2> QED
    BY <1>3, <2>1
<1> QED
    BY <1>4

\* The loops over a window compute what is described without one.
LEMMA NumberComputed ==
    ASSUME NEW b, NEW first \in Int, NEW end \in Int, first <= end + 1,
           \A p \in first .. end : b[p] \in Nat
    PROVE  Horner(b, first, end, LAMBDA h, a : h * (Top + 1) + a) = NumberOf(b, first, end)
<1> DEFINE dom == (first - 1) .. end
           Body(f, p) == IF p < first THEN 0 ELSE f[p - 1] * (Top + 1) + b[p]
           loop == CHOOSE f : f = [p \in dom |-> Body(f, p)]
           f0 == [p \in dom |-> NumberOf(b, first, p)]
<1>1. ASSUME NEW p \in dom PROVE f0[p] = Body(f0, p)
  <2>1. CASE p < first
    <3>1. p + 1 = first /\ p \in Int
      BY <2>1
    <3>2. NumberOf(b, first, p) = 0
      BY <3>1, EmptyNumber
    <3> QED
      BY <2>1, <3>2
  <2>2. CASE ~ (p < first)
    <3> DEFINE q == p - 1
    <3>1. q \in Int /\ first <= q + 1 /\ q + 1 = p /\ q \in dom
      BY <2>2
    <3>2. \A r \in first .. (q + 1) : b[r] \in Nat
      BY <3>1
    <3> HIDE DEF q
    <3>3. NumberOf(b, first, q + 1) = NumberOf(b, first, q) * Digit + b[q + 1]
      BY <3>1, <3>2, NumberGrows
    <3>4. f0[q] = NumberOf(b, first, q)
      BY <3>1
    <3>5. f0[p] = f0[q] * (Top + 1) + b[p]
      BY <3>1, <3>3, <3>4 DEF Digit
    <3> HIDE DEF f0
    <3> QED
      BY <2>2, <3>5 DEF q
  <2> QED
    BY <2>1, <2>2
<1>2. loop = [p \in dom |-> Body(loop, p)]
  <2>1. f0 = [p \in dom |-> Body(f0, p)]
    <3> HIDE DEF Body, dom
    <3> QED
      BY <1>1
  <2> HIDE DEF f0, Body, dom
  <2> QED
    BY <2>1
<1>3. Horner(b, first, end, LAMBDA h, a : h * (Top + 1) + a) = loop[end]
    BY DEF Horner
<1> HIDE DEF loop
<1>4. \A p \in dom : loop[p] = Body(loop, p)
  <2> HIDE DEF Body, dom
  <2> QED
    BY <1>2
<1>5. \A p \in dom : loop[p] = f0[p]
  <2> DEFINE start == first - 1
  <2>1. start \in Int /\ start \in dom /\ start < first /\ end \in Int
    OBVIOUS
  <2>2. loop[start] = f0[start]
    BY <1>1, <1>4, <2>1
  <2>3. ASSUME NEW p \in (start + 1) .. end, loop[p - 1] = f0[p - 1] PROVE loop[p] = f0[p]
    <3>1. p \in dom /\ ~ (p < first)
      OBVIOUS
    <3>2. loop[p] = loop[p - 1] * (Top + 1) + b[p]
      BY <1>4, <3>1
    <3> HIDE DEF f0
    <3>3. f0[p] = f0[p - 1] * (Top + 1) + b[p]
      BY <1>1, <3>1
    <3> QED
      BY <2>3, <3>2, <3>3
  <2>4. \A p \in (start + 1) .. end : loop[p - 1] = f0[p - 1] => loop[p] = f0[p]
    BY <2>3
  <2> HIDE DEF f0, start, Body, dom
  <2>5. \A p \in start .. end : loop[p] = f0[p]
    <3>1. AgreesOnward(loop, f0, start, end)
      BY ONLY <2>2, <2>4 DEF AgreesOnward
    <3> QED
      BY ONLY <2>1, <3>1, AgreeOnward
  <2> QED
    BY <2>5 DEF start, dom
<1>6. end \in dom
    OBVIOUS
<1> QED
    BY <1>3, <1>5, <1>6

LEMMA GearComputed ==
    ASSUME NEW b, NEW first \in Int, NEW end \in Int, first <= end + 1,
           \A p \in first .. end : Gear[b[p]] \in Nat
    PROVE  Horner(b, first, end, GearStep) = GearWindow(b, first, end)
<1> DEFINE dom == (first - 1) .. end
           Body(f, p) == IF p < first THEN 0 ELSE GearStep(f[p - 1], b[p])
           loop == CHOOSE f : f = [p \in dom |-> Body(f, p)]
           f0 == [p \in dom |-> GearWindow(b, first, p)]
<1>1. ASSUME NEW p \in dom PROVE f0[p] = Body(f0, p)
  <2>1. CASE p < first
    <3>1. p + 1 = first /\ p \in Int
      BY <2>1
    <3>2. GearWindow(b, first, p) = 0
      BY <3>1, EmptyWindows
    <3> QED
      BY <2>1, <3>2
  <2>2. CASE ~ (p < first)
    <3> DEFINE q == p - 1
    <3>1. q \in Int /\ first <= q + 1 /\ q + 1 = p /\ q \in dom
      BY <2>2
    <3>2. \A r \in first .. (q + 1) : Gear[b[r]] \in Nat
      BY <3>1
    <3> HIDE DEF q
    <3>3. GearWindow(b, first, q + 1) = GearStep(GearWindow(b, first, q), b[q + 1])
      BY <3>1, <3>2, GearRolls
    <3>4. f0[q] = GearWindow(b, first, q)
      BY <3>1
    <3>5. f0[p] = GearStep(f0[q], b[p])
      BY <3>1, <3>3, <3>4
    <3> HIDE DEF f0
    <3> QED
      BY <2>2, <3>5 DEF q
  <2> QED
    BY <2>1, <2>2
<1>2. loop = [p \in dom |-> Body(loop, p)]
  <2>1. f0 = [p \in dom |-> Body(f0, p)]
    <3> HIDE DEF Body, dom
    <3> QED
      BY <1>1
  <2> HIDE DEF f0, Body, dom
  <2> QED
    BY <2>1
<1>3. Horner(b, first, end, GearStep) = loop[end]
    BY DEF Horner
<1> HIDE DEF loop
<1>4. \A p \in dom : loop[p] = Body(loop, p)
  <2> HIDE DEF Body, dom
  <2> QED
    BY <1>2
<1>5. \A p \in dom : loop[p] = f0[p]
  <2> DEFINE start == first - 1
  <2>1. start \in Int /\ start \in dom /\ start < first /\ end \in Int
    OBVIOUS
  <2>2. loop[start] = f0[start]
    BY <1>1, <1>4, <2>1
  <2>3. ASSUME NEW p \in (start + 1) .. end, loop[p - 1] = f0[p - 1] PROVE loop[p] = f0[p]
    <3>1. p \in dom /\ ~ (p < first)
      OBVIOUS
    <3>2. loop[p] = GearStep(loop[p - 1], b[p])
      BY <1>4, <3>1
    <3> HIDE DEF f0
    <3>3. f0[p] = GearStep(f0[p - 1], b[p])
      BY <1>1, <3>1
    <3> QED
      BY <2>3, <3>2, <3>3
  <2>4. \A p \in (start + 1) .. end : loop[p - 1] = f0[p - 1] => loop[p] = f0[p]
    BY <2>3
  <2> HIDE DEF f0, start, Body, dom
  <2>5. \A p \in start .. end : loop[p] = f0[p]
    <3>1. AgreesOnward(loop, f0, start, end)
      BY ONLY <2>2, <2>4 DEF AgreesOnward
    <3> QED
      BY ONLY <2>1, <3>1, AgreeOnward
  <2> QED
    BY <2>5 DEF start, dom
<1>6. end \in dom
    OBVIOUS
<1> QED
    BY <1>3, <1>5, <1>6

LEMMA PolynomialComputed ==
    ASSUME NEW b, NEW first \in Int, NEW end \in Int, first <= end + 1,
           \A p \in first .. end : b[p] \in Nat
    PROVE  Horner(b, first, end, LAMBDA h, a : Wrap(h * Base + a + 1))
              = PolynomialOf(b, first, end)
<1> DEFINE dom == (first - 1) .. end
           Body(f, p) == IF p < first THEN 0 ELSE Wrap(f[p - 1] * Base + b[p] + 1)
           loop == CHOOSE f : f = [p \in dom |-> Body(f, p)]
           f0 == [p \in dom |-> PolynomialOf(b, first, p)]
<1>1. ASSUME NEW p \in dom PROVE f0[p] = Body(f0, p)
  <2>1. CASE p < first
    <3>1. p + 1 = first /\ p \in Int
      BY <2>1
    <3>2. PolynomialOf(b, first, p) = 0
      BY <3>1, EmptyWindows
    <3> QED
      BY <2>1, <3>2
  <2>2. CASE ~ (p < first)
    <3> DEFINE q == p - 1
    <3>1. q \in Int /\ first <= q + 1 /\ q + 1 = p /\ q \in dom
      BY <2>2
    <3>2. \A r \in first .. (q + 1) : b[r] \in Nat
      BY <3>1
    <3> HIDE DEF q
    <3>3. PolynomialOf(b, first, q + 1) = Wrap(PolynomialOf(b, first, q) * Base + b[q + 1] + 1)
      BY <3>1, <3>2, PolynomialFills
    <3>4. f0[q] = PolynomialOf(b, first, q)
      BY <3>1
    <3>5. f0[p] = Wrap(f0[q] * Base + b[p] + 1)
      BY <3>1, <3>3, <3>4
    <3> HIDE DEF f0
    <3> QED
      BY <2>2, <3>5 DEF q
  <2> QED
    BY <2>1, <2>2
<1>2. loop = [p \in dom |-> Body(loop, p)]
  <2>1. f0 = [p \in dom |-> Body(f0, p)]
    <3> HIDE DEF Body, dom
    <3> QED
      BY <1>1
  <2> HIDE DEF f0, Body, dom
  <2> QED
    BY <2>1
<1>3. Horner(b, first, end, LAMBDA h, a : Wrap(h * Base + a + 1)) = loop[end]
    BY DEF Horner
<1> HIDE DEF loop
<1>4. \A p \in dom : loop[p] = Body(loop, p)
  <2> HIDE DEF Body, dom
  <2> QED
    BY <1>2
<1>5. \A p \in dom : loop[p] = f0[p]
  <2> DEFINE start == first - 1
  <2>1. start \in Int /\ start \in dom /\ start < first /\ end \in Int
    OBVIOUS
  <2>2. loop[start] = f0[start]
    BY <1>1, <1>4, <2>1
  <2>3. ASSUME NEW p \in (start + 1) .. end, loop[p - 1] = f0[p - 1] PROVE loop[p] = f0[p]
    <3>1. p \in dom /\ ~ (p < first)
      OBVIOUS
    <3>2. loop[p] = Wrap(loop[p - 1] * Base + b[p] + 1)
      BY <1>4, <3>1
    <3> HIDE DEF f0
    <3>3. f0[p] = Wrap(f0[p - 1] * Base + b[p] + 1)
      BY <1>1, <3>1
    <3> QED
      BY <2>3, <3>2, <3>3
  <2>4. \A p \in (start + 1) .. end : loop[p - 1] = f0[p - 1] => loop[p] = f0[p]
    BY <2>3
  <2> HIDE DEF f0, start, Body, dom
  <2>5. \A p \in start .. end : loop[p] = f0[p]
    <3>1. AgreesOnward(loop, f0, start, end)
      BY ONLY <2>2, <2>4 DEF AgreesOnward
    <3> QED
      BY ONLY <2>1, <3>1, AgreeOnward
  <2> QED
    BY <2>5 DEF start, dom
<1>6. end \in dom
    OBVIOUS
<1> QED
    BY <1>3, <1>5, <1>6

\* The prefix is the number of the first bytes, and below the modulus.
LEMMA PrefixIsKey ==
    ASSUME NEW b, NEW first \in Int, NEW last \in Int, first <= last,
           \A p \in first .. last : b[p] \in 0 .. Top
    PROVE  Prefix(b, first, last) = KeyOf("lexicographic", b, first, last)
<1> DEFINE end == IF last - first < PrefixSize THEN last ELSE first + PrefixSize - 1
<1>1. end \in Int /\ first <= end + 1 /\ end <= last
    BY PrefixAssumption
<1>2. \A p \in first .. end : b[p] \in Nat
    BY <1>1, PrefixAssumption
<1>3. Prefix(b, first, last) = Horner(b, first, end, LAMBDA h, a : h * (Top + 1) + a)
    BY DEF Prefix
<1>4. KeyOf("lexicographic", b, first, last) = NumberOf(b, first, end)
  <2>1. last - first >= PrefixSize <=> ~ (last - first < PrefixSize)
    BY PrefixAssumption
  <2> QED
    BY <2>1 DEF KeyOf, ScoreOf
<1> HIDE DEF end
<1> QED
    BY <1>1, <1>2, <1>3, <1>4, NumberComputed

\* Powers grow with their exponent.
LEMMA DigitToIncreases == \A m, n \in Nat : m <= n => DigitTo[m] <= DigitTo[n]
<1> SUFFICES ASSUME NEW m \in Nat, NEW n \in Nat, m <= n PROVE DigitTo[m] <= DigitTo[n]
    OBVIOUS
<1> DEFINE d == n - m
           x == DigitTo[m]
           y == DigitTo[d]
<1>1. d \in Nat /\ m + d = n
    OBVIOUS
<1> HIDE DEF d
<1>2. DigitTo[n] = x * y /\ x \in Nat /\ y \in Nat /\ y > 0
    BY <1>1, DigitToAdds, DigitToIsPositive
<1> HIDE DEF x, y
<1>3. x <= x * y
    BY <1>2
<1> QED
    BY <1>2, <1>3 DEF x

\* A window's key is a hash value, and its score a number.
LEMMA KeyIsHash ==
    ASSUME NEW b, NEW first \in Int, NEW last \in Int, first <= last,
           \A p \in first .. last : b[p] \in 0 .. Top,
           NEW hashKind \in {"gear", "polynomial", "lexicographic"}
    PROVE  /\ KeyOf(hashKind, b, first, last) \in 0 .. (Modulus - 1)
           /\ ScoreOf(hashKind, b, first, last) \in Nat
           /\ hashKind # "lexicographic" =>
                 KeyOf(hashKind, b, first, last) = ScoreOf(hashKind, b, first, last)
<1> DEFINE early == last - 1
<1>1. /\ early \in Int /\ first <= early + 1 /\ early + 1 = last
      /\ \A p \in first .. (early + 1) : b[p] \in Nat /\ Gear[b[p]] \in Nat /\ b[p] \in 0 .. Top
  <2>1. \A a \in 0 .. Top : a \in Nat /\ a \in DOMAIN Gear
    BY PrefixAssumption
  <2>2. \A a \in DOMAIN Gear : Gear[a] \in Nat
    BY GearAssumption
  <2> QED
    BY <2>1, <2>2
<1>2. CASE hashKind = "gear"
  <2>1. PICK t : /\ GearWindow(b, first, last) = Wrap(t[WindowStart(first, last)])
                 /\ Adds(GearTerms(b, first, last), first, last + 1, t)
    BY GearWindowUnfolds
  <2>2. \A p \in first .. last : GearTerms(b, first, last)[p] \in Nat
    <3> SUFFICES ASSUME NEW p \in first .. last PROVE GearTerms(b, first, last)[p] \in Nat
      OBVIOUS
    <3>1. last - p \in Nat /\ Gear[b[p]] \in Nat
      BY <1>1
    <3>2. TwoTo[last - p] \in Nat
      BY <3>1, TwoToIsPositive
    <3>3. Gear[b[p]] * TwoTo[last - p] \in Nat
      BY <3>1, <3>2, ProductIsNatural
    <3> QED
      BY <3>3 DEF GearTerms
  <2>3. WindowStart(first, last) \in first .. (last + 1)
    BY WidthAssumption DEF WindowStart
  <2> DEFINE top == last + 1
  <2>4. top \in Int /\ top - 1 = last
    OBVIOUS
  <2> HIDE DEF top
  <2>5. \A p \in first .. top : t[p] \in Nat
    BY <2>1, <2>2, <2>4, SumsAreNatural DEF top
  <2>6. t[WindowStart(first, last)] \in Int
    BY <2>3, <2>5 DEF top
  <2>7. GearWindow(b, first, last) \in 0 .. (Modulus - 1)
    BY <2>1, <2>6, SameAsWrapped
  <2> QED
    BY <1>2, <2>7, ModulusIsPositive DEF KeyOf, ScoreOf
<1>3. CASE hashKind = "polynomial"
  <2>1. PolynomialOf(b, first, early) \in 0 .. (Modulus - 1)
    BY <1>1, PolynomialFills
  <2>2. PolynomialOf(b, first, last) = Wrap(PolynomialOf(b, first, early) * Base + b[last] + 1)
    BY <1>1, PolynomialFills
  <2>3. PolynomialOf(b, first, early) * Base + b[last] + 1 \in Int
    <3>1. last \in first .. (early + 1)
      BY <1>1
    <3> QED
      BY <1>1, <2>1, <3>1, ModulusIsPositive, PolynomialAssumption
  <2>4. PolynomialOf(b, first, last) \in 0 .. (Modulus - 1)
    BY <2>2, <2>3, SameAsWrapped
  <2> QED
    BY <1>3, <2>4, ModulusIsPositive DEF KeyOf, ScoreOf
<1>4. CASE hashKind = "lexicographic"
  <2>1. NumberOf(b, first, last) \in Nat /\ NumberOf(b, first, last) < DigitTo[last - first + 1]
    BY NumberIsBelow
  <2>2. Modulus = DigitTo[PrefixSize] /\ PrefixSize \in Nat /\ PrefixSize > 0
    BY PrefixAssumption DEF Modulus
  <2>3. CASE last - first < PrefixSize
    <3>1. last - first + 1 \in Nat /\ last - first + 1 <= PrefixSize
      BY <2>2, <2>3
    <3>2. DigitTo[last - first + 1] <= DigitTo[PrefixSize]
      BY <2>2, <3>1, DigitToIncreases
    <3>3. NumberOf(b, first, last) < Modulus
      BY <2>1, <2>2, <3>1, <3>2, DigitToIsPositive
    <3>4. ~ (last - first >= PrefixSize)
      BY <2>2, <2>3
    <3> QED
      BY <1>4, <2>1, <3>3, <3>4, ModulusIsPositive DEF KeyOf, ScoreOf
  <2>4. CASE last - first >= PrefixSize
    <3> DEFINE end == first + PrefixSize - 1
    <3>1. end \in Int /\ first <= end + 1 /\ end - first + 1 = PrefixSize /\ end <= last
      BY <2>2, <2>4
    <3>2. \A p \in first .. end : b[p] \in 0 .. Top
      BY <3>1
    <3> HIDE DEF end
    <3>3. NumberOf(b, first, end) \in Nat /\ NumberOf(b, first, end) < Modulus
      BY <2>2, <3>1, <3>2, NumberIsBelow
    <3> QED
      BY <1>4, <2>1, <2>4, <3>3, ModulusIsPositive DEF KeyOf, ScoreOf, end
  <2> QED
    BY <2>2, <2>3, <2>4
<1> QED
    BY <1>2, <1>3, <1>4

\* initialHash computes the key.
LEMMA InitialIsKey ==
    ASSUME NEW b, NEW first \in Int, NEW last \in Int, first <= last,
           \A p \in first .. last : b[p] \in 0 .. Top,
           NEW hashKind \in {"gear", "polynomial", "lexicographic"}
    PROVE  InitialHash(hashKind, b, first, last) = KeyOf(hashKind, b, first, last)
<1>1. \A p \in first .. last : b[p] \in Nat /\ Gear[b[p]] \in Nat
  <2>1. \A a \in 0 .. Top : a \in Nat /\ a \in DOMAIN Gear
    BY PrefixAssumption
  <2>2. \A a \in DOMAIN Gear : Gear[a] \in Nat
    BY GearAssumption
  <2> QED
    BY <2>1, <2>2
<1>2. first <= last + 1
    OBVIOUS
<1>3. CASE hashKind = "gear"
  <2>1. InitialHash(hashKind, b, first, last) = Horner(b, first, last, GearStep)
    BY <1>3 DEF InitialHash
  <2>2. Horner(b, first, last, GearStep) = GearWindow(b, first, last)
    BY <1>1, <1>2, GearComputed
  <2>3. KeyOf(hashKind, b, first, last) = GearWindow(b, first, last)
    BY <1>3 DEF KeyOf, ScoreOf
  <2> QED
    BY <2>1, <2>2, <2>3
<1>4. CASE hashKind = "polynomial"
  <2>1. InitialHash(hashKind, b, first, last)
           = Horner(b, first, last, LAMBDA h, a : Wrap(h * Base + a + 1))
    BY <1>4 DEF InitialHash
  <2>2. Horner(b, first, last, LAMBDA h, a : Wrap(h * Base + a + 1)) = PolynomialOf(b, first, last)
    BY <1>1, <1>2, PolynomialComputed
  <2>3. KeyOf(hashKind, b, first, last) = PolynomialOf(b, first, last)
    BY <1>4 DEF KeyOf, ScoreOf
  <2> QED
    BY <2>1, <2>2, <2>3
<1>5. CASE hashKind = "lexicographic"
  <2>1. InitialHash(hashKind, b, first, last) = Prefix(b, first, last)
    BY <1>5 DEF InitialHash
  <2> QED
    BY <1>5, <2>1, PrefixIsKey
<1> QED
    BY <1>3, <1>4, <1>5

-----------------------------------------------------------------------------
\* A hash rolls on to the next window

\* After Width bytes the first one has left the Gear hash.
LEMMA GearForgets ==
    ASSUME NEW b, NEW first \in Int, NEW last \in Int, last - first = Width
    PROVE  GearWindow(b, first, last) = GearWindow(b, first + 1, last)
<1> DEFINE second == first + 1
           top == last + 1
<1>0. second \in Int /\ second <= last + 1 /\ first <= last + 1 /\ top \in Int /\ top - 1 = last
    BY WidthAssumption
<1>1. WindowStart(first, last) = second /\ WindowStart(second, last) = second
    BY WidthAssumption DEF WindowStart
<1> HIDE DEF second
<1>2. PICK t : /\ GearWindow(b, first, last) = Wrap(t[second])
               /\ Adds(GearTerms(b, first, last), first, last + 1, t)
    BY <1>0, <1>1, GearWindowUnfolds
<1>3. PICK u : /\ GearWindow(b, second, last) = Wrap(u[second])
               /\ Adds(GearTerms(b, second, last), second, last + 1, u)
    BY <1>0, <1>1, GearWindowUnfolds
<1>4. \A p \in second .. last : GearTerms(b, first, last)[p] = GearTerms(b, second, last)[p]
    BY DEF GearTerms, second
<1>5. Adds(GearTerms(b, first, last), second, last + 1, t)
    BY <1>2 DEF Adds, second
<1>6. second \in second .. top
    BY <1>0 DEF top
<1> DEFINE termT == GearTerms(b, first, last)
           termU == GearTerms(b, second, last)
<1>7. Adds(termT, second, top, t) /\ Adds(termU, second, top, u)
    BY <1>3, <1>5
<1>8. \A p \in second .. (top - 1) : termT[p] = termU[p]
    BY <1>0, <1>4
<1> HIDE DEF top, termT, termU
<1>9. t[second] = u[second]
    BY ONLY <1>0, <1>6, <1>7, <1>8, SumsAgree
<1> QED
    BY <1>2, <1>3, <1>9 DEF second

LEMMA GearSlides ==
    ASSUME NEW b, NEW first \in Int, NEW last \in Int, last - first + 1 = Width,
           \A p \in first .. (last + 1) : Gear[b[p]] \in Nat
    PROVE  GearWindow(b, first + 1, last + 1) = GearStep(GearWindow(b, first, last), b[last + 1])
<1> DEFINE top == last + 1
<1>1. top \in Int /\ top - first = Width /\ first <= last + 1
    BY WidthAssumption
<1>2. GearWindow(b, first, last + 1) = GearStep(GearWindow(b, first, last), b[last + 1])
    BY <1>1, GearRolls
<1> HIDE DEF top
<1>3. GearWindow(b, first, top) = GearWindow(b, first + 1, top)
    BY <1>1, GearForgets
<1> QED
    BY <1>2, <1>3 DEF top

\* Where a window's prefix ends, and the byte after it.
PrefixEnd(first, size) == IF size > PrefixSize THEN first + PrefixSize - 1 ELSE first + size - 1

LEMMA KeyIsPrefixNumber ==
    ASSUME NEW b, NEW first \in Int, NEW size \in Nat, size > 0
    PROVE  KeyOf("lexicographic", b, first, first + size - 1)
              = NumberOf(b, first, PrefixEnd(first, size))
<1>1. first + size - 1 - first >= PrefixSize <=> size > PrefixSize
    BY PrefixAssumption
<1> DEFINE last == first + size - 1
<1>2. last - first >= PrefixSize <=> size > PrefixSize
    BY <1>1
<1> QED
    BY <1>2 DEF KeyOf, ScoreOf, PrefixEnd

\* The prefix of a long window loses its first byte by wrapping, that of a short
\* one by a remainder.
LEMMA PrefixSlides ==
    ASSUME NEW b, NEW first \in Int, NEW size \in Nat, size > 0,
           \A p \in first .. (first + size) : b[p] \in 0 .. Top
    PROVE  RollPrefix(KeyOf("lexicographic", b, first, first + size - 1), size,
                      b[PrefixEnd(first, size) + 1])
              = KeyOf("lexicographic", b, first + 1, first + size)
<1> DEFINE end == PrefixEnd(first, size)
           second == first + 1
           length == end - first + 1
           a == NumberOf(b, first, end)
           x == NumberOf(b, first, end + 1)
           y == NumberOf(b, second, end + 1)
           z == NumberOf(b, first, first)
           g == b[end + 1]
<1>1. /\ end \in Int /\ first <= end /\ end + 1 <= first + size
      /\ PrefixEnd(second, size) = end + 1
      /\ length \in Nat /\ length > 0 /\ length <= PrefixSize
      /\ size < PrefixSize => length = size
      /\ size >= PrefixSize => length = PrefixSize
    BY PrefixAssumption DEF PrefixEnd
<1>2. KeyOf("lexicographic", b, first, first + size - 1) = a
    BY KeyIsPrefixNumber
<1>3. KeyOf("lexicographic", b, first + 1, first + size) = y
  <2>1. second \in Int /\ second + size - 1 = first + size
    OBVIOUS
  <2> HIDE DEF second
  <2>2. KeyOf("lexicographic", b, second, second + size - 1) = y
    BY <1>1, <2>1, KeyIsPrefixNumber
  <2> QED
    BY <2>1, <2>2 DEF second
<1> HIDE DEF end
<1>4. \A p \in first .. (end + 1) : b[p] \in 0 .. Top /\ b[p] \in Nat
    BY <1>1, PrefixAssumption
<1>5. x = a * Digit + g /\ a \in Nat /\ g \in Nat /\ g \in 0 .. Top
  <2>1. first <= end + 1 /\ end + 1 \in first .. (end + 1)
    BY <1>1
  <2> QED
    BY <1>1, <1>4, <2>1, NumberGrows
<1> DEFINE top == end + 1
<1>6. x = z * DigitTo[length] + y
  <2>1. /\ second \in Int /\ top \in Int /\ first <= second /\ second <= top + 1 /\ second - 1 = first
        /\ \A p \in first .. top : b[p] \in Nat
        /\ top - second + 1 = length
    BY <1>1, <1>4
  <2> HIDE DEF top, second, length
  <2>2. NumberOf(b, first, top) = NumberOf(b, first, second - 1) * DigitTo[top - second + 1]
                                  + NumberOf(b, second, top)
    BY <2>1, NumberSplits
  <2> QED
    BY <2>1, <2>2 DEF top
<1>7. y \in Nat /\ y < DigitTo[length] /\ x \in Nat /\ x < DigitTo[length + 1]
  <2>1. /\ second \in Int /\ top \in Int /\ second <= top + 1 /\ first <= top + 1
        /\ \A p \in first .. top : b[p] \in 0 .. Top
        /\ \A p \in second .. top : b[p] \in 0 .. Top
        /\ top - second + 1 = length /\ top - first + 1 = length + 1
    BY <1>1, <1>4
  <2> HIDE DEF top, second, length
  <2>2. NumberOf(b, first, top) \in Nat /\ NumberOf(b, first, top) < DigitTo[top - first + 1]
    BY <2>1, NumberIsBelow
  <2>3. NumberOf(b, second, top) \in Nat /\ NumberOf(b, second, top) < DigitTo[top - second + 1]
    BY <2>1, NumberIsBelow
  <2> QED
    BY <2>1, <2>2, <2>3 DEF top
<1>8. z \in Nat
  <2>1. \A p \in first .. first : b[p] \in 0 .. Top
    BY <1>1, <1>4
  <2>2. first <= first + 1
    OBVIOUS
  <2> QED
    BY <2>1, <2>2, NumberIsBelow
<1>9. DigitTo[length] \in Nat /\ DigitTo[length] > 0 /\ DigitTo[PrefixSize] = Modulus
    BY <1>1, DigitToIsPositive, PrefixAssumption DEF Modulus
<1> HIDE DEF length, second, a, x, y, z, g
<1>10. CASE size >= PrefixSize
  <2>1. DigitTo[length] = Modulus
    BY <1>1, <1>9, <1>10
  <2>2. x = y + Modulus * z
    BY <1>6, <1>7, <1>8, <1>9, <2>1
  <2>3. Same(x, y)
    BY <1>8, <2>2 DEF Same
  <2>4. Wrap(x) = y
    <3>1. y \in 0 .. (Modulus - 1)
      BY <1>7, <2>1, ModulusIsPositive
    <3> QED
      BY <1>7, <2>3, <3>1, WrapSame, WrapOfSmall
  <2>5. ~ (size < PrefixSize)
    BY <1>10, PrefixAssumption
  <2>6. RollPrefix(a, size, g) = Wrap(a * Digit + g)
    BY <2>5 DEF RollPrefix, Digit
  <2> QED
    BY <1>2, <1>3, <1>5, <2>4, <2>6 DEF g, end
<1>11. CASE size < PrefixSize
  <2>1. length = size /\ length + 1 \in Nat /\ length + 1 <= PrefixSize /\ PrefixSize \in Nat
    BY <1>1, <1>11, PrefixAssumption
  <2>2. DigitTo[length + 1] <= DigitTo[PrefixSize]
    BY <2>1, DigitToIncreases
  <2>3. x \in 0 .. (Modulus - 1)
    BY <1>7, <1>9, <2>1, <2>2, DigitToIsPositive, ModulusIsPositive
  <2>4. Wrap(x) = x
    BY <2>3, WrapOfSmall
  <2> DEFINE d == DigitTo[length]
  <2>5. d \in Nat /\ d > 0 /\ y \in 0 .. (d - 1) /\ z \in Int /\ x = d * z + y
    BY <1>6, <1>7, <1>8, <1>9
  <2> HIDE DEF d
  <2>6. x % d = y
    BY <2>5, Remainder
  <2>7. RollPrefix(a, size, g) = Wrap(a * Digit + g) % DigitTo[size]
    BY <1>11 DEF RollPrefix, Digit
  <2> QED
    BY <1>2, <1>3, <1>5, <2>1, <2>4, <2>6, <2>7 DEF g, d, end
<1> QED
    BY <1>10, <1>11, PrefixAssumption

-----------------------------------------------------------------------------
\* The removals that vectors compute

\* The quotient is the one that \div computes.
LEMMA Quotient ==
    ASSUME NEW m \in Nat, m > 0, NEW q \in Int, NEW r \in 0 .. (m - 1)
    PROVE  (m * q + r) \div m = q
OBVIOUS

LEMMA DividesFully ==
    ASSUME NEW m \in Nat, m > 0, NEW n \in Nat
    PROVE  /\ n \div m \in Nat /\ n % m \in 0 .. (m - 1)
           /\ n = m * (n \div m) + (n % m)
<1>1. PICK q \in Nat, r \in 0 .. (m - 1) : n = m * q + r
    BY NaturalDivision
<1>2. (m * q + r) \div m = q /\ (m * q + r) % m = r
    BY Quotient, Remainder
<1> DEFINE d == n \div m
           e == n % m
<1>3. d = q /\ e = r
    BY <1>1, <1>2
<1> HIDE DEF d, e
<1>4. d \in Nat /\ e \in 0 .. (m - 1) /\ n = m * d + e
    BY <1>1, <1>3
<1> QED
    BY <1>4 DEF d, e

LEMMA HalvesAndQuarters ==
    /\ Half \in Nat /\ Half > 0 /\ Quarter \in Nat /\ Quarter > 0
    /\ Quarter * Quarter = Half /\ Half * Half = Modulus
    /\ Top * (Quarter - 1) < Half
<1> DEFINE q == Width \div 4
           m == Width \div 2
<1>1. q \in Nat /\ m \in Nat /\ q + q = m /\ m + m = Width
    BY WidthAssumption, PolynomialAssumption
<1>2. Top * (TwoTo[q] - 1) < TwoTo[m]
    BY PolynomialAssumption
<1>3. Half = TwoTo[m] /\ Quarter = TwoTo[q]
    BY DEF Half, Quarter
<1> HIDE DEF q, m
<1>4. TwoTo[q + q] = TwoTo[q] * TwoTo[q] /\ TwoTo[m + m] = TwoTo[m] * TwoTo[m]
    BY <1>1, TwoToAdds
<1> QED
    BY <1>1, <1>2, <1>3, <1>4, TwoToIsPositive DEF Modulus

LEMMA FactorIsHash == RemovalFactor \in 0 .. (Modulus - 1) /\ RemovalFactor \in Nat
<1>1. BaseTo[PolynomialWindow] \in Nat
    BY BaseToIsNatural, PolynomialAssumption
<1> QED
    BY <1>1, SameAsWrapped DEF RemovalFactor

LEMMA SameGoesOn ==
    ASSUME NEW a \in Int, NEW b \in Int, NEW c \in Int, Same(a, b), Same(b, c)
    PROVE  Same(a, c)
<1>1. PICK q \in Int : a = b + Modulus * q
    BY DEF Same
<1>2. PICK r \in Int : b = c + Modulus * r
    BY DEF Same
<1> DEFINE x == Modulus * q
           y == Modulus * r
<1>3. x \in Int /\ y \in Int /\ a = b + x /\ b = c + y /\ Modulus * (q + r) = x + y
    BY <1>1, <1>2, ModulusIsPositive
<1> HIDE DEF x, y
<1>4. a = c + Modulus * (q + r) /\ q + r \in Int
    BY <1>3
<1> QED
    BY <1>4 DEF Same

\* Products that widen lose nothing.
LEMMA ArchRemovalIs ==
    ASSUME NEW b \in 0 .. Top
    PROVE  /\ Same(ArchRemoval(b), b * RemovalFactor)
           /\ ArchRemoval(b) \in Int /\ b * RemovalFactor \in Int
<1> DEFINE low == RemovalFactor % Half
           high == RemovalFactor \div Half
           x == b * low + b * high * Half
<1>0. b \in Nat
    BY PrefixAssumption
<1>1. low \in Nat /\ high \in Nat /\ RemovalFactor = Half * high + low
    BY HalvesAndQuarters, FactorIsHash, DividesFully
<1>2. ArchRemoval(b) = Wrap(x)
    BY DEF ArchRemoval
<1>3. x = b * RemovalFactor /\ x \in Nat
  <2> HIDE DEF low, high
  <2> DEFINE u == Half * high
  <2>1. u \in Nat /\ b * (u + low) = b * u + b * low /\ b * u \in Nat /\ b * low \in Nat
    BY <1>0, <1>1, HalvesAndQuarters
  <2>2. b * high * Half = b * u
    BY <1>0, <1>1, HalvesAndQuarters
  <2>3. x = b * u + b * low
    BY <2>1, <2>2
  <2>4. b * RemovalFactor = b * (u + low)
    BY <1>1
  <2> HIDE DEF u
  <2> QED
    BY <2>1, <2>3, <2>4
<1> HIDE DEF x
<1> QED
    BY <1>2, <1>3, SameAsWrapped

\* A lane of half the width keeps the whole product of a byte and a quarter, and
\* the low half of the other product is all that stays after the shift.
LEMMA PortableRemovalIs ==
    ASSUME NEW b \in 0 .. Top
    PROVE  /\ Same(PortableRemoval(b), b * RemovalFactor)
           /\ PortableRemoval(b) \in Int /\ b * RemovalFactor \in Int
<1> DEFINE R == RemovalFactor
           c0 == R % Quarter
           rest == R \div Quarter
           c1 == rest % Quarter
           h == R \div Half
           lane(n) == (b * n) % Half
           sum == lane(c0) + lane(c1) * Quarter + lane(h) * Half
           low == R % Half
<1>0. /\ b \in Nat /\ R \in Nat /\ Half \in Nat /\ Quarter \in Nat
      /\ Half > 0 /\ Quarter > 0 /\ Quarter * Quarter = Half /\ Half * Half = Modulus
    BY PrefixAssumption, FactorIsHash, HalvesAndQuarters
<1>1. /\ c0 \in 0 .. (Quarter - 1) /\ rest \in Nat /\ R = Quarter * rest + c0
      /\ h \in Nat /\ low \in 0 .. (Half - 1) /\ R = Half * h + low
    BY <1>0, DividesFully
<1>2. c1 \in 0 .. (Quarter - 1) /\ rest \div Quarter \in Nat
      /\ rest = Quarter * (rest \div Quarter) + c1
    BY <1>0, <1>1, DividesFully
<1>3. PortableRemoval(b) = Wrap(sum)
    BY DEF PortableRemoval
<1>4. ASSUME NEW n \in 0 .. (Quarter - 1) PROVE lane(n) = b * n /\ b * n \in Nat
  <2>1. n \in Nat /\ n <= Quarter - 1 /\ b <= Top /\ Top \in Nat
    BY <1>0, PrefixAssumption
  <2>2. b * n \in Nat /\ b * n <= Top * n /\ Top * n <= Top * (Quarter - 1)
    BY <1>0, <2>1
  <2> DEFINE y == b * n
  <2>3. y \in 0 .. (Half - 1)
    BY <1>0, <2>1, <2>2, HalvesAndQuarters
  <2> HIDE DEF y
  <2>4. (Half * 0 + y) % Half = y /\ Half * 0 + y = y
    BY <1>0, <2>3, Remainder
  <2>5. y % Half = y
    BY <2>4
  <2> QED
    BY <2>2, <2>5 DEF y
<1>5. lane(c0) = b * c0 /\ lane(c1) = b * c1 /\ b * c0 \in Nat /\ b * c1 \in Nat
    BY <1>1, <1>2, <1>4
<1> HIDE DEF R, c0, rest, c1, h, low
\* The quarters are those of the low half.
<1>6. c0 + c1 * Quarter = low
  <2> DEFINE q == rest \div Quarter
             v == Quarter * c1 + c0
  <2>1. R = Half * q + v
    <3>1. Quarter * rest = Half * q + Quarter * c1
      <4>1. Quarter * (Quarter * q + c1) = Quarter * (Quarter * q) + Quarter * c1
            /\ Quarter * (Quarter * q) = (Quarter * Quarter) * q
        BY <1>0, <1>1, <1>2
      <4> QED
        BY <1>0, <1>2, <4>1
    <3> DEFINE e == Quarter * rest
               f == Half * q
               g == Quarter * c1
    <3>2. e = f + g /\ R = e + c0 /\ f \in Nat /\ g \in Nat /\ c0 \in Nat
      BY <1>0, <1>1, <1>2, <3>1
    <3> HIDE DEF e, f, g
    <3>3. R = f + (g + c0)
      BY <3>2
    <3> QED
      BY <3>3 DEF f, g
  <2>2. v \in 0 .. (Half - 1)
    <3>1. Quarter * c1 \in Nat /\ Quarter * c1 <= Quarter * (Quarter - 1)
          /\ Quarter * (Quarter - 1) = Half - Quarter
      BY <1>0, <1>2
    <3> DEFINE g == Quarter * c1
    <3>2. g \in Nat /\ g <= Half - Quarter
      BY <1>0, <3>1
    <3> HIDE DEF g
    <3>3. g + c0 \in 0 .. (Half - 1)
      BY <1>0, <1>1, <3>2
    <3> QED
      BY <3>3 DEF g
  <2>3. q \in Int
    BY <1>2
  <2> HIDE DEF q, v
  <2>4. (Half * q + v) % Half = v
    BY <1>0, <2>2, <2>3, Remainder
  <2>5. low = v
    BY <2>1, <2>4 DEF low
  <2>6. c1 * Quarter = Quarter * c1 /\ Quarter * c1 \in Nat
    BY <1>0, <1>2
  <2> QED
    BY <1>1, <2>5, <2>6 DEF v
\* What the lane of the high half drops is a multiple of the modulus.
<1>7. Same(lane(h) * Half, b * (Half * h)) /\ lane(h) * Half \in Int /\ b * (Half * h) \in Int
  <2> DEFINE y == b * h
             d == y \div Half
             r == y % Half
  <2>1. y \in Nat
    BY <1>0, <1>1
  <2> HIDE DEF y
  <2>2. d \in Nat /\ r \in Nat /\ y = Half * d + r
    BY <1>0, <2>1, DividesFully
  <2>3. lane(h) = r
    BY DEF y
  <2> HIDE DEF d, r
  <2>4. y * Half = r * Half + Modulus * d
    <3>1. (Half * d + r) * Half = (Half * d) * Half + r * Half
          /\ (Half * d) * Half = (Half * Half) * d
          /\ (Half * d) * Half \in Int /\ r * Half \in Int
      BY <1>0, <2>2
    <3> QED
      BY <1>0, <2>2, <3>1
  <2>5. b * (Half * h) = y * Half /\ y * Half \in Int /\ r * Half \in Int
    BY <1>0, <1>1, <2>1, <2>2 DEF y
  <2>6. Same(b * (Half * h), r * Half)
    BY <2>2, <2>4, <2>5 DEF Same
  <2>7. Same(r * Half, b * (Half * h))
    BY <2>5, <2>6, SameTurns
  <2> QED
    BY <2>3, <2>5, <2>7
<1> DEFINE m == b * low
           x == lane(h) * Half
           y == b * (Half * h)
<1>8. lane(c0) + lane(c1) * Quarter = m /\ m \in Int
  <2>1. b * (c0 + c1 * Quarter) = b * c0 + b * (c1 * Quarter)
        /\ b * (c1 * Quarter) = (b * c1) * Quarter /\ low \in Int
    BY <1>0, <1>1, <1>2
  <2>2. m = b * c0 + (b * c1) * Quarter
    BY <1>6, <2>1
  <2>3. (b * c1) * Quarter \in Int
    BY <1>0, <1>5
  <2> HIDE DEF m, lane
  <2> QED
    BY <1>5, <2>2, <2>3
<1>9. b * R = y + m /\ b * R \in Int
  <2>1. b * (Half * h + low) = b * (Half * h) + b * low
    BY <1>0, <1>1
  <2>2. b * R = b * (Half * h + low)
    BY <1>1
  <2> QED
    BY <1>0, <1>7, <1>8, <2>1, <2>2
<1>10. sum = m + x
    BY <1>8
<1> HIDE DEF m, x, y, sum, lane
<1>11. Same(m, m) /\ Same(x, y) /\ m \in Int /\ x \in Int /\ y \in Int
    BY <1>7, <1>8, SameItself DEF x, y
<1>12. Same(m + x, m + y)
    BY <1>11, SameAdds
<1>13. sum \in Int /\ Same(sum, b * R) /\ b * R \in Int
    BY <1>9, <1>10, <1>11, <1>12
<1>14. Same(Wrap(sum), sum) /\ Wrap(sum) \in Int
    BY <1>13, SameAsWrapped
<1>15. Same(Wrap(sum), b * R)
    BY <1>13, <1>14, SameGoesOn
<1> QED
    BY <1>3, <1>13, <1>14, <1>15 DEF R

\* A step of a vector is a step of the scalar scanner.
LEMMA RollVectorIs ==
    ASSUME NEW hash0 \in Int, NEW b \in 0 .. Top, NEW a \in Int, NEW removal \in Int,
           Same(removal, b * RemovalFactor), b * RemovalFactor \in Int
    PROVE  RollVector(hash0, removal, a)
              = Wrap(hash0 * Base + a - b * RemovalFactor + RollingAdjustment)
<1> DEFINE x == b * RemovalFactor
           c == a + RollingAdjustment
           y == hash0 * Base
<1>1. /\ x \in Int /\ c \in Int /\ y \in Int /\ Same(removal, x)
      /\ RollingAdjustment \in Int
  <2>1. 1 - RemovalFactor \in Int
    BY FactorIsHash
  <2> QED
    BY <2>1, SameAsWrapped, PolynomialAssumption DEF RollingAdjustment
<1>2. RollVector(hash0, removal, a) = Wrap(y + Wrap(c - removal))
  <2>1. a + (RollingAdjustment - removal) = (a + RollingAdjustment) - removal
    BY <1>1
  <2>2. RollVector(hash0, removal, a)
           = Wrap(hash0 * Base + Wrap(a + (RollingAdjustment - removal)))
    BY DEF RollVector
  <2> QED
    BY <2>1, <2>2
<1>3. hash0 * Base + a - b * RemovalFactor + RollingAdjustment = y + (c - x)
  <2> HIDE DEF x, y
  <2>1. y + a - x + RollingAdjustment = y + (c - x)
    BY <1>1
  <2> QED
    BY <2>1 DEF x, y
<1> HIDE DEF x, c, y
<1>4. Same(c, c) /\ Same(y, y)
    BY <1>1, SameItself
<1>5. Same(c - removal, c - x) /\ c - removal \in Int /\ c - x \in Int
    BY <1>1, <1>4, SameAdds
<1>6. Same(Wrap(c - removal), c - removal) /\ Wrap(c - removal) \in Int
    BY <1>5, SameAsWrapped
<1>7. Same(Wrap(c - removal), c - x)
    BY <1>5, <1>6, SameGoesOn
<1>8. Same(y + Wrap(c - removal), y + (c - x))
    BY <1>1, <1>4, <1>5, <1>6, <1>7, SameAdds
<1>9. Wrap(y + Wrap(c - removal)) = Wrap(y + (c - x))
    BY <1>1, <1>5, <1>6, <1>8, WrapSame
<1> QED
    BY <1>2, <1>3, <1>9

-----------------------------------------------------------------------------
\* The order of windows

\* Of two numbers the high parts decide, and between equal ones the low parts.
LEMMA HighPartsDecide ==
    ASSUME NEW m \in Nat, NEW a \in Nat, NEW b \in Nat, NEW c \in 0 .. (m - 1),
           NEW d \in 0 .. (m - 1)
    PROVE  a * m + c > b * m + d <=> a > b \/ (a = b /\ c > d)
<1>1. CASE a > b
  <2>1. a >= b + 1 /\ a * m >= (b + 1) * m /\ (b + 1) * m = b * m + m
    BY <1>1
  <2> DEFINE x == a * m
             y == b * m
  <2>2. x \in Nat /\ y \in Nat /\ x >= y + m
    BY <2>1
  <2> HIDE DEF x, y
  <2>3. x + c > y + d
    BY <2>2
  <2> QED
    BY <1>1, <2>3 DEF x, y
<1>2. CASE a = b
  <2> DEFINE x == a * m
  <2>1. x \in Nat /\ b * m = x
    BY <1>2
  <2> HIDE DEF x
  <2>2. x + c > x + d <=> c > d
    BY <2>1
  <2> QED
    BY <1>2, <2>1, <2>2 DEF x
<1>3. CASE a < b
  <2>1. b >= a + 1 /\ b * m >= (a + 1) * m /\ (a + 1) * m = a * m + m
    BY <1>3
  <2> DEFINE x == a * m
             y == b * m
  <2>2. x \in Nat /\ y \in Nat /\ y >= x + m
    BY <2>1
  <2> HIDE DEF x, y
  <2>3. ~ (x + c > y + d)
    BY <2>2
  <2> QED
    BY <1>3, <2>3 DEF x, y
<1> QED
    BY <1>1, <1>2, <1>3

\* The first byte of a window, and its prefix, are high parts of its score.
LEMMA WindowSplits ==
    ASSUME NEW b, NEW first \in Int, NEW size \in Nat, size > 0,
           \A p \in first .. (first + size - 1) : b[p] \in 0 .. Top
    PROVE  LET last == first + size - 1
               score == NumberOf(b, first, last)
           IN  /\ b[first] \in Nat
               /\ NumberOf(b, first + 1, last) \in 0 .. (DigitTo[size - 1] - 1)
               /\ score = b[first] * DigitTo[size - 1] + NumberOf(b, first + 1, last)
               /\ size > PrefixSize =>
                     LET high == NumberOf(b, first, first + PrefixSize - 1)
                         low == NumberOf(b, first + PrefixSize, last)
                     IN  /\ high \in Nat /\ low \in 0 .. (DigitTo[size - PrefixSize] - 1)
                         /\ score = high * DigitTo[size - PrefixSize] + low
<1> DEFINE last == first + size - 1
           second == first + 1
           mid == first + PrefixSize
           end == first + PrefixSize - 1
<1>0. Top \in Nat /\ PrefixSize \in Nat /\ PrefixSize > 0 /\ last \in Int
    BY PrefixAssumption
<1>1. \A p \in first .. last : b[p] \in 0 .. Top /\ b[p] \in Nat
    BY <1>0
<1>2. /\ second \in Int /\ first <= second /\ second <= last + 1 /\ last - second + 1 = size - 1
      /\ second - 1 = first
    OBVIOUS
<1>3. first \in first .. last /\ first <= first + 1 /\ size - 1 \in Nat
    OBVIOUS
<1> HIDE DEF last, second
<1>4. NumberOf(b, first, first) = b[first]
  <2> DEFINE early == first - 1
  <2>1. early \in Int /\ first <= early + 1 /\ early + 1 = first
    OBVIOUS
  <2>2. \A p \in first .. (early + 1) : b[p] \in Nat
    BY <1>1, <1>3, <2>1
  <2> HIDE DEF early
  <2>3. NumberOf(b, first, early + 1) = NumberOf(b, first, early) * Digit + b[early + 1]
    BY <2>1, <2>2, NumberGrows
  <2>4. NumberOf(b, first, early) = 0
    BY <2>1, EmptyNumber
  <2>5. b[first] \in Nat
    BY <1>1, <1>3
  <2> QED
    BY <2>1, <2>3, <2>4, <2>5, DigitIsPositive
<1>5. NumberOf(b, first, last)
         = NumberOf(b, first, second - 1) * DigitTo[last - second + 1] + NumberOf(b, second, last)
    BY <1>0, <1>1, <1>2, NumberSplits
<1>6. /\ NumberOf(b, second, last) \in Nat
      /\ NumberOf(b, second, last) < DigitTo[last - second + 1]
  <2>1. \A p \in second .. last : b[p] \in 0 .. Top
    BY <1>1, <1>2
  <2> QED
    BY <1>0, <1>2, <2>1, NumberIsBelow
<1>7. /\ b[first] \in Nat
      /\ NumberOf(b, second, last) \in 0 .. (DigitTo[size - 1] - 1)
      /\ NumberOf(b, first, last) = b[first] * DigitTo[size - 1] + NumberOf(b, second, last)
    BY <1>1, <1>2, <1>3, <1>4, <1>5, <1>6, DigitToIsPositive
<1>8. ASSUME size > PrefixSize
      PROVE  /\ NumberOf(b, first, end) \in Nat
             /\ NumberOf(b, mid, last) \in 0 .. (DigitTo[size - PrefixSize] - 1)
             /\ NumberOf(b, first, last)
                   = NumberOf(b, first, end) * DigitTo[size - PrefixSize] + NumberOf(b, mid, last)
  <2>1. /\ mid \in Int /\ end \in Int /\ first <= mid /\ mid <= last + 1
        /\ last - mid + 1 = size - PrefixSize /\ first <= end + 1 /\ size - PrefixSize \in Nat
        /\ end <= last
    BY <1>0, <1>8 DEF last
  <2>2. (\A p \in mid .. last : b[p] \in 0 .. Top) /\ (\A p \in first .. end : b[p] \in 0 .. Top)
    BY <1>0, <1>1, <2>1
  <2> DEFINE d == size - PrefixSize
  <2>3. end = mid - 1
    BY <1>0
  <2> HIDE DEF mid, end, d
  <2>4. NumberOf(b, first, last)
           = NumberOf(b, first, mid - 1) * DigitTo[last - mid + 1] + NumberOf(b, mid, last)
    BY <1>0, <1>1, <2>1, NumberSplits
  <2>5. NumberOf(b, mid, last) \in Nat /\ NumberOf(b, mid, last) < DigitTo[last - mid + 1]
    BY <1>0, <2>1, <2>2, NumberIsBelow
  <2>6. NumberOf(b, first, end) \in Nat
    BY <2>1, <2>2, NumberIsBelow
  <2> QED
    BY <2>1, <2>3, <2>4, <2>5, <2>6, DigitToIsPositive
<1> QED
    BY <1>7, <1>8 DEF last, second

\* considerWindow compares the windows as wholes.
LEMMA PrefixAndSuffixDecide ==
    ASSUME NEW b, NEW size \in Nat, size > 0, NEW one \in Int, NEW two \in Int,
           \A p \in one .. (one + size - 1) : b[p] \in 0 .. Top,
           \A p \in two .. (two + size - 1) : b[p] \in 0 .. Top
    PROVE  LET key(f) == KeyOf("lexicographic", b, f, f + size - 1)
               score(f) == ScoreOf("lexicographic", b, f, f + size - 1)
               suffix(f) == NumberOf(b, f + PrefixSize, f + size - 1)
           IN  score(one) > score(two) <=>
                  /\ b[one] >= b[two]
                  /\ \/ key(one) > key(two)
                     \/ key(one) = key(two) /\ size > PrefixSize /\ suffix(one) > suffix(two)
<1> DEFINE key(f) == KeyOf("lexicographic", b, f, f + size - 1)
           score(f) == NumberOf(b, f, f + size - 1)
           rest(f) == NumberOf(b, f + 1, f + size - 1)
           suffix(f) == NumberOf(b, f + PrefixSize, f + size - 1)
           m == DigitTo[size - 1]
           n == DigitTo[size - PrefixSize]
<1>0. \A f : ScoreOf("lexicographic", b, f, f + size - 1) = score(f)
    BY DEF ScoreOf
<1>1. /\ b[one] \in Nat /\ rest(one) \in 0 .. (m - 1) /\ score(one) = b[one] * m + rest(one)
      /\ b[two] \in Nat /\ rest(two) \in 0 .. (m - 1) /\ score(two) = b[two] * m + rest(two)
  <2> HIDE DEF key, suffix, n
  <2>1. ASSUME NEW f \in Int, \A p \in f .. (f + size - 1) : b[p] \in 0 .. Top
        PROVE  b[f] \in Nat /\ rest(f) \in 0 .. (m - 1) /\ score(f) = b[f] * m + rest(f)
    <3>1. size \in Nat /\ size > 0
      OBVIOUS
    <3> QED
      BY ONLY <2>1, <3>1, WindowSplits
  <2> HIDE DEF m, rest, score
  <2> QED
    BY <2>1
<1>2. m \in Nat
  <2>1. size - 1 \in Nat
    OBVIOUS
  <2> QED
    BY <2>1, DigitToIsPositive
<1>3. score(one) > score(two) => b[one] >= b[two]
  <2> HIDE DEF m, rest, score
  <2>1. b[one] * m + rest(one) > b[two] * m + rest(two)
           <=> b[one] > b[two] \/ (b[one] = b[two] /\ rest(one) > rest(two))
    BY <1>1, <1>2, HighPartsDecide
  <2> QED
    BY <1>1, <2>1
<1>4. /\ key(one) = NumberOf(b, one, PrefixEnd(one, size))
      /\ key(two) = NumberOf(b, two, PrefixEnd(two, size))
    BY KeyIsPrefixNumber
<1>5. CASE size > PrefixSize
  <2>1. /\ key(one) = NumberOf(b, one, one + PrefixSize - 1)
        /\ key(two) = NumberOf(b, two, two + PrefixSize - 1)
    BY <1>4, <1>5 DEF PrefixEnd
  <2>2. /\ key(one) \in Nat /\ suffix(one) \in 0 .. (n - 1) /\ score(one) = key(one) * n + suffix(one)
        /\ key(two) \in Nat /\ suffix(two) \in 0 .. (n - 1) /\ score(two) = key(two) * n + suffix(two)
    <3> DEFINE high(f) == NumberOf(b, f, f + PrefixSize - 1)
    <3>1. /\ high(one) \in Nat /\ suffix(one) \in 0 .. (n - 1)
          /\ score(one) = high(one) * n + suffix(one)
      BY <1>5, WindowSplits
    <3>2. /\ high(two) \in Nat /\ suffix(two) \in 0 .. (n - 1)
          /\ score(two) = high(two) * n + suffix(two)
      BY <1>5, WindowSplits
    <3>3. key(one) = high(one) /\ key(two) = high(two)
      BY <2>1
    <3> HIDE DEF high, key, suffix, score, n
    <3> QED
      BY <3>1, <3>2, <3>3
  <2>3. n \in Nat
    <3>1. size - PrefixSize \in Nat
      BY <1>5, PrefixAssumption
    <3> QED
      BY <3>1, DigitToIsPositive
  <2> HIDE DEF m, n, rest, score, key, suffix
  <2>4. key(one) * n + suffix(one) > key(two) * n + suffix(two)
           <=> key(one) > key(two) \/ (key(one) = key(two) /\ suffix(one) > suffix(two))
    BY <2>2, <2>3, HighPartsDecide
  <2>5. score(one) > score(two)
           <=> key(one) > key(two) \/ (key(one) = key(two) /\ suffix(one) > suffix(two))
    BY <2>2, <2>4
  <2>6. score(one) > score(two) <=>
           /\ b[one] >= b[two]
           /\ \/ key(one) > key(two)
              \/ key(one) = key(two) /\ size > PrefixSize /\ suffix(one) > suffix(two)
    BY <1>3, <1>5, <2>5
  <2> QED
    BY <1>0, <2>6 DEF key, suffix
<1>6. CASE ~ (size > PrefixSize)
  <2>1. key(one) = score(one) /\ key(two) = score(two)
    BY <1>4, <1>6 DEF PrefixEnd
  <2> HIDE DEF m, n, rest, score, key, suffix
  <2>2. score(one) > score(two) <=>
           /\ b[one] >= b[two]
           /\ \/ key(one) > key(two)
              \/ key(one) = key(two) /\ size > PrefixSize /\ suffix(one) > suffix(two)
    BY <1>3, <1>6, <2>1
  <2> QED
    BY <1>0, <2>2 DEF key, suffix
<1> QED
    BY <1>5, <1>6

-----------------------------------------------------------------------------
\* The windows of a file

KeyAt(c) == KeyOf(Kind, byte, c - Window, c - 1)
ScoreAt(c) == ScoreOf(Kind, byte, c - Window, c - 1)

\* The scanner and the file are among those that may be chosen.
InputOK ==
    /\ scanner \in Scanners /\ byte \in Files
    /\ dataLen \in (MinSize + 1) .. Cardinality(DOMAIN byte)

LEMMA InputTypes ==
    ASSUME InputOK
    PROVE  /\ dataLen \in Nat /\ MinSize \in Nat /\ MinSize < dataLen
           /\ Cardinality(DOMAIN byte) \in Nat /\ dataLen <= Cardinality(DOMAIN byte)
           /\ \A p \in 0 .. (Cardinality(DOMAIN byte) - 1) : byte[p] \in 0 .. Top
           /\ \A p \in 0 .. (dataLen - 1) : byte[p] \in 0 .. Top
           /\ Window \in Nat /\ Window > 0 /\ Window <= MinSize
           /\ Kind \in {"gear", "polynomial", "lexicographic"}
           /\ scanner.name \in ScannerNames
           /\ Kind = "gear" <=> scanner.name = "gear"
           /\ Kind = "lexicographic" <=> scanner.name = "lexicographic"
           /\ Kind = "polynomial" <=> scanner.name \in {"scalar", "portable", "archsimd"}
           /\ Kind = "gear" => Window = Width
           /\ Kind = "polynomial" => Window = PolynomialWindow
<1> DEFINE size == Cardinality(DOMAIN byte)
<1>1. size \in Nat /\ size > MinSize /\ byte \in [0 .. (size - 1) -> 0 .. Top]
    BY FilesAssumption DEF InputOK
<1>2. /\ MinSize \in Nat /\ scanner.name \in ScannerNames /\ scanner.window \in 1 .. MinSize
      /\ scanner.name = "gear" => scanner.window = Width
      /\ scanner.name \in {"scalar", "portable", "archsimd"} => scanner.window = PolynomialWindow
    BY ScannersAssumption DEF InputOK
<1>3. dataLen \in (MinSize + 1) .. size
    BY DEF InputOK
<1> HIDE DEF size
<1>4. /\ dataLen \in Nat /\ MinSize < dataLen /\ dataLen <= size
      /\ \A p \in 0 .. (size - 1) : byte[p] \in 0 .. Top
      /\ \A p \in 0 .. (dataLen - 1) : byte[p] \in 0 .. Top
    BY <1>1, <1>2, <1>3
<1>5. /\ Kind \in {"gear", "polynomial", "lexicographic"}
      /\ Kind = "gear" <=> scanner.name = "gear"
      /\ Kind = "lexicographic" <=> scanner.name = "lexicographic"
      /\ Kind = "polynomial" <=> scanner.name \in {"scalar", "portable", "archsimd"}
    BY <1>2 DEF Kind, ScannerNames
<1> QED
    BY <1>1, <1>2, <1>4, <1>5 DEF Window, size

\* The key of a cut is a hash value, and rolls on to that of the next cut in
\* every way in which a scanner rolls it.
LEMMA KeyTypes ==
    ASSUME InputOK, NEW c \in Window .. dataLen
    PROVE  /\ KeyAt(c) \in 0 .. (Modulus - 1) /\ ScoreAt(c) \in Nat
           /\ Kind # "lexicographic" => KeyAt(c) = ScoreAt(c)
<1>1. /\ Window \in Nat /\ Window > 0 /\ dataLen \in Nat
      /\ Kind \in {"gear", "polynomial", "lexicographic"}
      /\ \A p \in 0 .. (dataLen - 1) : byte[p] \in 0 .. Top
    BY InputTypes
<1> DEFINE first == c - Window
           last == c - 1
<1>2. first \in Int /\ last \in Int /\ first <= last /\ \A p \in first .. last : byte[p] \in 0 .. Top
    BY <1>1
<1> HIDE DEF first, last
<1>3. /\ KeyOf(Kind, byte, first, last) \in 0 .. (Modulus - 1)
      /\ ScoreOf(Kind, byte, first, last) \in Nat
      /\ Kind # "lexicographic" => KeyOf(Kind, byte, first, last) = ScoreOf(Kind, byte, first, last)
    BY <1>1, <1>2, KeyIsHash
<1> QED
    BY <1>3 DEF KeyAt, ScoreAt, first, last

LEMMA KeyRolls ==
    ASSUME InputOK, NEW c \in Window .. (dataLen - 1)
    PROVE  /\ Kind = "gear" => KeyAt(c + 1) = GearStep(KeyAt(c), byte[c])
           /\ Kind = "polynomial" =>
                 /\ KeyAt(c + 1) = RollPolynomial(KeyAt(c), byte[c - Window], byte[c])
                 /\ KeyAt(c + 1)
                       = RollVector(KeyAt(c), PortableRemoval(byte[c - Window]), byte[c])
                 /\ KeyAt(c + 1)
                       = RollVector(KeyAt(c), ArchRemoval(byte[c - Window]), byte[c])
           /\ RollHash(Kind, Window, KeyAt(c), byte[c - Window], byte[EnteringIndex(c)])
                 = KeyAt(c + 1)
<1>1. /\ Window \in Nat /\ Window > 0 /\ dataLen \in Nat
      /\ Kind \in {"gear", "polynomial", "lexicographic"}
      /\ \A p \in 0 .. (dataLen - 1) : byte[p] \in 0 .. Top
      /\ Kind = "gear" => Window = Width
      /\ Kind = "polynomial" => Window = PolynomialWindow
    BY InputTypes
<1> DEFINE first == c - Window
           last == c - 1
<1>2. /\ first \in Int /\ last \in Int /\ first <= last /\ last + 1 = c
      /\ last - first + 1 = Window /\ c + 1 - Window = first + 1 /\ c + 1 - 1 = last + 1
      /\ \A p \in first .. (last + 1) : byte[p] \in 0 .. Top
      /\ c \in first .. (last + 1) /\ first \in first .. (last + 1)
    BY <1>1
<1>3. \A p \in first .. (last + 1) : byte[p] \in Nat /\ Gear[byte[p]] \in Nat
  <2>1. \A a \in 0 .. Top : a \in Nat /\ a \in DOMAIN Gear
    BY PrefixAssumption
  <2>2. \A a \in DOMAIN Gear : Gear[a] \in Nat
    BY GearAssumption
  <2> QED
    BY <1>2, <2>1, <2>2
<1>4. KeyAt(c) = KeyOf(Kind, byte, first, last) /\ KeyAt(c + 1) = KeyOf(Kind, byte, first + 1, last + 1)
    BY <1>2 DEF KeyAt
<1>5. byte[c - Window] = byte[first] /\ byte[c] = byte[last + 1]
    BY <1>2
<1> HIDE DEF first, last
<1>6. CASE Kind = "gear"
  <2>1. GearWindow(byte, first + 1, last + 1) = GearStep(GearWindow(byte, first, last), byte[last + 1])
    BY <1>1, <1>2, <1>3, <1>6, GearSlides
  <2>2. /\ KeyOf(Kind, byte, first, last) = GearWindow(byte, first, last)
        /\ KeyOf(Kind, byte, first + 1, last + 1) = GearWindow(byte, first + 1, last + 1)
    BY <1>6 DEF KeyOf, ScoreOf
  <2>3. EnteringIndex(c) = c
    BY <1>6 DEF EnteringIndex
  <2> QED
    BY <1>4, <1>5, <1>6, <2>1, <2>2, <2>3 DEF RollHash
<1>7. CASE Kind = "polynomial"
  <2> DEFINE hash0 == PolynomialOf(byte, first, last)
             hash1 == PolynomialOf(byte, first + 1, last + 1)
             a == byte[last + 1]
             x == byte[first]
  <2>1. /\ hash1 = RollPolynomial(hash0, x, a)
        /\ hash1 = Wrap(hash0 * Base + a - x * RemovalFactor + RollingAdjustment)
    BY <1>1, <1>2, <1>3, <1>7, PolynomialRolls
  <2>2. KeyOf(Kind, byte, first, last) = hash0 /\ KeyOf(Kind, byte, first + 1, last + 1) = hash1
    BY <1>7 DEF KeyOf, ScoreOf
  <2>3. hash0 \in Int /\ a \in Int /\ x \in 0 .. Top
    <3>1. first <= last + 1 /\ last + 1 \in first .. (last + 1)
      BY <1>2
    <3>2. PolynomialOf(byte, first, last) \in 0 .. (Modulus - 1)
      BY <1>2, <1>3, <3>1, PolynomialFills
    <3> QED
      BY <1>2, <1>3, <3>1, <3>2, ModulusIsPositive
  <2> HIDE DEF hash0, hash1, a, x
  <2>4. hash1 = RollVector(hash0, PortableRemoval(x), a)
    BY <2>1, <2>3, PortableRemovalIs, RollVectorIs
  <2>5. hash1 = RollVector(hash0, ArchRemoval(x), a)
    BY <2>1, <2>3, ArchRemovalIs, RollVectorIs
  <2>6. EnteringIndex(c) = c
    BY <1>7 DEF EnteringIndex
  <2> QED
    BY <1>4, <1>5, <1>7, <2>1, <2>2, <2>4, <2>5, <2>6 DEF RollHash, x, a
<1>8. CASE Kind = "lexicographic"
  <2>1. /\ \A p \in first .. (first + Window) : byte[p] \in 0 .. Top
        /\ first + Window = last + 1 /\ first + Window - 1 = last
    BY <1>1, <1>2
  <2>2. EnteringIndex(c) = PrefixEnd(first, Window) + 1
    <3>1. EnteringIndex(c) = IF Window > PrefixSize THEN c - Window + PrefixSize ELSE c
      BY <1>8 DEF EnteringIndex
    <3> QED
      BY <1>1, <1>2, <3>1, PrefixAssumption DEF PrefixEnd, first
  <2>3. RollPrefix(KeyOf("lexicographic", byte, first, first + Window - 1), Window,
                   byte[PrefixEnd(first, Window) + 1])
           = KeyOf("lexicographic", byte, first + 1, first + Window)
    BY <1>1, <1>2, <2>1, PrefixSlides
  <2>4. RollPrefix(KeyAt(c), Window, byte[EnteringIndex(c)]) = KeyAt(c + 1)
    BY <1>4, <1>8, <2>1, <2>2, <2>3
  <2> QED
    BY <1>8, <2>4 DEF RollHash
<1> QED
    BY <1>1, <1>6, <1>7, <1>8

\* What the lexicographic scanner asks of a window is whether it is greater.
LEMMA ExceedsIsGreater ==
    ASSUME InputOK, Kind = "lexicographic", NEW c \in Window .. dataLen,
           MaximumCut \in Window .. dataLen, maximumHash = KeyAt(MaximumCut)
    PROVE  /\ Prefix(byte, c - Window, c - 1) = KeyAt(c)
           /\ byte[c - Window] >= byte[MaximumCut - Window] /\ Exceeds(c)
                 <=> ScoreAt(c) > ScoreAt(MaximumCut)
<1> DEFINE one == c - Window
           two == MaximumCut - Window
           best == MaximumCut
<1>1. /\ Window \in Nat /\ Window > 0 /\ dataLen \in Nat
      /\ \A p \in 0 .. (dataLen - 1) : byte[p] \in 0 .. Top
    BY InputTypes
<1>2. /\ one \in Int /\ two \in Int /\ one + Window - 1 = c - 1 /\ two + Window - 1 = best - 1
      /\ \A p \in one .. (one + Window - 1) : byte[p] \in 0 .. Top
      /\ \A p \in two .. (two + Window - 1) : byte[p] \in 0 .. Top
      /\ one <= one + Window - 1
    BY <1>1
<1> DEFINE key(f) == KeyOf("lexicographic", byte, f, f + Window - 1)
           score(f) == ScoreOf("lexicographic", byte, f, f + Window - 1)
           suffix(f) == NumberOf(byte, f + PrefixSize, f + Window - 1)
<1>3. key(one) = KeyAt(c) /\ key(two) = KeyAt(best) /\ score(one) = ScoreAt(c)
      /\ score(two) = ScoreAt(best)
    BY <1>2 DEF KeyAt, ScoreAt
<1>4. Prefix(byte, one, one + Window - 1) = key(one)
  <2> DEFINE last == one + Window - 1
  <2>1. last \in Int /\ one <= last /\ \A p \in one .. last : byte[p] \in 0 .. Top
    BY <1>1, <1>2
  <2> HIDE DEF one, last
  <2>2. Prefix(byte, one, last) = KeyOf("lexicographic", byte, one, last)
    BY <1>2, <2>1, PrefixIsKey
  <2> QED
    BY <2>2 DEF last
<1>5. Exceeds(c) <=> \/ Prefix(byte, one, c - 1) > maximumHash
                     \/ /\ Prefix(byte, one, c - 1) = maximumHash /\ Window > PrefixSize
                        /\ suffix(one) > suffix(two)
  <2>1. /\ suffix(one) = NumberOf(byte, c - Window + PrefixSize, c - 1)
        /\ suffix(two) = NumberOf(byte, best - Window + PrefixSize, best - 1)
    BY <1>2
  <2> HIDE DEF suffix
  <2> QED
    BY <2>1 DEF Exceeds
<1> HIDE DEF one, two, best
<1>6. score(one) > score(two) <=>
         /\ byte[one] >= byte[two]
         /\ \/ key(one) > key(two)
            \/ key(one) = key(two) /\ Window > PrefixSize /\ suffix(one) > suffix(two)
    BY <1>1, <1>2, PrefixAndSuffixDecide
<1> HIDE DEF key, score, suffix
<1>7. Prefix(byte, one, c - 1) = key(one) /\ maximumHash = key(two)
    BY <1>2, <1>3, <1>4 DEF best
<1>8. byte[one] >= byte[two] /\ Exceeds(c) <=> score(one) > score(two)
    BY <1>5, <1>6, <1>7
<1> QED
    BY <1>3, <1>7, <1>8 DEF one, two, best

-----------------------------------------------------------------------------
\* Candidates

\* The offsets, up to n, at which the score is higher than at all before.
Records(score, n) == {o \in 0 .. n : \A earlier \in 0 .. (o - 1) : score[earlier] < score[o]}

\* A sequence of offsets has just these, and the last one is the best.
Finds(list, score, n) ==
    /\ list \in Seq(Nat) /\ list # <<>> /\ ToSet(list) = Records(score, n)
    /\ Last(list) \in 0 .. n /\ \A o \in 0 .. n : score[o] <= score[Last(list)]

LEMMA ListTypes ==
    ASSUME NEW list \in Seq(Nat), list # <<>>, NEW o \in Nat
    PROVE  /\ Len(list) \in Nat /\ Len(list) > 0 /\ Last(list) \in Nat
           /\ Append(list, o) \in Seq(Nat) /\ Append(list, o) # <<>>
           /\ Last(Append(list, o)) = o
           /\ ToSet(Append(list, o)) = ToSet(list) \cup {o}
           /\ Append(list, o)[1] = list[1]
<1>1. Len(list) \in Nat /\ Len(list) > 0 /\ Last(list) \in Nat
    BY DEF Last
<1>2. /\ Append(list, o) \in Seq(Nat) /\ Len(Append(list, o)) = Len(list) + 1
      /\ Append(list, o)[Len(list) + 1] = o
      /\ \A j \in 1 .. Len(list) : Append(list, o)[j] = list[j]
      /\ DOMAIN Append(list, o) = 1 .. (Len(list) + 1) /\ DOMAIN list = 1 .. Len(list)
    BY <1>1
<1>3. Last(Append(list, o)) = o /\ Append(list, o)[1] = list[1]
    BY <1>1, <1>2 DEF Last
<1>4. ToSet(Append(list, o)) = ToSet(list) \cup {o}
  <2> DEFINE longer == Append(list, o)
             n == Len(list)
  <2>1. ToSet(longer) = {longer[j] : j \in 1 .. (n + 1)} /\ ToSet(list) = {list[j] : j \in 1 .. n}
    BY <1>2 DEF ToSet
  <2>2. n \in Nat /\ longer[n + 1] = o /\ \A j \in 1 .. n : longer[j] = list[j]
    BY <1>1, <1>2
  <2> HIDE DEF longer, n
  <2>3. \A j \in 1 .. (n + 1) : j \in 1 .. n \/ j = n + 1
    BY <2>2
  <2>4. n + 1 \in 1 .. (n + 1) /\ 1 .. n \subseteq 1 .. (n + 1)
    BY <2>2
  <2>5. {longer[j] : j \in 1 .. (n + 1)} = {list[j] : j \in 1 .. n} \cup {o}
    BY <2>2, <2>3, <2>4
  <2> QED
    BY <2>1, <2>5 DEF longer
<1>5. Append(list, o) # <<>>
    BY <1>1, <1>2
<1> QED
    BY <1>1, <1>2, <1>3, <1>4, <1>5

LEMMA FindsFirst ==
    ASSUME NEW score, score[0] \in Int
    PROVE  Finds(<<0>>, score, 0)
<1>1. <<0>> \in Seq(Nat) /\ <<0>> # <<>> /\ Last(<<0>>) = 0
    BY DEF Last
<1>2. ToSet(<<0>>) = {0}
    BY DEF ToSet
<1>3. Records(score, 0) = {0}
    BY DEF Records
<1>4. 0 \in 0 .. 0 /\ \A o \in 0 .. 0 : score[o] <= score[0]
    OBVIOUS
<1> QED
    BY <1>1, <1>2, <1>3, <1>4 DEF Finds

\* One offset more: it is a record if it beats the best so far.
LEMMA FindsNext ==
    ASSUME NEW list, NEW score, NEW n \in Nat, Finds(list, score, n),
           \A o \in 0 .. (n + 1) : score[o] \in Int
    PROVE  /\ score[n + 1] > score[Last(list)] => Finds(Append(list, n + 1), score, n + 1)
           /\ ~ (score[n + 1] > score[Last(list)]) => Finds(list, score, n + 1)
<1> DEFINE m == n + 1
           best == Last(list)
<1>1. /\ list \in Seq(Nat) /\ list # <<>> /\ ToSet(list) = Records(score, n)
      /\ best \in 0 .. n /\ \A o \in 0 .. n : score[o] <= score[best]
    BY DEF Finds
<1>2. /\ m \in Nat /\ \A o \in 0 .. m : o \in 0 .. n \/ o = m
      /\ \A o \in 0 .. n : o \in 0 .. m
      /\ score[m] \in Int /\ score[best] \in Int /\ 0 .. (m - 1) = 0 .. n
    BY <1>1
<1>3. Records(score, m) = Records(score, n) \cup
                             (IF score[m] > score[best] THEN {m} ELSE {})
  <2>1. m \in Records(score, m) <=> score[m] > score[best]
    <3>1. m \in Records(score, m) <=> \A earlier \in 0 .. n : score[earlier] < score[m]
      BY <1>2 DEF Records
    <3>2. (\A earlier \in 0 .. n : score[earlier] < score[m]) <=> score[m] > score[best]
      BY <1>1, <1>2
    <3> QED
      BY <3>1, <3>2
  <2>2. \A o : o \in Records(score, m) /\ o # m <=> o \in Records(score, n)
    <3>1. m \notin 0 .. n
      OBVIOUS
    <3> HIDE DEF m
    <3> QED
      BY <1>2, <3>1 DEF Records
  <2> HIDE DEF m, best
  <2> QED
    BY <2>1, <2>2
<1>4. ASSUME score[m] > score[best] PROVE Finds(Append(list, m), score, m)
  <2>1. /\ Append(list, m) \in Seq(Nat) /\ Append(list, m) # <<>>
        /\ Last(Append(list, m)) = m /\ ToSet(Append(list, m)) = ToSet(list) \cup {m}
    BY <1>1, <1>2, ListTypes
  <2>2. m \in 0 .. m /\ \A o \in 0 .. m : score[o] <= score[m]
    BY <1>1, <1>2, <1>4
  <2> HIDE DEF m, best
  <2> QED
    BY <1>1, <1>3, <1>4, <2>1, <2>2 DEF Finds
<1>5. ASSUME ~ (score[m] > score[best]) PROVE Finds(list, score, m)
  <2>1. best \in 0 .. m /\ \A o \in 0 .. m : score[o] <= score[best]
    BY <1>1, <1>2, <1>5
  <2>2. ToSet(list) = Records(score, m)
    BY <1>1, <1>3, <1>5
  <2> HIDE DEF m
  <2> QED
    BY <1>1, <2>1, <2>2 DEF Finds
<1> QED
    BY <1>4, <1>5

-----------------------------------------------------------------------------
\* The invariant of the scanners

\* Bytes of the region that are scanned, and the offset that is reached with them.
Done == IF pc = "scan" THEN i ELSE 0
Reached == scannedOffset + Done

\* The candidates, with those that the amd64 core has not handed over yet.
AllFound == candidateOffsets \o [j \in DOMAIN buffer |-> scannedOffset + processed + buffer[j]]

\* The scores of the offsets from the frontier's origin on.
Scores == [o \in Nat |-> ScoreAt(Origin + o)]

ReaderTypes ==
    /\ InputOK
    /\ candidateOffsets \in Seq(Nat) /\ candidateOffsets # <<>> /\ candidateOffsets[1] = 0
    /\ currentHash \in 0 .. (Modulus - 1) /\ maximumHash \in 0 .. (Modulus - 1)
    /\ hashEnd \in MinSize .. dataLen /\ scannedOffset \in 0 .. (hashEnd - MinSize)
    /\ finalized \in BOOLEAN /\ pc \in {"horizon", "scan", "done"}
    /\ regionLen \in Nat /\ reachesStabilityPoint \in BOOLEAN /\ i \in 0 .. regionLen
    /\ k \in Nat /\ s \in 0 .. (Modulus - 1)
    /\ core \in BOOLEAN /\ processed \in Nat /\ buffer \in Seq(Nat)

\* A region ends within the data, before its end if the batch may become stable
\* with it, and at most MinSize - 1 bytes after the best cut.
Regions ==
    /\ pc = "scan" => hashEnd + regionLen <= dataLen
    /\ pc = "scan" /\ reachesStabilityPoint => hashEnd + regionLen < dataLen
    /\ scannedOffset + (IF pc = "scan" THEN regionLen ELSE 0)
          <= Last(candidateOffsets) + MinSize - 1

\* A block that is begun fits in the region, and what it adds in the buffer.
Blocks ==
    /\ k > 0 => pc = "scan" /\ scanner.name \in {"gear", "archsimd"}
    /\ k = 0 \/ scanner.name # "gear" => s = 0
    /\ k > 0 /\ scanner.name = "gear" => k < Unroll /\ k <= i /\ i - k + Unroll <= regionLen
    /\ k > 0 /\ scanner.name = "archsimd" => core /\ k < ArchLanes /\ i - k + ArchLanes <= regionLen
    /\ core => /\ pc = "scan" /\ scanner.name = "archsimd" /\ processed <= i
               /\ Len(buffer) <= BufferSize - (IF k > 0 THEN ArchLanes - k ELSE 0)
    /\ ~ core => buffer = <<>>

\* The running hash is that of the window before the next byte; within a block of
\* the Gear scanner, that of the window before the block, and s what follows.
Hashed ==
    /\ Kind = "gear" =>
          /\ currentHash = KeyAt(hashEnd + Done - k)
          /\ Wrap(currentHash * TwoTo[k] + s) = KeyAt(hashEnd + Done)
    /\ Kind = "polynomial" => currentHash = KeyAt(hashEnd + Done)
    /\ Kind = "lexicographic" => currentHash = KeyAt(hashEnd)
    /\ maximumHash = KeyAt(Origin + Last(AllFound))

\* The candidates are the records of what is scanned.
Recorded == Finds(AllFound, Scores, Reached)

ReaderInv == ReaderTypes /\ Regions /\ Blocks /\ Hashed /\ Recorded

\* Where the cuts of the frontier are.
LEMMA Places ==
    ASSUME ReaderInv
    PROVE  /\ Origin \in Nat /\ Origin >= MinSize /\ MinSize >= Window /\ Window > 0
           /\ Window \in Nat /\ MinSize \in Nat /\ dataLen \in Nat
           /\ Done \in Nat /\ Done <= regionLen /\ Reached \in Nat
           /\ Origin + Reached = hashEnd + Done /\ hashEnd + Done <= dataLen
           /\ hashEnd + Done \in Window .. dataLen
           /\ AllFound \in Seq(Nat) /\ AllFound # <<>> /\ Last(AllFound) \in 0 .. Reached
           /\ Origin + Last(AllFound) \in Window .. dataLen
           /\ hashEnd \in Nat /\ hashEnd >= MinSize /\ hashEnd <= dataLen
           /\ scannedOffset \in Nat /\ i \in Nat /\ regionLen \in Nat
           /\ pc = "scan" => Done = i
           /\ pc # "scan" => Done = 0
<1>1. /\ Window \in Nat /\ Window > 0 /\ Window <= MinSize /\ MinSize \in Nat /\ dataLen \in Nat
    BY InputTypes DEF ReaderInv, ReaderTypes
<1>2. /\ hashEnd \in MinSize .. dataLen /\ scannedOffset \in 0 .. (hashEnd - MinSize)
      /\ regionLen \in Nat /\ i \in 0 .. regionLen
      /\ pc = "scan" => hashEnd + regionLen <= dataLen
    BY DEF ReaderInv, ReaderTypes, Regions
<1>3. AllFound \in Seq(Nat) /\ AllFound # <<>> /\ Last(AllFound) \in 0 .. Reached
    BY DEF ReaderInv, Recorded, Finds
<1>4. Done \in Nat /\ Done <= regionLen /\ hashEnd + Done <= dataLen
    BY <1>1, <1>2 DEF Done
<1>5. Origin = hashEnd - scannedOffset /\ Reached = scannedOffset + Done
    BY DEF Origin, Reached
<1>6. Last(AllFound) \in Nat /\ Last(AllFound) <= Reached
    BY <1>2, <1>3, <1>4, <1>5
<1>7. /\ Origin \in Nat /\ Origin >= MinSize /\ Reached \in Nat
      /\ Origin + Reached = hashEnd + Done
      /\ Origin + Last(AllFound) \in Window .. dataLen
      /\ hashEnd + Done \in Window .. dataLen
    BY <1>1, <1>2, <1>4, <1>5, <1>6
<1> QED
    BY <1>1, <1>2, <1>3, <1>4, <1>7 DEF Done

\* Without the core, the candidates are all that was found.
LEMMA NothingBuffered ==
    ASSUME candidateOffsets \in Seq(Nat), buffer = <<>>
    PROVE  AllFound = candidateOffsets
<1>1. [j \in DOMAIN buffer |-> scannedOffset + processed + buffer[j]] = <<>>
    OBVIOUS
<1> QED
    BY <1>1 DEF AllFound

LEMMA NothingBufferedNext ==
    ASSUME candidateOffsets' \in Seq(Nat), buffer' = <<>>
    PROVE  AllFound' = candidateOffsets'
<1>1. [j \in DOMAIN buffer' |-> scannedOffset' + processed' + buffer'[j]] = <<>>
    OBVIOUS
<1> QED
    BY <1>1 DEF AllFound

\* The scores are numbers, and those of the same windows as long as the origin
\* is the same.
LEMMA ScoresAreNumbers ==
    ASSUME InputOK, Origin \in Nat, Origin >= Window, NEW n \in Nat, Origin + n <= dataLen
    PROVE  \A o \in 0 .. n : Scores[o] = ScoreAt(Origin + o) /\ Scores[o] \in Int
<1> SUFFICES ASSUME NEW o \in 0 .. n PROVE Scores[o] = ScoreAt(Origin + o) /\ Scores[o] \in Int
    OBVIOUS
<1>1. Window \in Nat /\ dataLen \in Nat
    BY InputTypes
<1> DEFINE c == Origin + o
<1>2. c \in Window .. dataLen /\ o \in Nat
    BY <1>1
<1>3. Scores[o] = ScoreAt(c)
    BY <1>2 DEF Scores
<1> HIDE DEF c
<1>4. ScoreAt(c) \in Nat
    BY <1>2, KeyTypes
<1> QED
    BY <1>3, <1>4 DEF c

LEMMA WindowsStay ==
    ASSUME UNCHANGED <<scanner, byte>>
    PROVE  /\ Window' = Window /\ Kind' = Kind
           /\ \A c : KeyAt(c)' = KeyAt(c) /\ ScoreAt(c)' = ScoreAt(c)
           /\ Origin' = Origin => Scores' = Scores
<1>1. Window' = Window /\ Kind' = Kind
    BY DEF Window, Kind
<1>2. \A c : KeyAt(c)' = KeyAt(c) /\ ScoreAt(c)' = ScoreAt(c)
    BY <1>1 DEF KeyAt, ScoreAt
<1>3. ASSUME Origin' = Origin PROVE Scores' = Scores
    BY <1>2, <1>3 DEF Scores
<1> QED
    BY <1>1, <1>2, <1>3

\* A byte more is scanned: the next cut is found if its score is the highest.
LEMMA FoundNext ==
    ASSUME ReaderInv, pc = "scan", i < regionLen, ByteDone,
           NEW better \in BOOLEAN,
           better <=> ScoreAt(hashEnd + i + 1) > ScoreAt(Origin + Last(AllFound)),
           AllFound' = IF better THEN Append(AllFound, scannedOffset + i + 1) ELSE AllFound,
           maximumHash' = IF better THEN KeyAt(hashEnd + i + 1) ELSE maximumHash
    PROVE  /\ Recorded' /\ maximumHash' \in 0 .. (Modulus - 1)
           /\ (maximumHash = KeyAt(Origin + Last(AllFound)))'
<1>1. /\ InputOK /\ maximumHash \in 0 .. (Modulus - 1) /\ Finds(AllFound, Scores, Reached)
      /\ maximumHash = KeyAt(Origin + Last(AllFound)) /\ hashEnd + regionLen <= dataLen
    BY DEF ReaderInv, ReaderTypes, Hashed, Recorded, Regions
<1>2. /\ Origin \in Nat /\ Origin >= Window /\ Window \in Nat /\ dataLen \in Nat
      /\ Reached = scannedOffset + i /\ Origin + Reached = hashEnd + i /\ Reached \in Nat
      /\ AllFound \in Seq(Nat) /\ AllFound # <<>> /\ Last(AllFound) \in 0 .. Reached
      /\ hashEnd \in Nat /\ i \in Nat /\ regionLen \in Nat /\ scannedOffset \in Nat
    BY Places DEF Reached
<1>3. /\ i' = i + 1 /\ UNCHANGED <<scanner, byte, scannedOffset, hashEnd, pc>>
    BY DEF ByteDone, input
<1>4. Origin' = Origin /\ Reached' = Reached + 1
    BY <1>2, <1>3 DEF Origin, Reached, Done
<1>5. (\A c : KeyAt(c)' = KeyAt(c)) /\ Scores' = Scores
    BY <1>3, <1>4, WindowsStay
<1> DEFINE n == Reached
           c == hashEnd + i + 1
           best == Last(AllFound)
<1>6. /\ n + 1 \in Nat /\ Origin + (n + 1) <= dataLen /\ Origin + (n + 1) = c
      /\ scannedOffset + i + 1 = n + 1 /\ c \in Window .. dataLen
    BY <1>1, <1>2
<1>7. \A o \in 0 .. (n + 1) : Scores[o] = ScoreAt(Origin + o) /\ Scores[o] \in Int
  <2> DEFINE m == n + 1
  <2>1. m \in Nat /\ Origin + m <= dataLen
    BY <1>6
  <2> HIDE DEF m
  <2>2. \A o \in 0 .. m : Scores[o] = ScoreAt(Origin + o) /\ Scores[o] \in Int
    BY <1>1, <1>2, <2>1, ScoresAreNumbers
  <2> QED
    BY <2>2 DEF m
<1>8. Scores[n + 1] = ScoreAt(c) /\ Scores[best] = ScoreAt(Origin + best)
  <2>1. n + 1 \in 0 .. (n + 1) /\ best \in 0 .. (n + 1)
    BY <1>2
  <2> HIDE DEF n, best
  <2> QED
    BY <1>6, <1>7, <2>1
<1>9. /\ Scores[n + 1] > Scores[best] => Finds(Append(AllFound, n + 1), Scores, n + 1)
      /\ ~ (Scores[n + 1] > Scores[best]) => Finds(AllFound, Scores, n + 1)
    BY <1>1, <1>2, <1>7, FindsNext
<1>10. Last(Append(AllFound, n + 1)) = n + 1
    BY <1>2, <1>6, ListTypes
<1>11. KeyAt(c) \in 0 .. (Modulus - 1)
    BY <1>1, <1>6, KeyTypes
<1>12. Recorded' <=> Finds(AllFound', Scores, n + 1)
    BY <1>4, <1>5 DEF Recorded
<1>13. (maximumHash = KeyAt(Origin + Last(AllFound)))' <=> maximumHash' = KeyAt(Origin + Last(AllFound'))
    BY <1>4, <1>5
<1> HIDE DEF n, c, best
<1>14. CASE better
  <2>1. AllFound' = Append(AllFound, n + 1) /\ maximumHash' = KeyAt(c)
    BY <1>6, <1>14 DEF c
  <2>2. Finds(Append(AllFound, n + 1), Scores, n + 1)
    BY <1>8, <1>9, <1>14 DEF c, best
  <2>3. maximumHash' = KeyAt(Origin + Last(AllFound'))
    BY <1>6, <1>10, <2>1
  <2> QED
    BY <1>11, <1>12, <1>13, <2>1, <2>2, <2>3
<1>15. CASE ~ better
  <2>1. AllFound' = AllFound /\ maximumHash' = maximumHash
    BY <1>15
  <2>2. Finds(AllFound, Scores, n + 1)
    BY <1>8, <1>9, <1>15 DEF c, best
  <2> QED
    BY <1>1, <1>12, <1>13, <2>1, <2>2
<1> QED
    BY <1>14, <1>15

-----------------------------------------------------------------------------
\* The steps between regions

\* Outside of a block of the Gear scanner the running hash is all there is.
LEMMA HashOutsideBlock ==
    ASSUME NEW h \in 0 .. (Modulus - 1)
    PROVE  Wrap(h * TwoTo[0] + 0) = h
<1>1. TwoTo[0] = 1 /\ h \in Int
    BY TwoToDoubles, ModulusIsPositive
<1>2. h * TwoTo[0] + 0 = h
    BY <1>1
<1> QED
    BY <1>2, WrapOfSmall

LEMMA FirstOffsets ==
    /\ <<0>> \in Seq(Nat) /\ <<0>> # <<>> /\ <<0>>[1] = 0 /\ Last(<<0>>) = 0
BY DEF Last

LEMMA InitReader == Init => ReaderInv
<1> SUFFICES ASSUME Init PROVE ReaderInv
    OBVIOUS
<1> USE DEF Init
<1>1. InputOK
    BY DEF InputOK
<1>2. /\ Window \in Nat /\ Window > 0 /\ Window <= MinSize /\ MinSize \in Nat
      /\ dataLen \in Nat /\ MinSize < dataLen
      /\ \A p \in 0 .. (dataLen - 1) : byte[p] \in 0 .. Top
      /\ Kind \in {"gear", "polynomial", "lexicographic"}
    BY <1>1, InputTypes
<1>3. /\ Origin = MinSize /\ Done = 0 /\ Reached = 0 /\ hashEnd = MinSize /\ k = 0 /\ s = 0
      /\ MinSize \in Window .. dataLen
    BY <1>2 DEF Origin, Done, Reached
<1>4. AllFound = <<0>>
    BY FirstOffsets, NothingBuffered
<1>5. currentHash = KeyAt(MinSize)
  <2> DEFINE first == MinSize - Window
             last == MinSize - 1
  <2>1. /\ first \in Int /\ last \in Int /\ first <= last
        /\ \A p \in first .. last : byte[p] \in 0 .. Top
    BY <1>2
  <2>2. currentHash = InitialHash(Kind, byte, first, last)
    OBVIOUS
  <2> HIDE DEF first, last, Init
  <2>3. InitialHash(Kind, byte, first, last) = KeyOf(Kind, byte, first, last)
    BY <1>2, <2>1, InitialIsKey
  <2> QED
    BY <2>2, <2>3 DEF KeyAt, first, last
<1>6. KeyAt(MinSize) \in 0 .. (Modulus - 1)
    BY <1>1, <1>3, KeyTypes
<1>7. ReaderTypes
  <2>1. /\ candidateOffsets \in Seq(Nat) /\ candidateOffsets # <<>> /\ candidateOffsets[1] = 0
        /\ buffer \in Seq(Nat)
    BY FirstOffsets
  <2>2. currentHash \in 0 .. (Modulus - 1) /\ maximumHash \in 0 .. (Modulus - 1)
    BY <1>5, <1>6
  <2>3. hashEnd \in MinSize .. dataLen /\ scannedOffset \in 0 .. (hashEnd - MinSize)
    BY <1>2
  <2>4. /\ finalized \in BOOLEAN /\ pc \in {"horizon", "scan", "done"} /\ regionLen \in Nat
        /\ reachesStabilityPoint \in BOOLEAN /\ i \in 0 .. regionLen /\ k \in Nat
        /\ core \in BOOLEAN /\ processed \in Nat
    <3>1. /\ finalized = FALSE /\ reachesStabilityPoint = FALSE /\ core = FALSE
          /\ pc = "horizon" /\ regionLen = 0 /\ i = 0 /\ k = 0 /\ processed = 0
      OBVIOUS
    <3> HIDE DEF Init
    <3>2. finalized \in BOOLEAN /\ reachesStabilityPoint \in BOOLEAN /\ core \in BOOLEAN
      BY ONLY <3>1
    <3>3. /\ pc \in {"horizon", "scan", "done"} /\ regionLen \in Nat /\ i \in 0 .. regionLen
          /\ k \in Nat /\ processed \in Nat
      BY ONLY <3>1
    <3> QED
      BY <3>2, <3>3
  <2>5. s \in 0 .. (Modulus - 1)
    BY ModulusIsPositive
  <2> HIDE DEF Init
  <2> QED
    BY <1>1, <2>1, <2>2, <2>3, <2>4, <2>5 DEF ReaderTypes
<1>8. Regions
    BY <1>2, FirstOffsets DEF Regions
<1>9. Blocks
    BY DEF Blocks
<1>10. Hashed
  <2>1. Wrap(currentHash * TwoTo[0] + 0) = currentHash
    BY <1>5, <1>6, HashOutsideBlock
  <2>2. hashEnd + Done - k = MinSize /\ hashEnd + Done = MinSize
    BY <1>2, <1>3
  <2>3. Origin + Last(AllFound) = MinSize
    BY <1>2, <1>3, <1>4, FirstOffsets
  <2> QED
    BY <1>3, <1>5, <2>1, <2>2, <2>3 DEF Hashed
<1>11. Recorded
  <2>1. Scores[0] \in Int
    <3>1. /\ Origin \in Nat /\ Origin >= Window /\ Origin + 0 <= dataLen /\ 0 \in Nat
          /\ 0 \in 0 .. 0
      BY <1>2, <1>3
    <3> HIDE DEF Init
    <3> QED
      BY <1>1, <3>1, ScoresAreNumbers
  <2>2. Finds(<<0>>, Scores, 0)
    BY <2>1, FindsFirst
  <2> QED
    BY <1>3, <1>4, <2>2 DEF Recorded
<1> QED
    BY <1>7, <1>8, <1>9, <1>10, <1>11 DEF ReaderInv

\* The frontier stays as it is: what was hashed and found for it is unchanged.
LEMMA FrontierStays ==
    ASSUME ReaderInv, UNCHANGED <<scanner, byte, frontier, hashEnd, block, arch>>, Done' = Done
    PROVE  Hashed' /\ Recorded' /\ AllFound' = AllFound
<1>1. UNCHANGED <<candidateOffsets, scannedOffset, currentHash, maximumHash, k, s, processed, buffer>>
    BY DEF frontier, block, arch
<1>2. Origin' = Origin /\ Reached' = Reached /\ AllFound' = AllFound
    BY <1>1 DEF Origin, Reached, AllFound
<1>3. Scores' = Scores /\ Kind' = Kind /\ \A c : KeyAt(c)' = KeyAt(c)
    BY <1>2, WindowsStay
<1>4. Recorded'
    BY <1>2, <1>3 DEF ReaderInv, Recorded
<1>5. Hashed'
    BY <1>1, <1>2, <1>3 DEF ReaderInv, Hashed
<1> QED
    BY <1>2, <1>4, <1>5

LEMMA StartRegionReader == ASSUME ReaderInv, StartRegion PROVE ReaderInv'
<1>1. /\ UNCHANGED <<scanner, byte, frontier, hashEnd, block, arch, dataLen, finalized>>
      /\ UNCHANGED <<candidateOffsets, scannedOffset, currentHash, maximumHash, k, s, core,
                     processed, buffer>>
      /\ pc = "horizon" /\ hashEnd < dataLen /\ pc' = "scan" /\ i' = 0
    BY DEF StartRegion, input, frontier, block, arch
<1>2. Done' = Done /\ InputOK'
    BY <1>1 DEF Done, ReaderInv, ReaderTypes, InputOK
<1>3. Hashed' /\ Recorded'
    BY <1>1, <1>2, FrontierStays
<1> DEFINE remaining == dataLen - hashEnd
           until == Last(candidateOffsets) + MinSize - 1 - scannedOffset
<1>4. /\ reachesStabilityPoint' = (remaining > until)
      /\ regionLen' = IF remaining > until THEN until ELSE remaining
    BY DEF StartRegion
<1>5. /\ candidateOffsets \in Seq(Nat) /\ candidateOffsets # <<>>
      /\ Last(candidateOffsets) \in Nat /\ MinSize \in Nat /\ hashEnd \in Nat /\ dataLen \in Nat
      /\ scannedOffset \in Nat
    BY Places, ListTypes DEF ReaderInv, ReaderTypes
<1>6. until \in Nat
    BY <1>1, <1>5 DEF ReaderInv, Regions
<1>7. remaining \in Nat
    BY <1>1, <1>5
<1>8. /\ regionLen' \in Nat /\ hashEnd + regionLen' <= dataLen
      /\ scannedOffset + regionLen' <= Last(candidateOffsets) + MinSize - 1
      /\ reachesStabilityPoint' \in BOOLEAN
  <2>1. CASE remaining > until
    BY <1>4, <1>5, <1>6, <1>7, <2>1
  <2>2. CASE ~ (remaining > until)
    BY <1>4, <1>5, <1>6, <1>7, <2>2
  <2> QED
    BY <2>1, <2>2
<1>9. reachesStabilityPoint' => hashEnd + regionLen' < dataLen
  <2> SUFFICES ASSUME reachesStabilityPoint' PROVE hashEnd + regionLen' < dataLen
    OBVIOUS
  <2>1. remaining > until
    BY <1>4
  <2> QED
    BY <1>4, <1>5, <1>6, <2>1
<1> HIDE DEF remaining, until
<1>10. Regions'
    BY <1>1, <1>8, <1>9 DEF Regions
<1>11. ReaderTypes'
    BY <1>1, <1>2, <1>8 DEF ReaderInv, ReaderTypes
<1>12. Blocks'
    BY <1>1 DEF ReaderInv, Blocks
<1> QED
    BY <1>3, <1>10, <1>11, <1>12 DEF ReaderInv

LEMMA EndOfDataReader == ASSUME ReaderInv, EndOfData PROVE ReaderInv'
<1>1. /\ UNCHANGED <<scanner, byte, frontier, hashEnd, block, arch, dataLen, finalized, regionLen, i>>
      /\ UNCHANGED <<candidateOffsets, scannedOffset, currentHash, maximumHash, k, s, core,
                     processed, buffer, reachesStabilityPoint>>
      /\ pc = "horizon" /\ pc' = "done"
    BY DEF EndOfData, input, frontier, block, arch, region
<1>2. Done' = Done /\ InputOK'
    BY <1>1 DEF Done, ReaderInv, ReaderTypes, InputOK
<1>3. Hashed' /\ Recorded'
    BY <1>1, <1>2, FrontierStays
<1>4. ReaderTypes'
    BY <1>1, <1>2 DEF ReaderInv, ReaderTypes
<1>5. Regions' /\ Blocks'
    BY <1>1 DEF ReaderInv, Regions, Blocks
<1> QED
    BY <1>3, <1>4, <1>5 DEF ReaderInv

LEMMA NextCallReader == ASSUME ReaderInv, NextCall PROVE ReaderInv'
<1>1. /\ UNCHANGED <<scanner, byte, frontier, hashEnd, block, arch, regionLen, i>>
      /\ UNCHANGED <<candidateOffsets, scannedOffset, currentHash, maximumHash, k, s, core,
                     processed, buffer, reachesStabilityPoint>>
      /\ pc = "done" /\ pc' = "horizon" /\ finalized' = FALSE
      /\ dataLen' \in (dataLen + 1) .. Cardinality(DOMAIN byte)
    BY DEF NextCall, frontier, block, arch, region
<1>2. Done' = Done
    BY <1>1 DEF Done
<1>3. Hashed' /\ Recorded'
    BY <1>1, <1>2, FrontierStays
<1>4. /\ dataLen \in Nat /\ Cardinality(DOMAIN byte) \in Nat /\ MinSize \in Nat /\ MinSize < dataLen
      /\ hashEnd \in MinSize .. dataLen
    BY InputTypes DEF ReaderInv, ReaderTypes
<1>5. InputOK'
    BY <1>1, <1>4 DEF ReaderInv, ReaderTypes, InputOK
<1>6. hashEnd \in MinSize .. dataLen'
    BY <1>1, <1>4
<1>7. ReaderTypes'
    BY <1>1, <1>5, <1>6 DEF ReaderInv, ReaderTypes
<1>8. Regions' /\ Blocks'
    BY <1>1 DEF ReaderInv, Regions, Blocks
<1> QED
    BY <1>3, <1>7, <1>8 DEF ReaderInv

\* At the end of a region no block is open, and the hash is that of its last window.
LEMMA RegionEnds ==
    ASSUME ReaderInv, RegionScanned
    PROVE  LET end == hashEnd + regionLen
           IN  /\ k = 0 /\ s = 0 /\ AllFound = candidateOffsets /\ Done = regionLen
               /\ end \in Window .. dataLen /\ ScannedHash(end) = KeyAt(end)
<1> DEFINE end == hashEnd + regionLen
<1>1. pc = "scan" /\ i = regionLen /\ ~ core
    BY DEF RegionScanned
<1>2. /\ InputOK /\ k \in Nat /\ candidateOffsets \in Seq(Nat) /\ buffer = <<>>
      /\ scanner.name \in ScannerNames
    BY <1>1, InputTypes DEF ReaderInv, ReaderTypes, Blocks
<1>3. i \in Nat /\ Done = i /\ end \in Window .. dataLen /\ end = hashEnd + Done
    BY <1>1, Places
<1>4. k = 0 /\ s = 0
  <2>1. ~ (k > 0 /\ scanner.name = "gear")
    BY <1>1, <1>2, <1>3, LanesAssumption DEF ReaderInv, Blocks
  <2>2. ~ (k > 0 /\ scanner.name = "archsimd")
    BY <1>1 DEF ReaderInv, Blocks
  <2> QED
    BY <1>2, <2>1, <2>2 DEF ReaderInv, Blocks
<1>5. AllFound = candidateOffsets
    BY <1>2, NothingBuffered
<1>6. ScannedHash(end) = KeyAt(end)
  <2>0. Kind \in {"gear", "polynomial", "lexicographic"}
    BY <1>2, InputTypes
  <2> HIDE DEF end
  <2>1. CASE Kind = "gear"
    <3>1. end - 0 = end
      BY <1>3, InputTypes, <1>2
    <3>2. ScannedHash(end) = currentHash
      BY <2>1 DEF ScannedHash
    <3> QED
      BY <1>3, <1>4, <2>1, <3>1, <3>2 DEF ReaderInv, Hashed
  <2>2. CASE Kind = "polynomial"
    BY <1>3, <2>2 DEF ReaderInv, Hashed, ScannedHash
  <2>3. CASE Kind = "lexicographic"
    <3>1. /\ Window \in Nat /\ Window > 0 /\ dataLen \in Nat
          /\ \A p \in 0 .. (dataLen - 1) : byte[p] \in 0 .. Top
      BY <1>2, InputTypes
    <3> DEFINE first == end - Window
               last == end - 1
    <3>2. /\ first \in Int /\ last \in Int /\ first <= last
          /\ \A p \in first .. last : byte[p] \in 0 .. Top
      BY <1>3, <3>1
    <3>3. ScannedHash(end) = Prefix(byte, first, last)
      BY <2>3 DEF ScannedHash
    <3>4. KeyAt(end) = KeyOf("lexicographic", byte, first, last)
      BY <2>3 DEF KeyAt
    <3> HIDE DEF first, last
    <3> QED
      BY <3>2, <3>3, <3>4, PrefixIsKey
  <2> QED
    BY <2>0, <2>1, <2>2, <2>3
<1> QED
    BY <1>1, <1>3, <1>4, <1>5, <1>6

\* The first candidate alone.
LEMMA FirstOf ==
    ASSUME NEW list \in Seq(Nat), list # <<>>
    PROVE  SubSeq(list, 1, 1) = <<list[1]>>
<1>1. list \in Seq(Nat) /\ Len(list) \in Nat /\ Len(list) >= 1 /\ list[1] \in Nat
    OBVIOUS
<1> DEFINE one == SubSeq(list, 1, 1)
           two == <<list[1]>>
<1>2. one \in Seq(Nat) /\ Len(one) = 1 /\ one[1] = list[1]
    BY <1>1
<1>3. two \in Seq(Nat) /\ Len(two) = 1 /\ two[1] = list[1]
    BY <1>1
<1> HIDE DEF one, two
<1>4. \A j \in 1 .. Len(one) : one[j] = two[j]
    BY <1>2, <1>3
<1>5. one = two
    BY <1>2, <1>3, <1>4, SeqEqual
<1> QED
    BY <1>5 DEF one, two

\* What FindsFirst and SubSeq say of a frontier that begins anew.
LEMMA RestartReader == ASSUME ReaderInv, Restart PROVE ReaderInv'
<1> DEFINE end == hashEnd + regionLen
<1>1. /\ RegionScanned /\ reachesStabilityPoint /\ pc = "scan"
      /\ UNCHANGED <<scanner, byte, dataLen, regionLen, reachesStabilityPoint, i, k, s, core,
                     processed, buffer>>
      /\ hashEnd' = end + 1 /\ scannedOffset' = 0 /\ finalized' = TRUE /\ pc' = "horizon"
      /\ candidateOffsets' = SubSeq(candidateOffsets, 1, 1)
      /\ currentHash' = RollHash(Kind, Window, ScannedHash(end),
                                 byte[end - Window], byte[EnteringIndex(end)])
      /\ maximumHash' = currentHash'
    BY DEF Restart, BatchIsStable, RegionScanned, input, region, block, arch
<1>2. /\ InputOK /\ candidateOffsets \in Seq(Nat) /\ candidateOffsets # <<>>
      /\ candidateOffsets[1] = 0 /\ buffer = <<>> /\ end < dataLen /\ ~ core
    BY <1>1 DEF ReaderInv, ReaderTypes, Blocks, Regions, RegionScanned
<1>3. k = 0 /\ s = 0 /\ end \in Window .. dataLen /\ ScannedHash(end) = KeyAt(end)
    BY <1>1, RegionEnds
<1>4. /\ Window \in Nat /\ Window > 0 /\ Window <= MinSize /\ MinSize \in Nat /\ dataLen \in Nat
      /\ hashEnd \in Nat /\ hashEnd >= MinSize /\ regionLen \in Nat
    BY Places
<1>5. end \in Window .. (dataLen - 1) /\ end + 1 \in Window .. dataLen /\ end \in Nat
    BY <1>2, <1>3, <1>4
<1> HIDE DEF end
<1>6. currentHash' = KeyAt(end + 1)
    BY <1>1, <1>2, <1>3, <1>5, KeyRolls
<1>7. KeyAt(end + 1) \in 0 .. (Modulus - 1)
  <2> DEFINE c == end + 1
  <2>1. c \in Window .. dataLen
    BY <1>5
  <2> HIDE DEF c
  <2> QED
    BY <1>2, <2>1, KeyTypes DEF c
<1>8. candidateOffsets' = <<0>>
  <2>1. Len(candidateOffsets) \in Nat /\ Len(candidateOffsets) >= 1
    BY <1>2
  <2>2. SubSeq(candidateOffsets, 1, 1) = <<candidateOffsets[1]>>
    BY ONLY <1>2, <2>1, FirstOf
  <2> QED
    BY <1>1, <1>2, <2>2
<1>9. Origin' = end + 1 /\ Done' = 0 /\ Reached' = 0 /\ AllFound' = <<0>>
  <2>1. AllFound' = <<0>>
    BY <1>1, <1>2, <1>8, FirstOffsets, NothingBufferedNext
  <2> QED
    BY <1>1, <1>5, <2>1 DEF Origin, Done, Reached
<1>10. InputOK'
    BY <1>1, <1>2 DEF InputOK
<1>11. Window' = Window /\ Kind' = Kind /\ \A c : KeyAt(c)' = KeyAt(c)
    BY <1>1, WindowsStay
<1>12. ReaderTypes'
  <2>1. hashEnd' \in MinSize .. dataLen' /\ scannedOffset' \in 0 .. (hashEnd' - MinSize)
    BY <1>1, <1>4, <1>5 DEF end
  <2>2. /\ candidateOffsets' \in Seq(Nat) /\ candidateOffsets' # <<>> /\ candidateOffsets'[1] = 0
    BY <1>8, FirstOffsets
  <2> QED
    BY <1>1, <1>6, <1>7, <1>10, <2>1, <2>2 DEF ReaderInv, ReaderTypes
<1>13. Regions'
  <2>1. pc' # "scan" /\ scannedOffset' = 0 /\ Last(candidateOffsets') = 0
    BY <1>1, <1>8, FirstOffsets
  <2>2. 0 + 0 <= 0 + MinSize - 1
    BY <1>4
  <2> QED
    BY <2>1, <2>2 DEF Regions
<1>14. Blocks'
    BY <1>1, <1>2, <1>3 DEF Blocks
<1>15. Hashed'
  <2>1. Wrap(currentHash' * TwoTo[0] + 0) = currentHash'
    BY <1>6, <1>7, HashOutsideBlock
  <2>2. hashEnd' + Done' - k' = end + 1 /\ hashEnd' + Done' = end + 1
    BY <1>1, <1>3, <1>5, <1>9
  <2>3. Origin' + Last(AllFound') = end + 1
    BY <1>5, <1>9, FirstOffsets
  <2>4. k' = 0 /\ s' = 0
    BY <1>1, <1>3
  <2> QED
    BY <1>1, <1>6, <1>11, <2>1, <2>2, <2>3, <2>4 DEF Hashed
<1>16. Recorded'
  <2>1. Scores'[0] \in Int
    <3>1. Scores'[0] = ScoreAt(Origin' + 0)
      <4>1. Scores' = [o \in Nat |-> ScoreAt(Origin' + o)]
        <5>1. \A c : ScoreAt(c)' = ScoreAt(c)
          BY <1>1, WindowsStay
        <5> QED
          BY <5>1 DEF Scores
      <4> QED
        BY <4>1
    <3> DEFINE c == Origin' + 0
    <3>2. c \in Window .. dataLen
      BY <1>5, <1>9
    <3> HIDE DEF c
    <3>3. ScoreAt(c) \in Nat
      BY <1>2, <3>2, KeyTypes
    <3> QED
      BY <3>1, <3>3 DEF c
  <2>2. Finds(<<0>>, Scores', 0)
    BY <2>1, FindsFirst
  <2> QED
    BY <1>9, <2>2 DEF Recorded
<1> QED
    BY <1>12, <1>13, <1>14, <1>15, <1>16 DEF ReaderInv

LEMMA GoOnReader == ASSUME ReaderInv, GoOn PROVE ReaderInv'
<1> DEFINE end == hashEnd + regionLen
<1>1. /\ RegionScanned /\ pc = "scan" /\ i = regionLen
      /\ UNCHANGED <<scanner, byte, dataLen, regionLen, reachesStabilityPoint, i, k, s, core,
                     processed, buffer, candidateOffsets, maximumHash, finalized>>
      /\ hashEnd' = end /\ scannedOffset' = scannedOffset + regionLen /\ pc' = "horizon"
      /\ currentHash' = ScannedHash(end)
    BY DEF GoOn, RegionScanned, input, region, block, arch
<1>2. /\ InputOK /\ candidateOffsets \in Seq(Nat) /\ candidateOffsets # <<>>
      /\ candidateOffsets[1] = 0 /\ buffer = <<>> /\ end <= dataLen /\ ~ core
    BY <1>1 DEF ReaderInv, ReaderTypes, Blocks, Regions, RegionScanned
<1>3. /\ k = 0 /\ s = 0 /\ end \in Window .. dataLen /\ ScannedHash(end) = KeyAt(end)
      /\ AllFound = candidateOffsets /\ Done = regionLen
    BY <1>1, RegionEnds
<1>4. /\ MinSize \in Nat /\ dataLen \in Nat /\ scannedOffset \in 0 .. (hashEnd - MinSize)
      /\ hashEnd \in Nat /\ hashEnd >= MinSize /\ regionLen \in Nat
    BY Places DEF ReaderInv, ReaderTypes
<1>5. KeyAt(end) \in 0 .. (Modulus - 1)
  <2> HIDE DEF end
  <2> QED
    BY <1>2, <1>3, KeyTypes
<1>6. /\ Origin' = Origin /\ Done' = 0 /\ Reached' = Reached
      /\ hashEnd' + Done' = end /\ hashEnd' + Done' - k' = end
    BY <1>1, <1>3, <1>4 DEF Origin, Done, Reached
<1>7. AllFound' = AllFound
    BY <1>1, <1>2, <1>3, NothingBufferedNext
<1> HIDE DEF end
<1>8. Kind' = Kind /\ Scores' = Scores /\ \A c : KeyAt(c)' = KeyAt(c)
    BY <1>1, <1>6, WindowsStay
<1>9. ReaderTypes'
  <2>1. hashEnd' \in MinSize .. dataLen' /\ scannedOffset' \in 0 .. (hashEnd' - MinSize)
    BY <1>1, <1>2, <1>4 DEF end
  <2>2. InputOK'
    BY <1>1, <1>2 DEF InputOK
  <2>3. currentHash' \in 0 .. (Modulus - 1)
    BY <1>1, <1>3, <1>5
  <2> QED
    BY <1>1, <2>1, <2>2, <2>3 DEF ReaderInv, ReaderTypes
<1>10. Regions'
    BY <1>1 DEF ReaderInv, Regions
<1>11. Blocks'
    BY <1>1, <1>2, <1>3 DEF Blocks
<1>12. Hashed'
  <2>1. currentHash' = KeyAt(end) /\ Wrap(currentHash' * TwoTo[0] + 0) = currentHash'
    BY <1>1, <1>3, <1>5, HashOutsideBlock
  <2>2. k' = 0 /\ s' = 0
    BY <1>1, <1>3
  <2>3. maximumHash' = KeyAt(Origin' + Last(AllFound'))
    BY <1>1, <1>6, <1>7 DEF ReaderInv, Hashed
  <2> QED
    BY <1>1, <1>6, <1>8, <2>1, <2>2, <2>3 DEF Hashed
<1>13. Recorded'
    BY <1>6, <1>7, <1>8 DEF ReaderInv, Recorded
<1> QED
    BY <1>9, <1>10, <1>11, <1>12, <1>13 DEF ReaderInv

LEMMA EnterCoreReader == ASSUME ReaderInv, EnterCore PROVE ReaderInv'
<1>1. /\ pc = "scan" /\ scanner.name = "archsimd" /\ ~ core /\ core' = TRUE /\ processed' = i
      /\ UNCHANGED <<scanner, byte, dataLen, frontier, candidateOffsets, scannedOffset, currentHash,
                     maximumHash, hashEnd, finalized, pc, regionLen, reachesStabilityPoint, i, k, s,
                     buffer>>
    BY DEF EnterCore, Scanning, input, frontier, region, block
<1>2. /\ InputOK /\ candidateOffsets \in Seq(Nat) /\ buffer = <<>> /\ k \in Nat /\ i \in Nat
    BY <1>1, Places DEF ReaderInv, ReaderTypes, Blocks
<1>3. k = 0
    BY <1>1, <1>2 DEF ReaderInv, Blocks
<1>4. AllFound' = AllFound
    BY <1>1, <1>2, NothingBuffered, NothingBufferedNext
<1>5. Origin' = Origin /\ Done' = Done /\ Reached' = Reached
    BY <1>1 DEF Origin, Done, Reached
<1>6. Kind' = Kind /\ Scores' = Scores /\ \A c : KeyAt(c)' = KeyAt(c)
    BY <1>1, <1>5, WindowsStay
<1>7. Hashed' /\ Recorded'
    BY <1>1, <1>4, <1>5, <1>6 DEF ReaderInv, Hashed, Recorded
<1>8. InputOK'
    BY <1>1, <1>2 DEF InputOK
<1>9. ReaderTypes'
    BY <1>1, <1>2, <1>8 DEF ReaderInv, ReaderTypes
<1>10. Regions'
    BY <1>1 DEF ReaderInv, Regions
<1>11. Blocks'
  <2>1. Len(<<>>) <= BufferSize /\ k' = 0 /\ s' = s /\ buffer' = <<>> /\ i' = i
    BY <1>1, <1>2, <1>3, LanesAssumption
  <2>2. s' = 0
    BY <1>3, <2>1 DEF ReaderInv, Blocks
  <2>3. BufferSize - 0 = BufferSize
    BY LanesAssumption
  <2> QED
    BY <1>1, <1>2, <2>1, <2>2, <2>3 DEF Blocks
<1> QED
    BY <1>7, <1>9, <1>10, <1>11 DEF ReaderInv

\* The last offset found is the largest.
LEMMA LastIsLargest ==
    ASSUME NEW list, NEW score, NEW n \in Nat, Finds(list, score, n),
           \A o \in 0 .. n : score[o] \in Int, NEW o \in ToSet(list)
    PROVE  o <= Last(list)
<1>1. o \in 0 .. n /\ \A earlier \in 0 .. (o - 1) : score[earlier] < score[o]
    BY DEF Finds, Records
<1>2. Last(list) \in 0 .. n /\ score[o] <= score[Last(list)]
    BY <1>1 DEF Finds
<1>3. ~ (Last(list) \in 0 .. (o - 1))
    BY <1>1, <1>2
<1> QED
    BY <1>1, <1>2, <1>3

\* A function on the first numbers is a sequence.
LEMMA SeqOfFunction ==
    ASSUME NEW n \in Nat, NEW S, NEW f \in [1 .. n -> S]
    PROVE  f \in Seq(S)
BY SeqDef

LEMMA LeaveCoreReader == ASSUME ReaderInv, LeaveCore PROVE ReaderInv'
<1>1. /\ pc = "scan" /\ core /\ ~ CoreContinues /\ core' = FALSE /\ buffer' = <<>>
      /\ candidateOffsets' = AllFound
      /\ UNCHANGED <<scanner, byte, dataLen, scannedOffset, currentHash,
                     maximumHash, hashEnd, finalized, pc, regionLen, reachesStabilityPoint, i, k, s,
                     processed>>
    BY DEF LeaveCore, AllFound, input, region, block
<1>2. /\ InputOK /\ candidateOffsets \in Seq(Nat) /\ candidateOffsets # <<>>
      /\ candidateOffsets[1] = 0 /\ k \in Nat
    BY DEF ReaderInv, ReaderTypes
<1>3. k = 0
    BY <1>1, <1>2 DEF CoreContinues
<1>4. /\ AllFound \in Seq(Nat) /\ AllFound # <<>> /\ Reached \in Nat /\ Origin \in Nat
      /\ Last(AllFound) \in 0 .. Reached /\ Origin >= Window /\ Origin + Reached <= dataLen
      /\ MinSize \in Nat /\ scannedOffset \in Nat /\ regionLen \in Nat
    BY Places
<1>5. AllFound' = AllFound
    BY <1>1, <1>4, NothingBufferedNext
<1>6. Origin' = Origin /\ Done' = Done /\ Reached' = Reached
    BY <1>1 DEF Origin, Done, Reached
<1>7. Kind' = Kind /\ Scores' = Scores /\ \A c : KeyAt(c)' = KeyAt(c)
    BY <1>1, <1>6, WindowsStay
<1>8. Hashed' /\ Recorded'
    BY <1>1, <1>5, <1>6, <1>7 DEF ReaderInv, Hashed, Recorded
<1>9. InputOK'
    BY <1>1, <1>2 DEF InputOK
<1>10. /\ AllFound[1] = 0 /\ Last(candidateOffsets) \in ToSet(AllFound)
  <2> DEFINE more == [j \in DOMAIN buffer |-> scannedOffset + processed + buffer[j]]
             n == Len(candidateOffsets)
  <2>1. more \in Seq(Nat)
    <3>1. buffer \in Seq(Nat) /\ scannedOffset \in Nat /\ processed \in Nat
      BY <1>4 DEF ReaderInv, ReaderTypes
    <3>2. Len(buffer) \in Nat /\ DOMAIN buffer = 1 .. Len(buffer)
          /\ \A j \in 1 .. Len(buffer) : scannedOffset + processed + buffer[j] \in Nat
      BY <3>1
    <3> DEFINE m == Len(buffer)
    <3>3. more \in [1 .. m -> Nat] /\ m \in Nat
      BY <3>2
    <3> HIDE DEF more, m
    <3> QED
      BY ONLY <3>3, SeqOfFunction
  <2>2. AllFound = candidateOffsets \o more /\ n \in Nat /\ n >= 1
    BY <1>2 DEF AllFound
  <2> HIDE DEF more
  <2>3. /\ AllFound[1] = candidateOffsets[1] /\ AllFound[n] = candidateOffsets[n]
        /\ n \in DOMAIN AllFound
    BY <1>2, <2>1, <2>2
  <2> QED
    BY <1>2, <2>3 DEF Last, ToSet
<1>11. Last(candidateOffsets) <= Last(AllFound) /\ Last(candidateOffsets) \in Nat
  <2>1. \A o \in 0 .. Reached : Scores[o] \in Int
    BY <1>2, <1>4, ScoresAreNumbers
  <2>2. Finds(AllFound, Scores, Reached)
    BY DEF ReaderInv, Recorded
  <2> QED
    BY <1>2, <1>4, <1>10, <2>1, <2>2, LastIsLargest, ListTypes
<1>12. ReaderTypes'
  <2>1. /\ candidateOffsets' \in Seq(Nat) /\ candidateOffsets' # <<>> /\ candidateOffsets'[1] = 0
    BY <1>1, <1>4, <1>10
  <2>2. core' \in BOOLEAN /\ buffer' \in Seq(Nat)
    <3>1. core' = FALSE /\ buffer' = <<>>
      BY <1>1
    <3>2. core' \in BOOLEAN
      BY ONLY <3>1
    <3>3. <<>> \in Seq(Nat)
      OBVIOUS
    <3> QED
      BY ONLY <3>1, <3>2, <3>3
  <2> QED
    BY <1>1, <1>9, <2>1, <2>2 DEF ReaderInv, ReaderTypes
<1>13. Regions'
  <2>1. scannedOffset + regionLen <= Last(candidateOffsets) + MinSize - 1
    BY <1>1 DEF ReaderInv, Regions
  <2>2. scannedOffset + regionLen <= Last(AllFound) + MinSize - 1
    BY <1>4, <1>11, <2>1
  <2> QED
    BY <1>1, <2>2 DEF ReaderInv, Regions
<1>14. Blocks'
    BY <1>1, <1>3 DEF ReaderInv, Blocks
<1> QED
    BY <1>8, <1>12, <1>13, <1>14 DEF ReaderInv

-----------------------------------------------------------------------------
\* The bytes of a region

\* What a byte leaves alone, and the cut that it leads to.
LEMMA NextCut ==
    ASSUME ReaderInv, pc = "scan", i < regionLen, ByteDone
    PROVE  LET c == hashEnd + i
           IN  /\ InputOK /\ InputOK' /\ i \in Nat /\ i' = i + 1 /\ i' \in 0 .. regionLen'
               /\ UNCHANGED <<scanner, byte, dataLen, scannedOffset, hashEnd, finalized, pc,
                              regionLen, reachesStabilityPoint>>
               /\ c \in Nat /\ c \in Window .. (dataLen - 1) /\ c + 1 \in Window .. dataLen
               /\ c = hashEnd + Done /\ hashEnd' + Done' = c + 1 /\ Origin' = Origin
               /\ Outgoing = byte[c - Window] /\ Incoming = byte[c]
               /\ Kind' = Kind /\ \A cut : KeyAt(cut)' = KeyAt(cut)
               /\ KeyAt(c) \in 0 .. (Modulus - 1) /\ KeyAt(c + 1) \in 0 .. (Modulus - 1)
<1> DEFINE c == hashEnd + i
<1>1. /\ InputOK /\ hashEnd + regionLen <= dataLen
    BY DEF ReaderInv, ReaderTypes, Regions
<1>2. /\ i' = i + 1
      /\ UNCHANGED <<scanner, byte, dataLen, scannedOffset, hashEnd, finalized, pc,
                     regionLen, reachesStabilityPoint>>
    BY DEF ByteDone, input, region
<1>3. InputOK'
    BY <1>1, <1>2 DEF InputOK
<1>4. /\ Window \in Nat /\ dataLen \in Nat /\ hashEnd \in Nat /\ i \in Nat /\ regionLen \in Nat
      /\ Done = i /\ hashEnd + Done \in Window .. dataLen
    BY Places
<1>5. /\ c \in Nat /\ c \in Window .. (dataLen - 1) /\ c + 1 \in Window .. dataLen
      /\ i' \in 0 .. regionLen'
    BY <1>1, <1>2, <1>4
<1>6. Done' = i + 1 /\ Origin' = Origin
    BY <1>2 DEF Done, Origin
<1>7. hashEnd' + Done' = c + 1
    BY <1>2, <1>4, <1>6
<1>8. Outgoing = byte[c - Window] /\ Incoming = byte[c]
  <2>1. hashEnd + i - Window = c - Window
    BY <1>4
  <2> QED
    BY <2>1 DEF Outgoing, Incoming
<1>9. Kind' = Kind /\ \A cut : KeyAt(cut)' = KeyAt(cut)
    BY <1>2, WindowsStay
<1>10. KeyAt(c) \in 0 .. (Modulus - 1) /\ KeyAt(c + 1) \in 0 .. (Modulus - 1)
  <2> DEFINE d == c + 1
  <2>1. c \in Window .. dataLen /\ d \in Window .. dataLen
    BY <1>4, <1>5
  <2> HIDE DEF c, d
  <2>2. KeyAt(d) \in 0 .. (Modulus - 1) /\ KeyAt(c) \in 0 .. (Modulus - 1)
    BY <1>1, <2>1, KeyTypes
  <2> QED
    BY <2>2 DEF d
<1> QED
    BY <1>1, <1>2, <1>3, <1>4, <1>5, <1>6, <1>7, <1>8, <1>9, <1>10

\* A scanner that hands over its candidates at once finds what it should.
LEMMA FoundAtOnce ==
    ASSUME ReaderInv, pc = "scan", i < regionLen, ByteDone, ~ core, UNCHANGED arch,
           NEW better \in BOOLEAN,
           better <=> ScoreAt(hashEnd + i + 1) > ScoreAt(Origin + Last(candidateOffsets)),
           candidateOffsets' = IF better THEN Append(candidateOffsets, scannedOffset + i + 1)
                               ELSE candidateOffsets,
           maximumHash' = IF better THEN KeyAt(hashEnd + i + 1) ELSE maximumHash
    PROVE  /\ Recorded' /\ Regions' /\ maximumHash' \in 0 .. (Modulus - 1)
           /\ (maximumHash = KeyAt(Origin + Last(AllFound)))'
           /\ candidateOffsets' \in Seq(Nat) /\ candidateOffsets' # <<>>
           /\ candidateOffsets'[1] = 0
           /\ UNCHANGED <<core, processed, buffer>>
<1>1. /\ UNCHANGED <<core, processed, buffer>> /\ buffer = <<>>
      /\ candidateOffsets \in Seq(Nat) /\ candidateOffsets # <<>> /\ candidateOffsets[1] = 0
    BY DEF ReaderInv, ReaderTypes, Blocks, arch
<1>2. AllFound = candidateOffsets
    BY <1>1, NothingBuffered
<1> DEFINE o == scannedOffset + i + 1
           best == Last(candidateOffsets)
<1>3. /\ scannedOffset \in Nat /\ i \in Nat /\ regionLen \in Nat /\ MinSize \in Nat
      /\ Reached = scannedOffset + i /\ best \in 0 .. Reached
    BY <1>2, Places DEF Reached
<1>4. o \in Nat /\ o > best /\ best \in Nat
    BY <1>3
<1>5. /\ Append(candidateOffsets, o) \in Seq(Nat) /\ Append(candidateOffsets, o) # <<>>
      /\ Last(Append(candidateOffsets, o)) = o /\ Append(candidateOffsets, o)[1] = 0
  <2> HIDE DEF o
  <2> QED
    BY <1>1, <1>4, ListTypes
<1> HIDE DEF o, best
<1>6. /\ candidateOffsets' = IF better THEN Append(candidateOffsets, o) ELSE candidateOffsets
    BY DEF o
<1>7. /\ candidateOffsets' \in Seq(Nat) /\ candidateOffsets' # <<>> /\ candidateOffsets'[1] = 0
      /\ Last(candidateOffsets') \in Nat /\ Last(candidateOffsets') >= best
  <2>1. CASE better
    BY <1>4, <1>5, <1>6, <2>1
  <2>2. CASE ~ better
    BY <1>1, <1>4, <1>6, <2>2 DEF best
  <2> QED
    BY <2>1, <2>2
<1>8. AllFound' = candidateOffsets'
    BY <1>1, <1>7, NothingBufferedNext
<1>9. AllFound' = IF better THEN Append(AllFound, scannedOffset + i + 1) ELSE AllFound
    BY <1>2, <1>8
<1>10. better <=> ScoreAt(hashEnd + i + 1) > ScoreAt(Origin + Last(AllFound))
    BY <1>2
<1>11. /\ Recorded' /\ maximumHash' \in 0 .. (Modulus - 1)
       /\ (maximumHash = KeyAt(Origin + Last(AllFound)))'
    BY <1>9, <1>10, FoundNext
<1>12. Regions'
  <2>1. UNCHANGED <<dataLen, scannedOffset, hashEnd, pc, regionLen, reachesStabilityPoint>>
    BY NextCut
  <2>2. /\ hashEnd + regionLen <= dataLen
        /\ reachesStabilityPoint => hashEnd + regionLen < dataLen
        /\ scannedOffset + regionLen <= best + MinSize - 1
    BY DEF ReaderInv, Regions, best
  <2>3. scannedOffset + regionLen <= Last(candidateOffsets') + MinSize - 1
    BY <1>3, <1>4, <1>7, <2>2
  <2> QED
    BY <2>1, <2>2, <2>3 DEF Regions
<1> QED
    BY <1>1, <1>7, <1>11, <1>12

\* For the numbers that are kept as a whole, the hash is compared.
LEMMA Considered ==
    ASSUME ReaderInv, pc = "scan", i < regionLen, ByteDone, ~ core, UNCHANGED arch,
           Kind # "lexicographic", Consider(KeyAt(hashEnd + i + 1))
    PROVE  /\ Recorded' /\ Regions' /\ maximumHash' \in 0 .. (Modulus - 1)
           /\ (maximumHash = KeyAt(Origin + Last(AllFound)))'
           /\ candidateOffsets' \in Seq(Nat) /\ candidateOffsets' # <<>>
           /\ candidateOffsets'[1] = 0
           /\ UNCHANGED <<core, processed, buffer>>
<1> DEFINE c == hashEnd + i + 1
           best == Origin + Last(candidateOffsets)
           better == maximumHash < KeyAt(c)
<1>1. /\ InputOK /\ buffer = <<>> /\ candidateOffsets \in Seq(Nat)
    BY DEF ReaderInv, ReaderTypes, Blocks
<1>2. AllFound = candidateOffsets
    BY <1>1, NothingBuffered
<1>3. maximumHash = KeyAt(best) /\ best \in Window .. dataLen
    BY <1>2, Places DEF ReaderInv, Hashed
<1>4. c \in Window .. dataLen
    BY NextCut
<1>5. /\ better \in BOOLEAN
      /\ candidateOffsets' = IF better THEN Append(candidateOffsets, scannedOffset + i + 1)
                             ELSE candidateOffsets
      /\ maximumHash' = IF better THEN KeyAt(c) ELSE maximumHash
    BY DEF Consider
<1> HIDE DEF c, best
<1>6. KeyAt(c) = ScoreAt(c) /\ KeyAt(best) = ScoreAt(best) /\ ScoreAt(c) \in Nat /\ ScoreAt(best) \in Nat
    BY <1>1, <1>3, <1>4, KeyTypes
<1>7. better <=> ScoreAt(c) > ScoreAt(best)
    BY <1>3, <1>6
<1> HIDE DEF better
<1> QED
    BY <1>5, <1>7, FoundAtOnce DEF c, best

\* Within a block of the Gear scanner: a hash, and what n bytes after it add.
BlockHash(h, n, below) == Wrap(h * TwoTo[n] + below)

\* A byte more makes of it what a step of the hash does.
LEMMA BlockHashSteps ==
    ASSUME NEW h \in Int, NEW below \in Int, NEW n \in Nat, NEW b, Gear[b] \in Int
    PROVE  BlockHash(h, n + 1, GearStep(below, b)) = GearStep(BlockHash(h, n, below), b)
<1> DEFINE x == h * TwoTo[n]
           g == Gear[b]
           y == 2 * below + g
           key == Wrap(x + below)
<1>1. TwoTo[n] \in Int /\ TwoTo[n + 1] = 2 * TwoTo[n]
    BY TwoToIsPositive, TwoToDoubles
<1>2. x \in Int /\ h * TwoTo[n + 1] = 2 * x /\ g \in Int
    BY <1>1
<1> HIDE DEF x, g
<1>3. y \in Int /\ 2 * x \in Int /\ x + below \in Int /\ 2 * (x + below) + g = 2 * x + y
    BY <1>2
<1>4. Wrap(y) \in Int /\ Same(Wrap(y), y)
    BY <1>3, SameAsWrapped
<1>5. Same(2 * x + Wrap(y), 2 * x + y)
  <2> DEFINE z == 2 * x
  <2> HIDE DEF z, y
  <2> QED
    BY <1>3, <1>4, SameItself, SameAdds DEF z
<1>6. Same(key, x + below)
  <2> DEFINE z == x + below
  <2>1. z \in Int /\ key = Wrap(z)
    BY <1>3
  <2> HIDE DEF z, key
  <2>2. Same(key, z)
    BY <2>1, SameAsWrapped
  <2> QED
    BY <2>2 DEF z
<1>7. Same(2 * key + g, 2 * x + y) /\ key \in Int
  <2> DEFINE z == x + below
             two == 2
  <2>0. z \in Int /\ Same(key, z) /\ two \in Int /\ key \in Int
    BY <1>3, <1>6, SameAsWrapped
  <2> HIDE DEF z, two, key
  <2>1. Same(two * key, two * z) /\ two * key \in Int /\ two * z \in Int
    <3>1. Same(two * key, two * z)
      BY <2>0, SameTimes
    <3>2. two * key \in Int /\ two * z \in Int
      BY <2>0 DEF two
    <3> QED
      BY <3>1, <3>2
  <2>2. Same(two * key + g, two * z + g)
    BY <1>2, <2>0, <2>1, SameItself, SameAdds
  <2>3. two * z + g = 2 * x + y
    BY <1>3 DEF z, two
  <2> QED
    BY <2>0, <2>2, <2>3 DEF two
<1> DEFINE left == 2 * x + Wrap(y)
           right == 2 * key + g
           whole == 2 * x + y
<1>8. /\ left \in Int /\ right \in Int /\ whole \in Int
      /\ Same(left, whole) /\ Same(right, whole)
  <2> HIDE DEF key
  <2> QED
    BY <1>2, <1>3, <1>4, <1>5, <1>7
<1> HIDE DEF left, right, whole, y
<1>9. Wrap(left) = Wrap(right)
    BY <1>8, WrapSame
<1>10. /\ BlockHash(h, n + 1, GearStep(below, b)) = Wrap(left)
       /\ GearStep(BlockHash(h, n, below), b) = Wrap(right)
    BY <1>2 DEF BlockHash, GearStep, left, right, y, g, x
<1> QED
    BY <1>9, <1>10

LEMMA GearBlockByteReader == ASSUME ReaderInv, GearBlockByte PROVE ReaderInv'
<1> DEFINE c == hashEnd + i
           added == Wrap(2 * s + Gear[Incoming])
           whole == Wrap(currentHash * TwoTo[k + 1] + added)
<1>1. /\ pc = "scan" /\ scanner.name = "gear" /\ i < regionLen /\ i - k + Unroll <= regionLen
      /\ Consider(whole) /\ ByteDone /\ UNCHANGED arch
      /\ IF k + 1 < Unroll
         THEN k' = k + 1 /\ s' = added /\ UNCHANGED currentHash
         ELSE k' = 0 /\ s' = 0 /\ currentHash' = whole
    BY DEF GearBlockByte, Scanning
<1>2. /\ InputOK /\ InputOK' /\ i \in Nat /\ i' = i + 1 /\ i' \in 0 .. regionLen'
      /\ UNCHANGED <<scanner, byte, dataLen, scannedOffset, hashEnd, finalized, pc,
                     regionLen, reachesStabilityPoint>>
      /\ c \in Nat /\ c \in Window .. (dataLen - 1) /\ c + 1 \in Window .. dataLen
      /\ c = hashEnd + Done /\ hashEnd' + Done' = c + 1 /\ Origin' = Origin
      /\ Outgoing = byte[c - Window] /\ Incoming = byte[c]
      /\ Kind' = Kind /\ \A cut : KeyAt(cut)' = KeyAt(cut)
      /\ KeyAt(c) \in 0 .. (Modulus - 1) /\ KeyAt(c + 1) \in 0 .. (Modulus - 1)
    BY <1>1, NextCut
<1>3. /\ Kind = "gear" /\ ~ core /\ k \in Nat /\ k <= i /\ hashEnd \in Nat
      /\ currentHash \in 0 .. (Modulus - 1) /\ s \in 0 .. (Modulus - 1)
      /\ Unroll \in Nat /\ regionLen \in Nat
    BY <1>1, <1>2, InputTypes, Places, LanesAssumption DEF ReaderInv, ReaderTypes, Blocks
<1>4. Gear[byte[c]] \in Int
  <2>1. \A a \in 0 .. Top : a \in DOMAIN Gear
    BY PrefixAssumption
  <2>2. \A a \in DOMAIN Gear : Gear[a] \in Nat
    BY GearAssumption
  <2>3. byte[c] \in 0 .. Top
    <3>1. /\ Window \in Nat /\ dataLen \in Nat /\ \A p \in 0 .. (dataLen - 1) : byte[p] \in 0 .. Top
      BY <1>2, InputTypes
    <3> HIDE DEF c
    <3> QED
      BY <1>2, <3>1
  <2> QED
    BY <2>1, <2>2, <2>3
<1>5. currentHash \in Int /\ s \in Int /\ KeyAt(c) \in Int
    BY <1>2, <1>3, ModulusIsPositive
<1> HIDE DEF c
<1>6. Wrap(currentHash * TwoTo[k] + s) = KeyAt(c) /\ currentHash = KeyAt(c - k)
  <2>1. /\ Wrap(currentHash * TwoTo[k] + s) = KeyAt(hashEnd + Done)
        /\ currentHash = KeyAt(hashEnd + Done - k)
    BY <1>3 DEF ReaderInv, Hashed
  <2>2. hashEnd + Done - k = c - k
    <3>1. hashEnd \in Nat /\ Done \in Nat
      BY Places
    <3> QED
      BY <1>2, <1>3, <3>1
  <2> QED
    BY <1>2, <2>1, <2>2
<1>7. whole = KeyAt(c + 1)
  <2>1. KeyAt(c + 1) = GearStep(KeyAt(c), byte[c])
    BY <1>2, <1>3, KeyRolls
  <2>2. whole = GearStep(KeyAt(c), byte[c])
    <3> DEFINE b == byte[c]
    <3>1. Gear[b] \in Int /\ whole = Wrap(currentHash * TwoTo[k + 1] + GearStep(s, b))
      BY <1>2, <1>4 DEF GearStep
    <3>2. Wrap(currentHash * TwoTo[k + 1] + GearStep(s, b))
             = BlockHash(currentHash, k + 1, GearStep(s, b))
      BY DEF BlockHash
    <3>3. BlockHash(currentHash, k, s) = KeyAt(c)
      BY <1>6 DEF BlockHash
    <3> HIDE DEF whole, added, b
    <3>4. BlockHash(currentHash, k + 1, GearStep(s, b)) = GearStep(BlockHash(currentHash, k, s), b)
      BY <1>3, <1>5, <3>1, BlockHashSteps
    <3> QED
      BY <3>1, <3>2, <3>3, <3>4 DEF b
  <2> QED
    BY <2>1, <2>2
<1>8. added \in 0 .. (Modulus - 1)
  <2>1. 2 * s + Gear[Incoming] \in Int
    BY <1>2, <1>4, <1>5
  <2> QED
    BY <2>1, SameAsWrapped
<1> HIDE DEF added, whole
<1>9. c + 1 = hashEnd + i + 1
    BY DEF c
<1>10. /\ Recorded' /\ Regions' /\ maximumHash' \in 0 .. (Modulus - 1)
       /\ (maximumHash = KeyAt(Origin + Last(AllFound)))'
       /\ candidateOffsets' \in Seq(Nat) /\ candidateOffsets' # <<>> /\ candidateOffsets'[1] = 0
       /\ UNCHANGED <<core, processed, buffer>>
    BY <1>1, <1>3, <1>7, <1>9, Considered
<1>11. CASE k + 1 < Unroll
  <2>1. k' = k + 1 /\ s' = added /\ currentHash' = currentHash
    BY <1>1, <1>11
  <2>2. ReaderTypes'
    BY <1>2, <1>3, <1>8, <1>10, <2>1 DEF ReaderInv, ReaderTypes
  <2>3. Blocks'
    <3>1. k' > 0 /\ k' < Unroll /\ k' <= i' /\ i' - k' + Unroll <= regionLen'
      BY <1>1, <1>2, <1>3, <1>11, <2>1
    <3>2. pc' = "scan" /\ scanner'.name = "gear" /\ ~ core' /\ buffer' = <<>>
      BY <1>1, <1>2, <1>3, <1>10 DEF ReaderInv, Blocks
    <3> QED
      BY ONLY <3>1, <3>2 DEF Blocks
  <2>4. Hashed'
    <3>1. hashEnd' + Done' - k' = c - k
      <4>1. Done' = i + 1 /\ hashEnd' = hashEnd
        BY <1>1, <1>2 DEF Done
      <4> QED
        BY <1>2, <1>3, <2>1, <4>1 DEF c
    <3>2. currentHash' = KeyAt(c - k)
      BY <1>6, <2>1
    <3>3. Wrap(currentHash' * TwoTo[k'] + s') = KeyAt(c + 1)
      BY <1>7, <2>1 DEF whole
    <3> QED
      BY <1>2, <1>3, <1>10, <3>1, <3>2, <3>3 DEF Hashed
  <2> QED
    BY <1>10, <2>2, <2>3, <2>4 DEF ReaderInv
<1>12. CASE ~ (k + 1 < Unroll)
  <2>1. k' = 0 /\ s' = 0 /\ currentHash' = KeyAt(c + 1) /\ 0 \in 0 .. (Modulus - 1)
    BY <1>1, <1>7, <1>12, ModulusIsPositive
  <2>2. ReaderTypes'
    BY <1>2, <1>3, <1>10, <2>1 DEF ReaderInv, ReaderTypes
  <2>3. Blocks'
    BY <1>1, <1>2, <1>3, <1>10, <2>1 DEF ReaderInv, Blocks
  <2>4. Hashed'
    <3>1. hashEnd' + Done' - k' = c + 1
      <4>1. Done' = i + 1 /\ hashEnd' = hashEnd
        BY <1>1, <1>2 DEF Done
      <4> QED
        BY <1>2, <1>3, <2>1, <4>1 DEF c
    <3>2. Wrap(currentHash' * TwoTo[0] + 0) = KeyAt(c + 1)
      BY <1>2, <2>1, HashOutsideBlock
    <3> QED
      BY <1>2, <1>3, <1>10, <2>1, <3>1, <3>2 DEF Hashed
  <2> QED
    BY <1>10, <2>2, <2>3, <2>4 DEF ReaderInv
<1> QED
    BY <1>11, <1>12

\* A byte at a time, and outside of the blocks: the hash rolls and is compared.
LEMMA RolledByte ==
    ASSUME ReaderInv, pc = "scan", i < regionLen, ByteDone, ~ core, UNCHANGED <<block, arch>>,
           k = 0, Kind # "lexicographic",
           currentHash' = KeyAt(hashEnd + i + 1), Consider(currentHash')
    PROVE  ReaderInv'
<1> DEFINE c == hashEnd + i
<1>1. /\ InputOK /\ InputOK' /\ i \in Nat /\ i' = i + 1 /\ i' \in 0 .. regionLen'
      /\ UNCHANGED <<scanner, byte, dataLen, scannedOffset, hashEnd, finalized, pc,
                     regionLen, reachesStabilityPoint>>
      /\ c \in Nat /\ hashEnd' + Done' = c + 1 /\ Origin' = Origin
      /\ Kind' = Kind /\ \A cut : KeyAt(cut)' = KeyAt(cut)
      /\ KeyAt(c + 1) \in 0 .. (Modulus - 1)
    BY NextCut
<1>2. k' = 0 /\ s' = s /\ s = 0
    BY DEF ReaderInv, Blocks, block
<1> HIDE DEF c
<1>3. c + 1 = hashEnd + i + 1
    BY DEF c
<1>4. /\ Recorded' /\ Regions' /\ maximumHash' \in 0 .. (Modulus - 1)
      /\ (maximumHash = KeyAt(Origin + Last(AllFound)))'
      /\ candidateOffsets' \in Seq(Nat) /\ candidateOffsets' # <<>> /\ candidateOffsets'[1] = 0
      /\ UNCHANGED <<core, processed, buffer>>
    BY Considered
<1>5. currentHash' = KeyAt(c + 1) /\ currentHash' \in 0 .. (Modulus - 1)
    BY <1>1, <1>3
<1>6. ReaderTypes'
    BY <1>1, <1>2, <1>4, <1>5 DEF ReaderInv, ReaderTypes
<1>7. Blocks'
    BY <1>1, <1>2, <1>4 DEF ReaderInv, Blocks
<1>8. Hashed'
  <2>1. hashEnd' + Done' - k' = c + 1
    <3>1. Done' = i + 1 /\ hashEnd' = hashEnd /\ hashEnd \in Nat
      BY <1>1, Places DEF Done
    <3> QED
      BY <1>1, <1>2, <3>1 DEF c
  <2>2. Wrap(currentHash' * TwoTo[0] + 0) = KeyAt(c + 1)
    BY <1>5, HashOutsideBlock
  <2> QED
    BY <1>1, <1>2, <1>4, <1>5, <2>1, <2>2 DEF Hashed
<1> QED
    BY <1>4, <1>6, <1>7, <1>8 DEF ReaderInv

LEMMA GearByteReader == ASSUME ReaderInv, GearByte PROVE ReaderInv'
<1> DEFINE c == hashEnd + i
<1>1. /\ pc = "scan" /\ scanner.name = "gear" /\ i < regionLen /\ i - k + Unroll > regionLen
      /\ currentHash' = GearStep(currentHash, Incoming)
      /\ Consider(currentHash') /\ ByteDone /\ UNCHANGED <<block, arch>>
    BY DEF GearByte, Scanning
<1>2. /\ InputOK /\ c \in Window .. (dataLen - 1) /\ c = hashEnd + Done /\ Incoming = byte[c]
    BY <1>1, NextCut
<1>3. /\ Kind = "gear" /\ ~ core /\ k \in Nat /\ Unroll \in Nat /\ regionLen \in Nat /\ i \in Nat
    BY <1>1, <1>2, InputTypes, Places, LanesAssumption DEF ReaderInv, ReaderTypes, Blocks
<1>4. k = 0
  <2> SUFFICES ASSUME k > 0 PROVE FALSE
    BY <1>3
  <2>1. i - k + Unroll <= regionLen
    BY <1>1 DEF ReaderInv, Blocks
  <2> QED
    BY <1>1, <1>3, <2>1
<1>5. currentHash = KeyAt(c)
  <2>1. hashEnd + Done - k = hashEnd + Done
    BY <1>4, Places
  <2> QED
    BY <1>2, <1>3, <2>1 DEF ReaderInv, Hashed
<1>6. currentHash' = KeyAt(c + 1)
  <2> HIDE DEF c
  <2> QED
    BY <1>1, <1>2, <1>3, <1>5, KeyRolls
<1> QED
  <2>1. Kind # "lexicographic"
    BY <1>3
  <2> QED
    BY <1>1, <1>3, <1>4, <1>6, <2>1, RolledByte

\* The polynomial scanners, outside of the amd64 core.
LEMMA PolynomialByte ==
    ASSUME ReaderInv, pc = "scan", i < regionLen, ByteDone, ~ core, UNCHANGED <<block, arch>>,
           scanner.name \in {"scalar", "portable", "archsimd"},
           \/ currentHash' = RollPolynomial(currentHash, Outgoing, Incoming)
           \/ currentHash' = RollVector(currentHash, PortableRemoval(Outgoing), Incoming),
           Consider(currentHash')
    PROVE  ReaderInv'
<1> DEFINE c == hashEnd + i
<1>1. /\ InputOK /\ c \in Window .. (dataLen - 1) /\ c = hashEnd + Done
      /\ Outgoing = byte[c - Window] /\ Incoming = byte[c]
    BY NextCut
<1>2. Kind = "polynomial" /\ Kind # "lexicographic"
    BY <1>1, InputTypes
<1>3. k = 0
  <2>1. k \in Nat /\ ~ (k > 0)
    BY DEF ReaderInv, ReaderTypes, Blocks
  <2> QED
    BY <2>1
<1>4. currentHash = KeyAt(c)
    BY <1>1, <1>2 DEF ReaderInv, Hashed
<1>5. currentHash' = KeyAt(c + 1)
  <2> HIDE DEF c
  <2>1. /\ KeyAt(c + 1) = RollPolynomial(KeyAt(c), byte[c - Window], byte[c])
        /\ KeyAt(c + 1) = RollVector(KeyAt(c), PortableRemoval(byte[c - Window]), byte[c])
    BY <1>1, <1>2, KeyRolls
  <2> QED
    BY <1>1, <1>4, <2>1
<1> QED
    BY <1>2, <1>3, <1>5, RolledByte

LEMMA ScalarByteReader == ASSUME ReaderInv, ScalarByte PROVE ReaderInv'
<1>1. /\ pc = "scan" /\ i < regionLen /\ scanner.name \in {"scalar", "portable", "archsimd"}
      /\ scanner.name = "archsimd" => ~ core
      /\ currentHash' = RollPolynomial(currentHash, Outgoing, Incoming)
      /\ Consider(currentHash') /\ ByteDone /\ UNCHANGED <<block, arch>>
    BY DEF ScalarByte, Scanning, Roll
<1>2. ~ core
    BY <1>1 DEF ReaderInv, Blocks
<1> QED
    BY <1>1, <1>2, PolynomialByte

LEMMA PortableByteReader == ASSUME ReaderInv, PortableByte PROVE ReaderInv'
<1>1. /\ pc = "scan" /\ i < regionLen /\ scanner.name = "portable"
      /\ currentHash' = RollVector(currentHash, PortableRemoval(Outgoing), Incoming)
      /\ Consider(currentHash') /\ ByteDone /\ UNCHANGED <<block, arch>>
    BY DEF PortableByte, Scanning, Roll
<1>2. ~ core
    BY <1>1 DEF ReaderInv, Blocks
<1> QED
    BY <1>1, <1>2, PolynomialByte

LEMMA WindowByteReader == ASSUME ReaderInv, WindowByte PROVE ReaderInv'
<1> DEFINE c == hashEnd + i
           cut == hashEnd + i + 1
           better == byte[cut - Window] >= byte[MaximumCut - Window] /\ Exceeds(cut)
<1>1. /\ pc = "scan" /\ scanner.name = "lexicographic" /\ i < regionLen
      /\ IF better
         THEN /\ maximumHash' = Prefix(byte, cut - Window, cut - 1)
              /\ candidateOffsets' = Append(candidateOffsets, scannedOffset + i + 1)
         ELSE UNCHANGED <<maximumHash, candidateOffsets>>
      /\ ByteDone /\ UNCHANGED <<currentHash, block, arch>>
    BY DEF WindowByte, Scanning
<1>2. /\ InputOK /\ InputOK' /\ i \in Nat /\ i' = i + 1 /\ i' \in 0 .. regionLen'
      /\ UNCHANGED <<scanner, byte, dataLen, scannedOffset, hashEnd, finalized, pc,
                     regionLen, reachesStabilityPoint>>
      /\ c + 1 \in Window .. dataLen /\ Kind' = Kind /\ \A e : KeyAt(e)' = KeyAt(e)
    BY <1>1, NextCut
<1>3. /\ Kind = "lexicographic" /\ ~ core /\ k \in Nat /\ buffer = <<>>
      /\ candidateOffsets \in Seq(Nat) /\ hashEnd \in Nat
    BY <1>1, <1>2, InputTypes, Places DEF ReaderInv, ReaderTypes, Blocks
<1>4. k = 0 /\ s = 0 /\ k' = 0 /\ s' = 0 /\ currentHash' = currentHash
  <2>1. ~ (k > 0)
    BY <1>1 DEF ReaderInv, Blocks
  <2> QED
    BY <1>1, <1>3, <2>1 DEF ReaderInv, Blocks, block
<1>5. AllFound = candidateOffsets
    BY <1>3, NothingBuffered
<1>6. /\ cut \in Window .. dataLen /\ MaximumCut \in Window .. dataLen
      /\ maximumHash = KeyAt(MaximumCut) /\ MaximumCut = Origin + Last(candidateOffsets)
    BY <1>2, <1>5, Places DEF ReaderInv, Hashed, MaximumCut
<1> HIDE DEF c, cut
<1>7. /\ Prefix(byte, cut - Window, cut - 1) = KeyAt(cut)
      /\ better <=> ScoreAt(cut) > ScoreAt(Origin + Last(candidateOffsets))
      /\ better \in BOOLEAN
    BY <1>2, <1>3, <1>6, ExceedsIsGreater
<1> HIDE DEF better
<1>8. /\ candidateOffsets' = IF better THEN Append(candidateOffsets, scannedOffset + i + 1)
                             ELSE candidateOffsets
      /\ maximumHash' = IF better THEN KeyAt(cut) ELSE maximumHash
  <2>1. CASE better
    BY <1>1, <1>7, <2>1
  <2>2. CASE ~ better
    BY <1>1, <2>2
  <2> QED
    BY <2>1, <2>2
<1>9. /\ Recorded' /\ Regions' /\ maximumHash' \in 0 .. (Modulus - 1)
      /\ (maximumHash = KeyAt(Origin + Last(AllFound)))'
      /\ candidateOffsets' \in Seq(Nat) /\ candidateOffsets' # <<>> /\ candidateOffsets'[1] = 0
      /\ UNCHANGED <<core, processed, buffer>>
  <2>1. UNCHANGED arch
    BY <1>1
  <2> QED
    BY <1>1, <1>3, <1>7, <1>8, <2>1, FoundAtOnce DEF cut
<1>10. ReaderTypes'
    BY <1>2, <1>4, <1>9 DEF ReaderInv, ReaderTypes
<1>11. Blocks'
    BY <1>2, <1>3, <1>4, <1>9 DEF ReaderInv, Blocks
<1>12. Hashed'
    BY <1>2, <1>3, <1>4, <1>9 DEF ReaderInv, Hashed
<1> QED
    BY <1>9, <1>10, <1>11, <1>12 DEF ReaderInv

\* A candidate that the amd64 core keeps in its buffer is one found.
LEMMA FoundInCore ==
    ASSUME NEW list \in Seq(Nat), NEW buf \in Seq(Nat), NEW from \in Nat, NEW o \in Nat
    PROVE  list \o [j \in DOMAIN Append(buf, o) |-> from + Append(buf, o)[j]]
              = Append(list \o [j \in DOMAIN buf |-> from + buf[j]], from + o)
<1> DEFINE m == Len(list)
           n == Len(buf)
           longer == Append(buf, o)
           more == [j \in DOMAIN buf |-> from + buf[j]]
           most == [j \in DOMAIN longer |-> from + longer[j]]
<1>1. /\ m \in Nat /\ n \in Nat /\ DOMAIN buf = 1 .. n /\ DOMAIN longer = 1 .. (n + 1)
      /\ longer \in Seq(Nat) /\ longer[n + 1] = o /\ \A j \in 1 .. n : longer[j] = buf[j]
    OBVIOUS
<1>2. \A j \in 1 .. n : buf[j] \in Nat
    BY <1>1
<1> HIDE DEF longer
<1>3. /\ more = [j \in 1 .. n |-> from + buf[j]]
      /\ most = [j \in 1 .. (n + 1) |-> from + longer[j]]
    BY <1>1
<1>4. more \in [1 .. n -> Nat] /\ most \in [1 .. (n + 1) -> Nat]
  <2>1. \A j \in 1 .. n : from + buf[j] \in Nat
    BY <1>2
  <2>2. \A j \in 1 .. (n + 1) : from + longer[j] \in Nat
    <3>1. \A j \in 1 .. (n + 1) : j \in 1 .. n \/ j = n + 1
      BY <1>1
    <3> QED
      BY <1>1, <1>2, <3>1
  <2> HIDE DEF n, more, most
  <2> QED
    BY ONLY <1>3, <2>1, <2>2
<1>5. more \in Seq(Nat) /\ most \in Seq(Nat)
  <2> DEFINE n1 == n + 1
  <2>1. n1 \in Nat /\ most \in [1 .. n1 -> Nat]
    BY <1>1, <1>4
  <2> HIDE DEF n1, most, more, n
  <2> QED
    BY <1>1, <1>4, <2>1, SeqOfFunction
<1>6. /\ DOMAIN more = 1 .. n /\ DOMAIN most = 1 .. (n + 1)
      /\ most[n + 1] = from + o /\ \A j \in 1 .. n : most[j] = more[j]
  <2>1. n + 1 \in 1 .. (n + 1) /\ \A j \in 1 .. n : j \in 1 .. (n + 1)
    BY <1>1
  <2>2. longer[n + 1] = o /\ \A j \in 1 .. n : longer[j] = buf[j]
    BY <1>1
  <2> HIDE DEF more, most, n
  <2>3. DOMAIN more = 1 .. n /\ DOMAIN most = 1 .. (n + 1)
    BY ONLY <1>3
  <2>4. most[n + 1] = from + o
    BY ONLY <1>3, <2>1, <2>2
  <2>5. \A j \in 1 .. n : most[j] = more[j]
    BY ONLY <1>3, <2>1, <2>2
  <2> QED
    BY <2>3, <2>4, <2>5
<1> HIDE DEF more, most
<1>7. Len(more) = n /\ Len(most) = n + 1
  <2>1. /\ Len(more) \in Nat /\ DOMAIN more = 1 .. Len(more)
        /\ Len(most) \in Nat /\ DOMAIN most = 1 .. Len(most)
    BY <1>5
  <2> HIDE DEF n
  <2> QED
    BY <1>1, <1>6, <2>1
<1> DEFINE one == list \o most
           both == list \o more
           two == Append(both, from + o)
<1>8. /\ one \in Seq(Nat) /\ Len(one) = m + (n + 1)
      /\ \A j \in 1 .. m + (n + 1) : one[j] = IF j <= m THEN list[j] ELSE most[j - m]
  <2> HIDE DEF both
  <2>1. /\ one \in Seq(Nat) /\ Len(one) = Len(list) + Len(most)
        /\ \A j \in 1 .. Len(list) + Len(most) :
              one[j] = IF j <= Len(list) THEN list[j] ELSE most[j - Len(list)]
    BY ONLY <1>5, list \in Seq(Nat), ConcatProperties
  <2> HIDE DEF one, n
  <2> QED
    BY <1>7, <2>1
<1>9. /\ both \in Seq(Nat) /\ Len(both) = m + n
      /\ \A j \in 1 .. m + n : both[j] = IF j <= m THEN list[j] ELSE more[j - m]
  <2> HIDE DEF one
  <2>1. /\ both \in Seq(Nat) /\ Len(both) = Len(list) + Len(more)
        /\ \A j \in 1 .. Len(list) + Len(more) :
              both[j] = IF j <= Len(list) THEN list[j] ELSE more[j - Len(list)]
    BY ONLY <1>5, list \in Seq(Nat), ConcatProperties
  <2> HIDE DEF both, n
  <2> QED
    BY <1>7, <2>1
<1> HIDE DEF one, both, m, n
<1>10. /\ two \in Seq(Nat) /\ Len(two) = m + n + 1 /\ two[m + n + 1] = from + o
       /\ \A j \in 1 .. m + n : two[j] = both[j]
  <2>1. from + o \in Nat
    OBVIOUS
  <2> QED
    BY <1>1, <1>9, <2>1
<1> HIDE DEF two
<1>11. \A j \in 1 .. Len(one) : one[j] = two[j]
  <2> SUFFICES ASSUME NEW j \in 1 .. Len(one) PROVE one[j] = two[j]
    OBVIOUS
  <2>0. j \in Nat /\ j >= 1 /\ j <= m + n + 1
    BY <1>1, <1>8
  <2>1. CASE j = m + n + 1
    <3>1. ~ (j <= m) /\ j - m = n + 1 /\ j \in 1 .. m + (n + 1)
      BY <1>1, <2>1
    <3> QED
      BY <1>6, <1>8, <1>10, <2>1, <3>1
  <2>2. CASE j # m + n + 1 /\ j <= m
    <3>1. j \in 1 .. m + (n + 1) /\ j \in 1 .. m + n
      BY <1>1, <2>0, <2>2
    <3> QED
      BY <1>8, <1>9, <1>10, <2>2, <3>1
  <2>3. CASE j # m + n + 1 /\ ~ (j <= m)
    <3>1. j \in 1 .. m + (n + 1) /\ j \in 1 .. m + n /\ j - m \in 1 .. n
      BY <1>1, <2>0, <2>3
    <3> QED
      BY <1>6, <1>8, <1>9, <1>10, <2>3, <3>1
  <2> QED
    BY <2>1, <2>2, <2>3
<1>12. Len(one) = Len(two)
    BY <1>1, <1>8, <1>10
<1>13. one = two
    BY <1>8, <1>10, <1>11, <1>12, SeqEqual
<1> QED
    BY <1>13 DEF one, two, both, longer, more, most

\* A block of the core: it is in the region, and its candidates fit in the buffer.
LEMMA CoreBlocks ==
    ASSUME ReaderInv, CoreByte
    PROVE  /\ i < regionLen /\ Blocks' /\ k' \in Nat
<1>1. /\ pc = "scan" /\ core /\ CoreContinues /\ k' = (k + 1) % ArchLanes
      /\ i' = i + 1
      /\ UNCHANGED <<scanner, regionLen, pc, s, core, processed>>
      /\ buffer' = Append(buffer, i - processed + 1) \/ buffer' = buffer
    BY DEF CoreByte, ByteDone, input, region
<1>2. /\ scanner.name = "archsimd" /\ k \in Nat /\ i \in Nat /\ regionLen \in Nat
      /\ processed \in Nat /\ processed <= i /\ buffer \in Seq(Nat) /\ s = 0
      /\ Len(buffer) <= BufferSize - (IF k > 0 THEN ArchLanes - k ELSE 0)
      /\ k > 0 => k < ArchLanes /\ i - k + ArchLanes <= regionLen
    BY <1>1, Places DEF ReaderInv, ReaderTypes, Blocks
<1>3. /\ ArchLanes \in Nat /\ ArchLanes > 0 /\ LoadSize \in Nat /\ BufferSize \in Nat
      /\ LoadSize >= ArchLanes /\ BufferSize >= ArchLanes
    BY LanesAssumption
<1>4. /\ k < ArchLanes /\ i - k + ArchLanes <= regionLen /\ i < regionLen
      /\ Len(buffer) <= BufferSize - (ArchLanes - k) /\ Len(buffer) \in Nat
  <2>1. Len(buffer) \in Nat
    BY <1>2
  <2>2. CASE k > 0
    BY <1>2, <1>3, <2>1, <2>2
  <2>3. CASE ~ (k > 0)
    <3>1. k = 0 /\ regionLen - i >= LoadSize /\ Len(buffer) <= BufferSize - ArchLanes
      BY <1>1, <1>2, <2>3 DEF CoreContinues, HasRoom
    <3> QED
      BY <1>2, <1>3, <2>1, <3>1
  <2> QED
    BY <2>2, <2>3
<1>5. Len(buffer') \in Nat /\ Len(buffer') <= Len(buffer) + 1
  <2>1. i - processed + 1 \in Nat
    BY <1>2
  <2>2. Len(Append(buffer, i - processed + 1)) = Len(buffer) + 1
    BY <1>2, <2>1
  <2> QED
    BY <1>1, <1>4, <2>2
<1>6. CASE k + 1 < ArchLanes
  <2>1. k' = k + 1
    <3>1. (ArchLanes * 0 + (k + 1)) % ArchLanes = k + 1
      BY <1>2, <1>3, <1>6, Remainder
    <3>2. ArchLanes * 0 + (k + 1) = k + 1
      BY <1>2, <1>3
    <3> QED
      BY <1>1, <3>1, <3>2
  <2>2. /\ k' \in Nat /\ k' > 0 /\ k' < ArchLanes /\ i' - k' + ArchLanes <= regionLen'
        /\ processed' <= i' /\ Len(buffer') <= BufferSize - (ArchLanes - k')
    BY <1>1, <1>2, <1>3, <1>4, <1>5, <1>6, <2>1
  <2> QED
    BY <1>1, <1>2, <1>4, <2>2 DEF Blocks
<1>7. CASE ~ (k + 1 < ArchLanes)
  <2>1. k' = 0
    <3>1. (ArchLanes * 1 + 0) % ArchLanes = 0 /\ k + 1 = ArchLanes * 1 + 0
      <4>1. 0 \in 0 .. (ArchLanes - 1) /\ 1 \in Int
        BY <1>3
      <4>2. (ArchLanes * 1 + 0) % ArchLanes = 0
        BY <1>3, <4>1, Remainder
      <4>3. k + 1 = ArchLanes * 1 + 0
        BY <1>2, <1>3, <1>4, <1>7
      <4> QED
        BY <4>2, <4>3
    <3> QED
      BY <1>1, <3>1
  <2>2. processed' <= i' /\ Len(buffer') <= BufferSize - 0
    BY <1>1, <1>2, <1>3, <1>4, <1>5
  <2> QED
    BY <1>1, <1>2, <1>4, <2>1, <2>2 DEF Blocks
<1> QED
    BY <1>6, <1>7

LEMMA CoreByteReader == ASSUME ReaderInv, CoreByte PROVE ReaderInv'
<1> DEFINE c == hashEnd + i
           better == maximumHash < currentHash'
<1>1. /\ pc = "scan" /\ core /\ ByteDone
      /\ currentHash' = RollVector(currentHash, ArchRemoval(Outgoing), Incoming)
      /\ buffer' = IF better THEN Append(buffer, i - processed + 1) ELSE buffer
      /\ maximumHash' = IF better THEN currentHash' ELSE maximumHash
      /\ UNCHANGED <<candidateOffsets, s, core, processed>>
    BY DEF CoreByte
<1>2. i < regionLen /\ Blocks' /\ k' \in Nat
    BY CoreBlocks
<1>3. /\ InputOK /\ InputOK' /\ i \in Nat /\ i' = i + 1 /\ i' \in 0 .. regionLen'
      /\ UNCHANGED <<scanner, byte, dataLen, scannedOffset, hashEnd, finalized, pc,
                     regionLen, reachesStabilityPoint>>
      /\ c \in Nat /\ c \in Window .. (dataLen - 1) /\ c + 1 \in Window .. dataLen
      /\ c = hashEnd + Done /\ hashEnd' + Done' = c + 1 /\ Origin' = Origin
      /\ Outgoing = byte[c - Window] /\ Incoming = byte[c]
      /\ Kind' = Kind /\ \A cut : KeyAt(cut)' = KeyAt(cut)
      /\ KeyAt(c + 1) \in 0 .. (Modulus - 1)
    BY <1>1, <1>2, NextCut
<1>4. scanner.name = "archsimd" /\ processed <= i
    BY <1>1 DEF ReaderInv, Blocks
<1>5. Kind = "polynomial" /\ Kind # "lexicographic" /\ Kind # "gear"
    BY <1>3, <1>4, InputTypes
<1>6. /\ candidateOffsets \in Seq(Nat) /\ buffer \in Seq(Nat) /\ processed \in Nat
      /\ scannedOffset \in Nat /\ currentHash = KeyAt(c)
      /\ maximumHash = KeyAt(Origin + Last(AllFound)) /\ Origin + Last(AllFound) \in Window .. dataLen
    BY <1>3, <1>5, Places DEF ReaderInv, ReaderTypes, Hashed
<1>7. c + 1 = hashEnd + i + 1
    BY <1>3, Places
<1> HIDE DEF c
<1>8. currentHash' = KeyAt(c + 1)
    BY <1>1, <1>3, <1>5, <1>6, KeyRolls
<1>9. /\ better <=> ScoreAt(hashEnd + i + 1) > ScoreAt(Origin + Last(AllFound))
      /\ better \in BOOLEAN
  <2> DEFINE d == c + 1
             best == Origin + Last(AllFound)
  <2>1. d \in Window .. dataLen /\ best \in Window .. dataLen
    BY <1>3, <1>6
  <2>2. d = hashEnd + i + 1 /\ (better <=> KeyAt(best) < KeyAt(d))
    BY <1>6, <1>7, <1>8
  <2> HIDE DEF d, best, better
  <2>3. KeyAt(d) = ScoreAt(d) /\ KeyAt(best) = ScoreAt(best) /\ ScoreAt(d) \in Nat /\ ScoreAt(best) \in Nat
    BY <1>3, <1>5, <2>1, KeyTypes
  <2>4. better <=> ScoreAt(d) > ScoreAt(best)
    BY <2>2, <2>3
  <2>5. better \in BOOLEAN
    BY DEF better
  <2> QED
    BY <2>2, <2>4, <2>5 DEF best
<1>10. AllFound' = IF better THEN Append(AllFound, scannedOffset + i + 1) ELSE AllFound
  <2> DEFINE o == i - processed + 1
             from == scannedOffset + processed
  <2>1. o \in Nat /\ from \in Nat /\ from + o = scannedOffset + i + 1
    BY <1>3, <1>4, <1>6
  <2>2. AllFound' = candidateOffsets \o [j \in DOMAIN buffer' |-> from + buffer'[j]]
    BY <1>1, <1>3 DEF AllFound
  <2>3. AllFound = candidateOffsets \o [j \in DOMAIN buffer |-> from + buffer[j]]
    BY DEF AllFound
  <2>4. buffer' = IF better THEN Append(buffer, o) ELSE buffer
    BY <1>1
  <2> HIDE DEF o, from, better
  <2>5. candidateOffsets \o [j \in DOMAIN Append(buffer, o) |-> from + Append(buffer, o)[j]]
           = Append(AllFound, from + o)
    BY <1>6, <2>1, <2>3, FoundInCore
  <2>6. CASE better
    BY <2>1, <2>2, <2>4, <2>5, <2>6
  <2>7. CASE ~ better
    BY <2>2, <2>3, <2>4, <2>7
  <2> QED
    BY <2>6, <2>7
<1>11. maximumHash' = IF better THEN KeyAt(hashEnd + i + 1) ELSE maximumHash
    BY <1>1, <1>7, <1>8
<1>12. /\ Recorded' /\ maximumHash' \in 0 .. (Modulus - 1)
       /\ (maximumHash = KeyAt(Origin + Last(AllFound)))'
  <2> HIDE DEF better
  <2> QED
    BY <1>1, <1>2, <1>9, <1>10, <1>11, FoundNext
<1>13. ReaderTypes'
  <2>1. buffer' \in Seq(Nat)
    <3>1. i - processed + 1 \in Nat
      BY <1>3, <1>4, <1>6
    <3> QED
      BY <1>1, <1>6, <3>1
  <2>2. currentHash' \in 0 .. (Modulus - 1)
    BY <1>3, <1>8
  <2> HIDE DEF better
  <2> QED
    BY <1>1, <1>2, <1>3, <1>12, <2>1, <2>2 DEF ReaderInv, ReaderTypes
<1>14. Regions'
    BY <1>1, <1>3 DEF ReaderInv, Regions
<1>15. Hashed'
    BY <1>3, <1>5, <1>8, <1>12 DEF Hashed
<1> QED
    BY <1>2, <1>12, <1>13, <1>14, <1>15 DEF ReaderInv

-----------------------------------------------------------------------------
\* All steps of the scanners

LEMMA NextReader == ASSUME ReaderInv, [Next]_vars PROVE ReaderInv'
<1>1. CASE StartRegion
    BY <1>1, StartRegionReader
<1>2. CASE GearBlockByte
    BY <1>2, GearBlockByteReader
<1>3. CASE GearByte
    BY <1>3, GearByteReader
<1>4. CASE ScalarByte
    BY <1>4, ScalarByteReader
<1>5. CASE PortableByte
    BY <1>5, PortableByteReader
<1>6. CASE EnterCore
    BY <1>6, EnterCoreReader
<1>7. CASE CoreByte
    BY <1>7, CoreByteReader
<1>8. CASE LeaveCore
    BY <1>8, LeaveCoreReader
<1>9. CASE WindowByte
    BY <1>9, WindowByteReader
<1>10. CASE Restart
    BY <1>10, RestartReader
<1>11. CASE GoOn
    BY <1>11, GoOnReader
<1>12. CASE EndOfData
    BY <1>12, EndOfDataReader
<1>13. CASE NextCall
    BY <1>13, NextCallReader
<1>14. CASE UNCHANGED vars
  <2>1. /\ UNCHANGED <<scanner, byte, frontier, hashEnd, block, arch, dataLen, finalized, pc>>
        /\ UNCHANGED <<candidateOffsets, scannedOffset, currentHash, maximumHash, k, s, core,
                       processed, buffer, regionLen, reachesStabilityPoint, i>>
    BY <1>14 DEF vars, input, frontier, region, block, arch
  <2>2. Done' = Done /\ InputOK'
    BY <2>1 DEF Done, ReaderInv, ReaderTypes, InputOK
  <2>3. Hashed' /\ Recorded'
    BY <2>1, <2>2, FrontierStays
  <2>4. ReaderTypes'
    BY <2>1, <2>2 DEF ReaderInv, ReaderTypes
  <2>5. Regions' /\ Blocks'
    BY <2>1 DEF ReaderInv, Regions, Blocks
  <2> QED
    BY <2>3, <2>4, <2>5 DEF ReaderInv
<1> QED
    BY <1>1, <1>2, <1>3, <1>4, <1>5, <1>6, <1>7, <1>8, <1>9, <1>10, <1>11, <1>12, <1>13, <1>14
    DEF Next, ScanStep

\* What the invariant says of the properties.
LEMMA ReaderIsTyped == ReaderInv => TypeOK
<1> SUFFICES ASSUME ReaderInv PROVE TypeOK
    OBVIOUS
<1>1. /\ InputOK /\ candidateOffsets # <<>> /\ candidateOffsets[1] = 0
      /\ currentHash \in 0 .. (Modulus - 1) /\ maximumHash \in 0 .. (Modulus - 1)
      /\ hashEnd \in MinSize .. dataLen /\ scannedOffset \in 0 .. (hashEnd - MinSize)
      /\ finalized \in BOOLEAN /\ pc \in {"horizon", "scan", "done"}
      /\ regionLen \in Nat /\ i \in 0 .. regionLen
      /\ (pc = "scan" => hashEnd + regionLen <= dataLen)
      /\ k \in Nat /\ s \in 0 .. (Modulus - 1)
      /\ core \in BOOLEAN /\ processed \in Nat /\ buffer \in Seq(Nat)
    BY DEF ReaderInv, ReaderTypes, Regions
<1>2. /\ Unroll \in Nat /\ ArchLanes \in Nat /\ BufferSize \in Nat
    BY LanesAssumption
<1>3. currentHash = Wrap(currentHash) /\ maximumHash = Wrap(maximumHash) /\ s = Wrap(s)
    BY <1>1, WrapOfSmall
<1>4. k \in 0 .. (Unroll + ArchLanes)
  <2>1. k > 0 => k < Unroll \/ k < ArchLanes
    BY DEF ReaderInv, Blocks
  <2> QED
    BY <1>1, <1>2, <2>1
<1>5. Len(buffer) <= BufferSize
  <2>1. CASE core
    <3>1. /\ Len(buffer) <= BufferSize - (IF k > 0 THEN ArchLanes - k ELSE 0)
          /\ k > 0 => k < ArchLanes
      BY <2>1 DEF ReaderInv, Blocks
    <3>2. Len(buffer) \in Nat
      BY <1>1
    <3> QED
      BY <1>1, <1>2, <3>1, <3>2
  <2>2. CASE ~ core
    <3>1. buffer = <<>>
      BY <2>2 DEF ReaderInv, Blocks
    <3> QED
      BY <1>2, <3>1
  <2> QED
    BY <2>1, <2>2
<1> QED
    BY <1>1, <1>3, <1>4, <1>5 DEF TypeOK, InputOK

\* Between regions nothing is buffered, so that what was found is in the frontier.
LEMMA BetweenRegions ==
    ASSUME ReaderInv, pc # "scan"
    PROVE  /\ AllFound = candidateOffsets /\ Done = 0 /\ Reached = scannedOffset /\ k = 0
           /\ InputOK /\ Origin \in Nat /\ Origin >= Window /\ scannedOffset \in Nat
           /\ Origin + scannedOffset <= dataLen /\ hashEnd \in Nat
<1>1. /\ InputOK /\ candidateOffsets \in Seq(Nat) /\ buffer = <<>> /\ k \in Nat /\ ~ (k > 0)
    BY DEF ReaderInv, ReaderTypes, Blocks
<1>2. AllFound = candidateOffsets
    BY <1>1, NothingBuffered
<1>3. /\ Done = 0 /\ Origin \in Nat /\ scannedOffset \in Nat /\ Window \in Nat /\ MinSize \in Nat
      /\ Origin >= MinSize /\ MinSize >= Window /\ hashEnd \in Nat /\ dataLen \in Nat
      /\ Origin + Reached = hashEnd + Done /\ hashEnd + Done <= dataLen
    BY Places
<1>4. Reached = scannedOffset
    BY <1>3 DEF Reached
<1>5. k = 0
    BY <1>1
<1> QED
    BY <1>1, <1>2, <1>3, <1>4, <1>5

LEMMA ReaderHashesAreExact == ReaderInv => HashesAreExact
<1> SUFFICES ASSUME ReaderInv, pc # "scan"
             PROVE  currentHash = KeyAt(hashEnd) /\ maximumHash = KeyAt(MaximumCut)
    BY DEF HashesAreExact, KeyAt
<1>1. /\ InputOK /\ AllFound = candidateOffsets /\ hashEnd + Done = hashEnd
      /\ hashEnd + Done - k = hashEnd
    BY BetweenRegions
<1>2. maximumHash = KeyAt(MaximumCut)
    BY <1>1 DEF ReaderInv, Hashed, MaximumCut
<1>3. Kind \in {"gear", "polynomial", "lexicographic"}
    BY <1>1, InputTypes
<1>4. currentHash = KeyAt(hashEnd)
    BY <1>1, <1>3 DEF ReaderInv, Hashed
<1> QED
    BY <1>2, <1>4

LEMMA ReaderHasRecords == ReaderInv => CandidatesAreRecords
<1> DEFINE score(o) == ScoreOf(Kind, byte, Origin + o - Window, Origin + o - 1)
           records == {o \in 0 .. scannedOffset :
                          \A earlier \in 0 .. (o - 1) : score(earlier) < score(o)}
<1> SUFFICES ASSUME ReaderInv, pc # "scan" PROVE ToSet(candidateOffsets) = records
    BY DEF CandidatesAreRecords
<1>1. /\ InputOK /\ AllFound = candidateOffsets /\ Reached = scannedOffset
      /\ Origin \in Nat /\ Origin >= Window /\ scannedOffset \in Nat
      /\ Origin + scannedOffset <= dataLen
    BY BetweenRegions
<1>2. ToSet(candidateOffsets) = Records(Scores, scannedOffset)
    BY <1>1 DEF ReaderInv, Recorded, Finds
<1>3. \A o \in 0 .. scannedOffset : Scores[o] = score(o)
  <2>1. \A o \in 0 .. scannedOffset : Scores[o] = ScoreAt(Origin + o)
    BY <1>1, ScoresAreNumbers
  <2>2. Window \in Nat
    BY <1>1, InputTypes
  <2>3. \A o \in 0 .. scannedOffset : ScoreAt(Origin + o) = score(o)
    <3> SUFFICES ASSUME NEW o \in 0 .. scannedOffset PROVE ScoreAt(Origin + o) = score(o)
      OBVIOUS
    <3>1. (Origin + o) - Window = Origin + o - Window /\ (Origin + o) - 1 = Origin + o - 1
      BY <1>1, <2>2
    <3> QED
      BY <3>1 DEF ScoreAt
  <2> QED
    BY <2>1, <2>3
<1> HIDE DEF score
<1>4. \A o \in 0 .. scannedOffset : \A earlier \in 0 .. (o - 1) : earlier \in 0 .. scannedOffset
    BY <1>1
<1>5. Records(Scores, scannedOffset) = records
    BY <1>3, <1>4 DEF Records
<1> QED
    BY <1>2, <1>5

-----------------------------------------------------------------------------
\* Both users together

\* Whichever of them a behavior is about.
HashesInv ==
    /\ user \in {"reader", "search"}
    /\ user = "search" => SearchInv
    /\ user = "reader" => ReaderInv

\* A step of either user is one of its own, or changes nothing for it.
LEMMA StepOfUser ==
    ASSUME [HashesNext]_hashes
    PROVE  /\ user' = user
           /\ user = "search" => [Streaming!Next]_(Streaming!vars)
           /\ user = "reader" => [Next]_vars
<1>1. CASE user = "reader" /\ Next /\ UNCHANGED <<user, streamingVars>>
    BY <1>1
<1>2. CASE user = "search" /\ Streaming!Next /\ UNCHANGED <<user, scannerVars>>
    BY <1>2
<1>3. CASE UNCHANGED hashes
  <2>1. UNCHANGED Streaming!vars /\ UNCHANGED user /\ UNCHANGED vars
    BY <1>3 DEF hashes, vars, input, frontier, streamingVars, Streaming!vars, Streaming!fields,
       Streaming!copies, Streaming!scan
  <2> QED
    BY <2>1
<1> QED
    BY <1>1, <1>2, <1>3 DEF HashesNext

\* The strengthened invariant holds in every reachable state.
THEOREM Invariance == HashesSpec => []HashesInv
<1>1. HashesInit => HashesInv
  <2>1. Streaming!Init => SearchInv
    BY InitSearch
  <2>2. Init => ReaderInv
    BY InitReader
  <2> QED
    BY <2>1, <2>2 DEF HashesInit, HashesInv
<1>2. HashesInv /\ [HashesNext]_hashes => HashesInv'
    BY StepOfUser, NextSearch, NextReader DEF HashesInv
<1> QED
    BY <1>1, <1>2, PTL DEF HashesSpec

\* The variables of either user have their types, hashes are integers of the
\* width, and candidateBuffer never holds more than its size.
THEOREM HashesTypeCorrect == HashesSpec => []HashesTypeOK
<1>1. HashesInv => HashesTypeOK
    BY ReaderIsTyped DEF HashesInv, SearchInv, HashesTypeOK
<1> QED
    BY <1>1, Invariance, PTL

\* Whatever scanner it was, and wherever its regions and calls ended, the hashes
\* of the frontier are those of the windows at its end and at its best cut.
THEOREM FrontierHashesAreExactCorrect == HashesSpec => []FrontierHashesAreExact
<1>1. HashesInv => FrontierHashesAreExact
    BY ReaderHashesAreExact DEF HashesInv, FrontierHashesAreExact
<1> QED
    BY <1>1, Invariance, PTL

\* Every scanner finds the same candidates: the cuts whose window has a score
\* above that of every earlier cut, and of equal ones the leftmost.
THEOREM ScannersAgreeCorrect == HashesSpec => []ScannersAgree
<1>1. HashesInv => ScannersAgree
    BY ReaderHasRecords DEF HashesInv, ScannersAgree
<1> QED
    BY <1>1, Invariance, PTL

\* However the bytes came in, and in the middle of a scan too, the ring holds the
\* last ones: the byte that a full ring is about to overwrite is the one that
\* leaves the window.
THEOREM RingHoldsWindowCorrect == HashesSpec => []RingHoldsWindow
<1>1. HashesInv => RingHoldsWindow
    BY DEF HashesInv, SearchInv, RingInv, RingHoldsWindow
<1> QED
    BY <1>1, Invariance, PTL

\* Whether bytes were added one at a time or scanned, and wherever the scans
\* stopped, the hash is the sum that the window's bytes are meant to have.
THEOREM HashIsOfLastBytesCorrect == HashesSpec => []HashIsOfLastBytes
<1>1. HashesInv => HashIsOfLastBytes
    BY HashAfterIs DEF HashesInv, SearchInv, HashIsCurrent, HashIsOfLastBytes,
       Streaming!HashIsOfLastBytes
<1> QED
    BY <1>1, Invariance, PTL

\* The largest member of a set.
LEMMA MaxIs ==
    ASSUME NEW S \in SUBSET Int, NEW m \in S, \A y \in S : y <= m
    PROVE  Streaming!Max(S) = m
<1>1. \E x \in S : \A y \in S : x >= y
    OBVIOUS
<1>2. Streaming!Max(S) \in S /\ \A y \in S : Streaming!Max(S) >= y
    BY <1>1 DEF Streaming!Max
<1>3. Streaming!Max(S) >= m /\ Streaming!Max(S) <= m /\ Streaming!Max(S) \in Int
    BY <1>2
<1> QED
    BY <1>3

\* A scan ends after the first byte whose hash exceeds its limit and the maximum it
\* was given, or with its data, and returns the largest of the hashes up to there.
THEOREM ScanIsExactCorrect == HashesSpec => []ScanIsExact
<1>1. ASSUME SearchInv PROVE Streaming!ScanIsExact
  <2> DEFINE h == HashesOf(kind, fed)
             c == called.fed
             m0 == called.maximum
             values(from, to) == {Streaming!HashAfter(n) : n \in from .. to}
             stops(v) == v > limit /\ v > m0
             all == values(c + 1, c + scanned) \cup {m0}
  <2>1. /\ c \in Nat /\ scanned \in Nat /\ c + scanned <= Len(fed) /\ Len(fed) \in Nat
        /\ fed \in Seq(Streaming!Bytes)
        /\ m0 \in Int /\ maximumHash \in Int
        /\ ScanIs(h, c, scanned, limit, m0, maximumHash, exceeded)
    BY <1>1, HashesAre DEF SearchInv, ScanInv, Streaming!TypeOK
  <2>2. \A n \in 0 .. Len(fed) : Streaming!HashAfter(n) = h[n] /\ h[n] \in Int
    BY <2>1, HashAfterIs, HashesInRange DEF HashesOf
  <2> HIDE DEF h, c, m0
  <2>3. \A n \in (c + 1) .. (c + scanned) : n \in 0 .. Len(fed)
    BY <2>1
  <2>4. Streaming!Max(all) = maximumHash
    <3>1. all \in SUBSET Int
      BY <2>1, <2>2, <2>3
    <3>2. maximumHash \in all
      BY <2>1, <2>2, <2>3 DEF ScanIs
    <3>3. \A y \in all : y <= maximumHash
      BY <2>1, <2>2, <2>3 DEF ScanIs
    <3> HIDE DEF all
    <3> QED
      BY <3>1, <3>2, <3>3, MaxIs
  <2>5. \A v \in values(c + 1, c + scanned - 1) : ~ stops(v)
    <3>1. \A n \in (c + 1) .. (c + scanned - 1) : n \in 0 .. Len(fed)
      BY <2>1
    <3> QED
      BY <2>1, <2>2, <3>1 DEF ScanIs
  <2>6. scanned > 0 => (exceeded <=> stops(Streaming!HashAfter(c + scanned)))
    <3>1. c + scanned \in 0 .. Len(fed)
      BY <2>1
    <3> QED
      BY <2>1, <2>2, <3>1 DEF ScanIs
  <2>7. pc = "idle" /\ ~ exceeded => scanned = dataLen
    BY <1>1 DEF SearchInv, ScanInv
  <2> QED
    BY <2>4, <2>5, <2>6, <2>7 DEF Streaming!ScanIsExact, c, m0
<1>2. HashesInv => ScanIsExact
    BY <1>1 DEF HashesInv, ScanIsExact
<1> QED
    BY <1>2, Invariance, PTL

-----------------------------------------------------------------------------
\* A call of a scanner comes to its end

\* What is known within a region beside ReaderInv: before its first byte nothing
\* was found in it, a region that ends with the data is not empty, and the core is
\* only entered when there is a block it can do.
Ahead ==
    /\ pc = "scan" /\ i = 0 /\ ~ core => Len(candidateOffsets) = before
    /\ pc = "scan" /\ ~ reachesStabilityPoint => regionLen > 0
    /\ core /\ i = processed => k = 0 /\ buffer = <<>> /\ i + LoadSize <= regionLen

\* The core goes on only within the region, and does at least one block.
LEMMA CoreBegins ==
    ASSUME ReaderInv, Ahead, core
    PROVE  /\ pc = "scan" /\ processed \in Nat /\ processed <= i
           /\ CoreContinues => i < regionLen
           /\ ~ CoreContinues => i # processed
<1>1. /\ i \in Nat /\ regionLen \in Nat /\ k \in Nat /\ processed \in Nat /\ buffer \in Seq(Nat)
      /\ ArchLanes \in Nat \ {0} /\ LoadSize \in Nat /\ LoadSize >= ArchLanes
      /\ BufferSize \in Nat /\ BufferSize >= ArchLanes
    BY Places, LanesAssumption DEF ReaderInv, ReaderTypes
<1>2. pc = "scan" /\ scanner.name = "archsimd" /\ processed <= i
    BY DEF ReaderInv, Blocks
<1>3. ASSUME CoreContinues PROVE i < regionLen
  <2>1. CASE k > 0
    BY <1>1, <1>2, <2>1 DEF ReaderInv, Blocks
  <2>2. CASE regionLen - i >= LoadSize
    BY <1>1, <2>2
  <2> QED
    BY <1>3, <2>1, <2>2 DEF CoreContinues
<1>4. ASSUME i = processed PROVE CoreContinues
  <2>1. buffer = <<>> /\ i + LoadSize <= regionLen
    BY <1>4 DEF Ahead
  <2>2. Len(buffer) = 0
    BY <2>1
  <2> QED
    BY <1>1, <2>1, <2>2 DEF CoreContinues, HasRoom
<1> QED
    BY <1>1, <1>2, <1>3, <1>4

LEMMA InitAhead == Init => Ahead
BY DEF Init, Ahead

LEMMA NextAhead ==
    ASSUME ReaderInv, ReaderInv', Ahead, [Next]_vars PROVE Ahead'
<1>0. /\ i \in Nat /\ regionLen \in Nat /\ i <= regionLen /\ k \in Nat /\ processed \in Nat
      /\ hashEnd \in Nat /\ dataLen \in Nat /\ core \in BOOLEAN
      /\ ArchLanes \in Nat \ {0} /\ LoadSize \in Nat /\ LoadSize >= ArchLanes
      /\ core => pc = "scan"
    BY Places, LanesAssumption DEF ReaderInv, ReaderTypes, Blocks
<1>1. CASE StartRegion
  <2>1. pc' = "scan" /\ i' = 0 /\ ~ core /\ core' = core
        /\ before' = Len(candidateOffsets) /\ candidateOffsets' = candidateOffsets
    BY <1>0, <1>1 DEF StartRegion, frontier, arch
  <2> DEFINE bytesUntilStable == Last(candidateOffsets) + MinSize - 1 - scannedOffset
  <2>2. /\ hashEnd < dataLen
        /\ reachesStabilityPoint' = (dataLen - hashEnd > bytesUntilStable)
        /\ regionLen' = IF dataLen - hashEnd > bytesUntilStable
                        THEN bytesUntilStable ELSE dataLen - hashEnd
    BY <1>1 DEF StartRegion
  <2> HIDE DEF bytesUntilStable
  <2>3. ASSUME ~ reachesStabilityPoint' PROVE regionLen' > 0
    <3>1. ~ (dataLen - hashEnd > bytesUntilStable)
      BY <2>2, <2>3, Zenon
    <3>2. regionLen' = dataLen - hashEnd
      BY <2>2, <3>1, Zenon
    <3> QED
      BY <1>0, <2>2, <3>2
  <2> QED
    BY <2>1, <2>3 DEF Ahead
<1>2. CASE GearBlockByte \/ GearByte \/ ScalarByte \/ PortableByte \/ WindowByte
  <2>1. /\ pc = "scan" /\ i' = i + 1 /\ UNCHANGED <<pc, regionLen, reachesStabilityPoint>>
        /\ core' = core /\ (scanner.name = "archsimd" => ~ core)
    BY <1>0, <1>2 DEF GearBlockByte, GearByte, ScalarByte, PortableByte, WindowByte, Roll, ByteDone,
       Scanning, region, arch
  <2>2. ~ core
    BY <2>1 DEF ReaderInv, Blocks
  <2> QED
    BY <1>0, <2>1, <2>2 DEF Ahead
<1>3. CASE EnterCore
  <2>1. /\ pc = "scan" /\ ~ core /\ core' = TRUE /\ processed' = i /\ i + LoadSize <= regionLen
        /\ scanner.name = "archsimd"
        /\ UNCHANGED <<pc, i, k, buffer, regionLen, reachesStabilityPoint, scanner>>
    BY <1>3 DEF EnterCore, Scanning, EntersCore, input, region, block
  <2>2. buffer = <<>> /\ k = 0
    BY <1>0, <2>1 DEF ReaderInv, Blocks
  <2> QED
    BY <1>0, <2>1, <2>2 DEF Ahead
<1>4. CASE CoreByte
  <2>1. /\ pc = "scan" /\ core /\ i' = i + 1 /\ k' = (k + 1) % ArchLanes
        /\ UNCHANGED <<pc, core, processed, regionLen, reachesStabilityPoint>>
    BY <1>4 DEF CoreByte, ByteDone, region
  <2>2. i' # processed'
    BY <1>0, <2>1, CoreBegins
  <2> QED
    BY <1>0, <2>1, <2>2 DEF Ahead
<1>5. CASE LeaveCore
  <2>1. /\ pc = "scan" /\ core /\ core' = FALSE /\ ~ CoreContinues
        /\ UNCHANGED <<pc, i, regionLen, reachesStabilityPoint>>
    BY <1>5 DEF LeaveCore, region
  <2>2. i # processed
    BY <1>0, <2>1, CoreBegins
  <2>3. i > 0
    BY <1>0, <2>1, <2>2, CoreBegins
  <2> QED
    BY <1>0, <2>1, <2>3 DEF Ahead
<1>6. CASE Restart \/ GoOn \/ EndOfData \/ NextCall
  <2>1. pc' # "scan"
    BY <1>6 DEF Restart, GoOn, EndOfData, NextCall
  <2>2. ~ core'
    BY <2>1 DEF ReaderInv, Blocks
  <2> QED
    BY <2>1, <2>2 DEF Ahead
<1>7. CASE UNCHANGED vars
    BY <1>7 DEF vars, frontier, region, block, arch, Ahead
<1> QED
    BY <1>1, <1>2, <1>3, <1>4, <1>5, <1>6, <1>7 DEF Next, ScanStep

\* The steps that a call has left, at most.  A byte may end the core, and with it
\* the region; after that there is one step to the next byte but for the last.
StepsOfByte == 8
Phase ==
    CASE pc = "done" -> 0
      [] pc = "horizon" -> 4
      [] pc = "scan" /\ core -> IF i = processed THEN 2 ELSE 7
      [] pc = "scan" /\ ~ core -> IF i = 0 THEN 3 ELSE 6
StepsLeft == StepsOfByte * (dataLen - (hashEnd + Done)) + Phase

\* A step can be taken, where its guards are not the negations of another's; and
\* what a step reads of the data, the byte that enters the window of the next
\* frontier included, is there.
CanGoOn ==
    /\ pc \in {"horizon", "scan"}
    /\ pc = "scan" =>
          /\ i <= regionLen /\ (core /\ CoreContinues => i < regionLen)
          /\ i < regionLen => hashEnd + i < dataLen /\ hashEnd + i - Window >= 0
          /\ RegionScanned /\ BatchIsStable =>
                LET end == hashEnd + regionLen
                IN  /\ end < dataLen /\ end - Window >= 0
                    /\ EnteringIndex(end) \in (end - Window) .. end

LEMMA ScannerCanGoOn ==
    ASSUME ReaderInv, Ahead
    PROVE  StepsLeft \in Nat /\ (pc # "done" => CanGoOn)
<1>1. /\ Window \in Nat /\ Window > 0 /\ MinSize >= Window /\ MinSize \in Nat /\ dataLen \in Nat
      /\ hashEnd \in Nat /\ hashEnd >= MinSize /\ hashEnd <= dataLen
      /\ i \in Nat /\ regionLen \in Nat /\ Done \in Nat /\ hashEnd + Done <= dataLen
    BY Places
<1>2. pc \in {"horizon", "scan", "done"} /\ core \in BOOLEAN /\ i <= regionLen
    BY <1>1 DEF ReaderInv, ReaderTypes
<1>3. Phase \in Nat
    BY <1>2 DEF Phase
<1>4. StepsLeft \in Nat
    BY <1>1, <1>3 DEF StepsLeft, StepsOfByte
<1>5. ASSUME pc = "scan", RegionScanned, BatchIsStable
      PROVE  LET end == hashEnd + regionLen
             IN  /\ end < dataLen /\ end - Window >= 0
                 /\ EnteringIndex(end) \in (end - Window) .. end
  <2> DEFINE end == hashEnd + regionLen
  <2>1. end < dataLen
    BY <1>5 DEF ReaderInv, Regions, BatchIsStable
  <2>2. end \in Nat /\ end - Window >= 0
    BY <1>1
  <2> HIDE DEF end
  <2>3. EnteringIndex(end) \in (end - Window) .. end
    BY <1>1, <2>2, PrefixAssumption DEF EnteringIndex
  <2> QED
    BY <2>1, <2>2, <2>3 DEF end
<1>6. ASSUME pc = "scan", i < regionLen PROVE hashEnd + i < dataLen /\ hashEnd + i - Window >= 0
    BY <1>1, <1>6 DEF ReaderInv, Regions
<1>7. core /\ CoreContinues => i < regionLen
    BY CoreBegins
<1> QED
    BY <1>2, <1>4, <1>5, <1>6, <1>7 DEF CanGoOn

\* Every step of a call leaves fewer.
LEMMA ScanStepCounts ==
    ASSUME ReaderInv, Ahead, ScanStep
    PROVE  StepsLeft' < StepsLeft
<1>1. /\ dataLen \in Nat /\ hashEnd \in Nat /\ i \in Nat /\ regionLen \in Nat /\ i <= regionLen
      /\ core \in BOOLEAN /\ pc \in {"horizon", "scan", "done"} /\ processed \in Nat
    BY Places DEF ReaderInv, ReaderTypes
<1>2. CASE StartRegion
  <2>1. /\ pc = "horizon" /\ pc' = "scan" /\ i' = 0 /\ UNCHANGED <<dataLen, hashEnd, core>>
    BY <1>2 DEF StartRegion, input, arch
  <2>2. ~ core
    BY <2>1 DEF ReaderInv, Blocks
  <2> QED
    BY <1>1, <2>1, <2>2 DEF StepsLeft, StepsOfByte, Phase, Done
<1>3. CASE GearBlockByte \/ GearByte \/ ScalarByte \/ PortableByte \/ WindowByte
  <2>1. /\ pc = "scan" /\ i' = i + 1 /\ UNCHANGED <<pc, dataLen, hashEnd, core>>
        /\ scanner.name = "archsimd" => ~ core
    BY <1>1, <1>3 DEF GearBlockByte, GearByte, ScalarByte, PortableByte, WindowByte, Roll,
       ByteDone, Scanning, input, arch
  <2>2. ~ core
    BY <2>1 DEF ReaderInv, Blocks
  <2> QED
    BY <1>1, <2>1, <2>2 DEF StepsLeft, StepsOfByte, Phase, Done
<1>4. CASE EnterCore
  <2>1. /\ pc = "scan" /\ ~ core /\ core' = TRUE /\ processed' = i
        /\ UNCHANGED <<pc, i, dataLen, hashEnd>>
    BY <1>4 DEF EnterCore, Scanning, input
  <2> QED
    BY <1>1, <2>1 DEF StepsLeft, StepsOfByte, Phase, Done
<1>5. CASE CoreByte
  <2>1. /\ pc = "scan" /\ core /\ i' = i + 1 /\ UNCHANGED <<pc, dataLen, hashEnd, core, processed>>
    BY <1>5 DEF CoreByte, ByteDone, input
  <2>2. processed <= i
    BY <2>1, CoreBegins
  <2> QED
    BY <1>1, <2>1, <2>2 DEF StepsLeft, StepsOfByte, Phase, Done
<1>6. CASE LeaveCore
  <2>1. /\ pc = "scan" /\ core /\ core' = FALSE /\ ~ CoreContinues
        /\ UNCHANGED <<pc, i, dataLen, hashEnd>>
    BY <1>6 DEF LeaveCore, input
  <2>2. i # processed
    BY <2>1, CoreBegins
  <2> QED
    BY <1>1, <2>1, <2>2 DEF StepsLeft, StepsOfByte, Phase, Done
<1>7. CASE Restart
  <2>1. /\ pc = "scan" /\ pc' = "horizon" /\ i = regionLen /\ ~ core
        /\ hashEnd' = hashEnd + regionLen + 1 /\ dataLen' = dataLen
    BY <1>7 DEF Restart, RegionScanned, input
  <2> QED
    BY <1>1, <2>1 DEF StepsLeft, StepsOfByte, Phase, Done
<1>8. CASE GoOn
  <2>1. /\ pc = "scan" /\ pc' = "horizon" /\ i = regionLen /\ ~ core
        /\ hashEnd' = hashEnd + regionLen /\ dataLen' = dataLen /\ ~ BatchIsStable
    BY <1>8 DEF GoOn, RegionScanned, input
  <2>2. i # 0
    BY <1>1, <2>1 DEF Ahead, BatchIsStable
  <2> QED
    BY <1>1, <2>1, <2>2 DEF StepsLeft, StepsOfByte, Phase, Done
<1>9. CASE EndOfData
  <2>1. pc = "horizon" /\ pc' = "done" /\ UNCHANGED <<dataLen, hashEnd>>
    BY <1>9 DEF EndOfData, input
  <2> QED
    BY <1>1, <2>1 DEF StepsLeft, StepsOfByte, Phase, Done
<1> QED
    BY <1>2, <1>3, <1>4, <1>5, <1>6, <1>7, <1>8, <1>9 DEF ScanStep

\* Within the reader, and as long as the search runs, which leaves the reader's
\* variables as they are.
HashesAhead == HashesInv /\ (user = "reader" => Ahead)

LEMMA AheadInvariance == HashesSpec => []HashesAhead
<1>1. HashesInit => (user = "reader" => Ahead)
  <2>1. user = "reader" /\ HashesInit => Init \/ user = "search"
    BY DEF HashesInit
  <2> QED
    BY <2>1, InitAhead
<1>2. /\ HashesInv /\ HashesInv' /\ [HashesNext]_hashes
      /\ (user = "reader" => Ahead)
      => (user = "reader" => Ahead)'
    BY StepOfUser, NextAhead DEF HashesInv
<1>3. HashesAhead <=> HashesInv /\ (user = "reader" => Ahead)
    BY DEF HashesAhead
<1> QED
    BY <1>1, <1>2, <1>3, Invariance, PTL DEF HashesSpec

\* Every step of a scanner brings the end of its call nearer: the amd64 core does a
\* block whenever it is entered, and no region without a byte is scanned again.
THEOREM ScanStepsCount ==
    HashesSpec => [][user = "reader" /\ ScanStep => StepsLeft' < StepsLeft]_hashes
<1>1. HashesAhead => [user = "reader" /\ ScanStep => StepsLeft' < StepsLeft]_hashes
    BY ScanStepCounts DEF HashesAhead, HashesInv
<1> QED
    BY <1>1, AheadInvariance, PTL

\* A scanner is never stuck before the end of its data, and reads nothing beyond.
ScannerGoesOn == user = "reader" => StepsLeft \in Nat /\ (pc # "done" => CanGoOn)

THEOREM ScanNeverStuck == HashesSpec => []ScannerGoesOn
<1>1. HashesAhead => ScannerGoesOn
    BY ScannerCanGoOn DEF HashesAhead, HashesInv, ScannerGoesOn
<1> QED
    BY <1>1, AheadInvariance, PTL

=============================================================================
